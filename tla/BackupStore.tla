----------------------------- MODULE BackupStore -----------------------------
(***************************************************************************)
(* What the backup of the shared memory promises: whenever the program      *)
(* starts again it continues from one of the images it has saved, and every *)
(* word of an image is a value the word had while that image was taken.     *)
(* Saving loses at most one image at a time; a power cut goes back to        *)
(* images among those that were kept or were not yet replaced on the disk.  *)
(***************************************************************************)
EXTENDS Integers, Sequences

CONSTANTS W, \* number of words of the shared memory
          Values

Words == 1 .. W
Images == [Words -> Values]
Nothing == <<>> \* the memory of a program that does not run

VARIABLES
    memory, \* the shared memory, shm_out
    seen,   \* the values each word had since an image was begun
    kept,   \* the images that can be restored
    found   \* the images that can be restored or that a power cut may bring back

vars == <<memory, seen, kept, found>>

Init == /\ memory \in Images /\ kept = {memory} /\ found = {memory}
        /\ seen = [w \in Words |-> {memory[w]}]

OneLost(old, new) == \A a, b \in old \ new : a = b

(* One image may be lost, and those of "more" may come. *)
Change(more) ==
    /\ kept' \subseteq kept \cup more /\ OneLost(kept, kept')
    /\ found' \subseteq found \cup more /\ OneLost(found, found')

Update == \E w \in Words, v \in Values :
    /\ memory \in Images
    /\ memory' = [memory EXCEPT ![w] = v]
    /\ seen' = [seen EXCEPT ![w] = @ \cup {v}]
    /\ UNCHANGED <<kept, found>>

Begin == /\ memory \in Images /\ memory' = memory
         /\ seen' = [w \in Words |-> {memory[w]}]
         /\ Change({})

Save == /\ memory \in Images
        /\ \E image \in Images :
              (\A w \in Words : image[w] \in seen[w]) /\ Change({image})
        /\ UNCHANGED <<memory, seen>>

(* The disk catches up: an older image is gone. *)
Flush == /\ found' \subseteq found /\ OneLost(found, found')
         /\ UNCHANGED <<memory, seen, kept>>

Stop == memory' = Nothing /\ UNCHANGED <<seen, kept, found>>

PowerCut == /\ memory' = Nothing /\ seen' = seen
            /\ kept' \subseteq found /\ found' = kept'

Start == /\ memory = Nothing /\ memory' \in Images
         /\ kept # {} => memory' \in kept
         /\ seen' = [w \in Words |-> {memory'[w]}] /\ UNCHANGED <<kept, found>>

Next == Update \/ Begin \/ Save \/ Flush \/ Stop \/ PowerCut \/ Start

Spec == Init /\ [][Next]_vars

=============================================================================
