----------------------------- MODULE BackupFiles -----------------------------
(***************************************************************************)
(* The backup thread and the restore at start-up.  Every few seconds        *)
(* syn_shm_to_ini rewrites the files sync_1 .. sync_N one after the other:  *)
(* it truncates the .dat file, copies the shared memory word by word while  *)
(* every other thread goes on writing it, and then replaces the .md5 file.  *)
(* Nothing is flushed: the kernel brings the files to the disk when it likes *)
(* and a power cut leaves what the disk holds.  The program may stop, and    *)
(* the power fail, between any two of these steps.  At start-up             *)
(* init_para tries the files in order and takes the first whose MD5 agrees  *)
(* and whose running time is not zero; an image it rejects only because of  *)
(* the running time stays in memory.                                        *)
(***************************************************************************)
EXTENDS Integers, Sequences, FiniteSets

CONSTANTS
    N,           \* number of backup files (10)
    W,           \* words of the shared memory, the last one is the running time
    Values,      \* values of a word, 0 among them
    DiskFull,    \* whether the disk may be full
    Budgets      \* bounds: how many writes to the shared memory, stops of the
                 \* daemon and power cuts there may be

Files == 1 .. N
Words == 1 .. W
Images == [Words -> Values]
Zero == [w \in Words |-> 0]
NoSum == <<-1>> \* an .md5 file that is being written

ASSUME BackupAssumption ==
    /\ N \in Nat \ {0} /\ W \in Nat \ {0} /\ Values \subseteq Nat /\ 0 \in Values
    /\ DiskFull \in BOOLEAN
    /\ Budgets \subseteq [updates : Nat, stops : Nat, cuts : Nat]

VARIABLES
    memory,  \* shm_out
    dat, sum,\* the contents of the .dat files, the content each .md5 stands for
    ddat, dsum, \* what the disk itself holds of them
    pc,      \* the step the program takes next
    file,    \* the file it works on
    seen,    \* history: values of each word since the file was opened
    hits,    \* history: the files that were at risk in a stop or a power cut
    updates, stops, cuts \* what may still happen

files == <<dat, sum>>
disk == <<ddat, dsum>>
ends == <<hits, stops, cuts>>
vars == <<memory, files, disk, pc, file, seen, updates, ends>>

Valid(f) == sum[f] = dat[f]

(* A machine that has written every file once. *)
Init ==
    /\ memory \in Images
    /\ dat = [f \in Files |-> memory] /\ sum = dat /\ ddat = dat /\ dsum = dat
    /\ pc = "open" /\ file = 1
    /\ seen = [w \in Words |-> {memory[w]}]
    /\ hits = 0
    /\ \E b \in Budgets : updates = b.updates /\ stops = b.stops /\ cuts = b.cuts

-----------------------------------------------------------------------------
(* The backup thread. *)

(* Faulty variant: all files are opened before the first is written. *)
OpenAllFiles ==
    /\ pc = "open" /\ pc' = "copy"
    /\ dat' = IF file = 1 THEN [f \in Files |-> <<>>] ELSE [dat EXCEPT ![file] = <<>>]
    /\ seen' = [w \in Words |-> {memory[w]}]
    /\ UNCHANGED <<memory, sum, disk, file, updates, ends>>

OpenFile ==
    /\ pc = "open" /\ pc' = "copy"
    /\ dat' = [dat EXCEPT ![file] = <<>>]
    /\ seen' = [w \in Words |-> {memory[w]}]
    /\ UNCHANGED <<memory, sum, disk, file, updates, ends>>

CopyWord ==
    /\ pc = "copy" /\ Len(dat[file]) < W
    /\ dat' = [dat EXCEPT ![file] = Append(@, memory[Len(@) + 1])]
    /\ UNCHANGED <<memory, sum, disk, pc, file, seen, updates, ends>>

(* Faulty variant: the file is closed before everything is written.         *)
CloseEarly ==
    /\ pc = "copy" /\ pc' = "sum"
    /\ UNCHANGED <<memory, files, disk, file, seen, updates, ends>>

(* fwrite's result is not looked at: a full disk leaves a shorter file.     *)
CloseFile ==
    /\ pc = "copy" /\ pc' = "sum"
    /\ Len(dat[file]) = W \/ DiskFull
    /\ UNCHANGED <<memory, files, disk, file, seen, updates, ends>>

OpenSum ==
    /\ pc = "sum" /\ pc' = "write"
    /\ sum' = [sum EXCEPT ![file] = NoSum]
    /\ UNCHANGED <<memory, dat, disk, file, seen, updates, ends>>

WriteSum ==
    /\ pc = "write" /\ pc' = "open"
    /\ sum' = [sum EXCEPT ![file] = dat[file]]
    /\ file' = IF file = N THEN 1 ELSE file + 1
    /\ UNCHANGED <<memory, dat, disk, seen, updates, ends>>

-----------------------------------------------------------------------------
(* Start-up. *)

(* Faulty variant: a file is taken without comparing its MD5. *)
AgreesAlways(f) == dat[f] # <<>>

Agrees(f) == Valid(f)

(* A short image replaces only the first words. *)
Loaded(data) == [w \in Words |-> IF w <= Len(data) THEN data[w] ELSE memory[w]]

Restored(m) == m[W] # 0

Started(m) ==
    /\ pc' = "open" /\ file' = 1 /\ seen' = [w \in Words |-> {m[w]}]

TakeFile ==
    /\ pc = "boot" /\ file \in Files /\ Agrees(file)
    /\ memory' = Loaded(dat[file])
    /\ IF Restored(memory') THEN Started(memory')
       ELSE file' = file + 1 /\ UNCHANGED <<pc, seen>>
    /\ UNCHANGED <<files, disk, updates, ends>>

RejectFile ==
    /\ pc = "boot" /\ file \in Files /\ ~Agrees(file)
    /\ file' = file + 1
    /\ UNCHANGED <<memory, files, disk, pc, seen, updates, ends>>

StartAnyway ==
    /\ pc = "boot" /\ file = N + 1
    /\ Started(memory)
    /\ UNCHANGED <<memory, files, disk, updates, ends>>

-----------------------------------------------------------------------------
(* Any thread, the timer or the display writes a word. *)
Update ==
    /\ pc # "boot" /\ updates > 0 /\ updates' = updates - 1
    /\ \E w \in Words, v \in Values :
         /\ memory' = [memory EXCEPT ![w] = v]
         /\ seen' = [seen EXCEPT ![w] = @ \cup {v}]
    /\ UNCHANGED <<files, disk, pc, file, ends>>

(* The kernel brings a file to the disk as it stands.  What the disk holds  *)
(* is read after a power cut only.                                          *)
FlushData == \E f \in Files :
    /\ cuts > 0 /\ ddat[f] # dat[f]
    /\ ddat' = [ddat EXCEPT ![f] = dat[f]]
    /\ UNCHANGED <<memory, files, dsum, pc, file, seen, updates, ends>>

FlushSum == \E f \in Files :
    /\ cuts > 0 /\ dsum[f] # sum[f]
    /\ dsum' = [dsum EXCEPT ![f] = sum[f]]
    /\ UNCHANGED <<memory, files, ddat, pc, file, seen, updates, ends>>

Writing == IF pc = "boot" THEN {} ELSE {file}
Dirty == {f \in Files : ddat[f] # dat[f] \/ dsum[f] # sum[f]}

(* The daemon dies: the shared memory and the files stay. *)
Stop ==
    /\ stops > 0 /\ stops' = stops - 1
    /\ hits' = hits + Cardinality(Writing)
    /\ pc' = "boot" /\ file' = 1
    /\ UNCHANGED <<memory, files, disk, seen, updates, cuts>>

(* The power fails: the memory is lost and the files are what the disk has. *)
PowerCut ==
    /\ cuts > 0 /\ cuts' = cuts - 1
    /\ hits' = hits + Cardinality(Writing \cup Dirty)
    /\ memory' = Zero /\ dat' = ddat /\ sum' = dsum
    /\ pc' = "boot" /\ file' = 1
    /\ UNCHANGED <<disk, seen, updates, stops>>

Next == \/ OpenFile \/ CopyWord \/ CloseFile \/ OpenSum \/ WriteSum
        \/ TakeFile \/ RejectFile \/ StartAnyway
        \/ Update \/ FlushData \/ FlushSum \/ Stop \/ PowerCut

(* The machine keeps making backups; nothing obliges it to stop.            *)
Spec == Init /\ [][Next]_vars

-----------------------------------------------------------------------------
(* Memory is an image and the files are images or the beginnings of images.  *)
TypeOK ==
    /\ memory \in Images
    /\ dat \in [Files -> Seq(Values)] /\ sum \in [Files -> Seq(Values) \cup {NoSum}]
    /\ ddat \in [Files -> Seq(Values)] /\ dsum \in [Files -> Seq(Values) \cup {NoSum}]
    /\ pc \in {"open", "copy", "sum", "write", "boot"}
    /\ file \in 1 .. N + 1 /\ (pc # "boot" => file \in Files)
    /\ seen \in [Words -> SUBSET Values]
    /\ updates \in Nat /\ hits \in Nat /\ stops \in Nat /\ cuts \in Nat

Damaged == {f \in Files : ~Valid(f)}

(* A stop of the daemon damages at most the file that is being written, and  *)
(* a restart begins with sync_1 again and does not repair that one first; a  *)
(* power cut may also damage every file that is not yet on the disk.  As     *)
(* long as fewer files than there are were at risk, one can be restored.     *)
SurvivesStops == hits + Cardinality(Writing) < N => Damaged # Files

(* Only whole images pass the test of the MD5 ("备份成功").                 *)
SavedIsWhole == \A f \in Files : Valid(f) => Len(dat[f]) = W

kept == {dat[f] : f \in {g \in Files : Valid(g)}}

(* What a power cut may leave: old or new data with an old or a new MD5. *)
FoundIn(f) == {dat[f], ddat[f]} \cap {sum[f], dsum[f]}
found == UNION {FoundIn(f) : f \in Files}

Store == INSTANCE BackupStore WITH
    memory <- IF pc = "boot" THEN <<>> ELSE memory

(* The files keep the promise of BackupStore: a restart continues from an   *)
(* image that was saved, each of whose words the memory really held while    *)
(* the file was written, and never from a half written or mixed file; a     *)
(* power cut may bring back an older one.                                   *)
StoreSpec == Store!Spec

=============================================================================
