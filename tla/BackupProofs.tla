---------------------------- MODULE BackupProofs ----------------------------
(***************************************************************************)
(* Proofs about the backup files, for every number of files, words, values, *)
(* stops and power cuts, on a disk that is not full.  The invariant says    *)
(* what every file may hold: only the file that is being written and the    *)
(* files that were at risk in a stop or a power cut are damaged, and what is *)
(* being written comes from the memory as it was since the file was opened.  *)
(***************************************************************************)
EXTENDS BackupFiles, FiniteSetTheorems, TLAPS

Up == pc # "boot"
Written == pc \in {"sum", "write"}

(* An MD5 file stands for a whole image, and so does a file that is closed. *)
WholeSums ==
    /\ \A f \in Files : sum[f] # NoSum => Len(sum[f]) = W
    /\ \A f \in Files : dsum[f] # NoSum => Len(dsum[f]) = W
    /\ \A f \in Files : Len(dat[f]) <= W /\ Len(ddat[f]) <= W
    /\ Written => Len(dat[file]) = W

(* The file that is being written and the memory hold words of the memory   *)
(* since the file was opened.                                               *)
FromMemory ==
    /\ Up => \A w \in Words : memory[w] \in seen[w]
    /\ pc \in {"copy", "sum", "write"} =>
          \A w \in 1 .. Len(dat[file]) : dat[file][w] \in seen[w]

(* At start-up the memory is the last image that could be loaded.           *)
BootMemory ==
    ~Up => (\A f \in Files : f < file /\ Valid(f) => memory \in kept)

(* Only files that were at risk are damaged, and the one that is written. *)
FewDamaged == Cardinality(Damaged \ Writing) <= hits

IInv == TypeOK /\ WholeSums /\ FromMemory /\ BootMemory /\ FewDamaged

(* An MD5 file that is being written stands for no image. *)
LEMMA NoSumIsNoImage == NoSum \notin Seq(Values)
<1> SUFFICES ASSUME NoSum \in Seq(Values) PROVE FALSE
    OBVIOUS
<1>1. Len(NoSum) = 1 /\ NoSum[1] = -1 BY DEF NoSum
<1>2. NoSum[1] \in Values BY <1>1
<1> QED BY <1>1, <1>2, BackupAssumption

(* What a file holds with its MD5 is a whole image. *)
LEMMA ValidIsImage ==
    ASSUME TypeOK, WholeSums, NEW f \in Files, Valid(f)
    PROVE  dat[f] \in Images /\ Len(dat[f]) = W
<1> USE BackupAssumption
<1>1. dat[f] \in Seq(Values) /\ sum[f] = dat[f] BY DEF TypeOK, Valid
<1>2. sum[f] # NoSum
  <2> SUFFICES ASSUME sum[f] = NoSum PROVE FALSE
    OBVIOUS
  <2>1. dat[f] = NoSum BY <1>1
  <2> QED BY <1>1, <2>1, NoSumIsNoImage
<1>3. Len(dat[f]) = W BY <1>1, <1>2 DEF WholeSums
<1> QED BY <1>1, <1>3 DEF Images, Words

(* A whole image replaces the whole memory. *)
LEMMA LoadedWhole ==
    ASSUME TypeOK, WholeSums, NEW f \in Files, Valid(f)
    PROVE  Loaded(dat[f]) = dat[f]
<1>1. dat[f] \in Images /\ Len(dat[f]) = W BY ValidIsImage
<1> QED BY <1>1, BackupAssumption DEF Loaded, Images, Words

(* The files at risk are finitely many. *)
LEMMA WritingFinite == IsFiniteSet(Writing)
BY FS_EmptySet, FS_Singleton DEF Writing

LEMMA AtRiskFinite == IsFiniteSet(Writing \cup Dirty)
<1>1. IsFiniteSet(Files) BY BackupAssumption, FS_Interval DEF Files
<1>2. IsFiniteSet(Dirty) BY <1>1, FS_Subset DEF Dirty
<1> QED BY <1>2, WritingFinite, FS_Union

-----------------------------------------------------------------------------
(* Every step keeps the types. *)
LEMMA TypeInvariance == TypeOK /\ WholeSums /\ [Next]_vars => TypeOK'
<1> SUFFICES ASSUME TypeOK, WholeSums, [Next]_vars PROVE TypeOK'
    OBVIOUS
<1> USE BackupAssumption DEF TypeOK, Files, Words, Images, files, disk, ends
<1>1. CASE OpenFile
  BY <1>1 DEF OpenFile
<1>2. CASE CopyWord
  <2>1. /\ file \in Files /\ dat[file] \in Seq(Values)
        /\ Len(dat[file]) + 1 \in 1 .. W
    BY <1>2 DEF CopyWord
  <2>2. Append(dat[file], memory[Len(dat[file]) + 1]) \in Seq(Values) BY <2>1
  <2> QED BY <1>2, <2>1, <2>2 DEF CopyWord
<1>3. CASE CloseFile BY <1>3 DEF CloseFile
<1>4. CASE OpenSum BY <1>4 DEF OpenSum
<1>5. CASE WriteSum BY <1>5 DEF WriteSum
<1>6. CASE TakeFile
  <2>1. memory' = dat[file] /\ memory' \in Images
    BY <1>6, LoadedWhole, ValidIsImage DEF TakeFile, Agrees
  <2>2. memory' \in [1 .. W -> Values] BY <2>1
  <2> HIDE DEF Images
  <2>3. CASE Restored(memory')
    <3>1. seen' \in [1 .. W -> SUBSET Values]
      BY <1>6, <2>2, <2>3 DEF TakeFile, Started
    <3> QED BY <1>6, <2>1, <2>3, <3>1 DEF TakeFile, Started
  <2>4. CASE ~Restored(memory')
    BY <1>6, <2>1, <2>4 DEF TakeFile
  <2> QED BY <2>3, <2>4
<1>7. CASE RejectFile BY <1>7 DEF RejectFile
<1>8. CASE StartAnyway BY <1>8 DEF StartAnyway, Started
<1>9. CASE Update BY <1>9 DEF Update
<1>10. CASE FlushData BY <1>10 DEF FlushData
<1>11. CASE FlushSum BY <1>11 DEF FlushSum
<1>12. CASE Stop
  <2>1. hits' \in Nat BY <1>12, WritingFinite, FS_CardinalityType DEF Stop
  <2> QED BY <1>12, <2>1 DEF Stop
<1>13. CASE PowerCut
  <2>1. hits' \in Nat BY <1>13, AtRiskFinite, FS_CardinalityType DEF PowerCut
  <2> QED BY <1>13, <2>1 DEF PowerCut, Zero
<1>14. CASE UNCHANGED vars BY <1>14 DEF vars
<1> QED BY <1>1, <1>2, <1>3, <1>4, <1>5, <1>6, <1>7, <1>8, <1>9, <1>10, <1>11, <1>12,
           <1>13, <1>14 DEF Next

(* No step closes a file or writes an MD5 for less than a whole image. *)
LEMMA WholeInductive ==
    ASSUME TypeOK, WholeSums, ~DiskFull, [Next]_vars
    PROVE  WholeSums'
<1> USE BackupAssumption DEF TypeOK, WholeSums, Files, Written, files, disk, ends
<1>1. CASE OpenFile BY <1>1 DEF OpenFile
<1>2. CASE CopyWord
  <2>1. /\ file \in Files /\ dat[file] \in Seq(Values)
        /\ Len(dat[file]) + 1 \in 1 .. W
    BY <1>2 DEF CopyWord
  <2>2. Len(Append(dat[file], memory[Len(dat[file]) + 1])) <= W
    BY <2>1
  <2> QED BY <1>2, <2>1, <2>2 DEF CopyWord
<1>3. CASE CloseFile BY <1>3 DEF CloseFile
<1>4. CASE OpenSum BY <1>4 DEF OpenSum
<1>5. CASE WriteSum BY <1>5 DEF WriteSum
<1>6. CASE TakeFile \/ RejectFile \/ StartAnyway
  BY <1>6 DEF TakeFile, RejectFile, StartAnyway, Started
<1>7. CASE Update BY <1>7 DEF Update
<1>8. CASE FlushData BY <1>8 DEF FlushData
<1>9. CASE FlushSum BY <1>9 DEF FlushSum
<1>10. CASE Stop BY <1>10 DEF Stop
<1>11. CASE PowerCut BY <1>11 DEF PowerCut
<1>12. CASE UNCHANGED vars BY <1>12 DEF vars
<1> QED BY <1>1, <1>2, <1>3, <1>4, <1>5, <1>6, <1>7, <1>8, <1>9, <1>10, <1>11, <1>12
     DEF Next

(* What is copied stays what the memory held. *)
LEMMA FromInductive ==
    ASSUME TypeOK, WholeSums, FromMemory, [Next]_vars, TypeOK'
    PROVE  FromMemory'
<1> USE BackupAssumption DEF TypeOK, FromMemory, Files, Words, Images, Up, files, disk, ends
<1>1. CASE OpenFile BY <1>1 DEF OpenFile
<1>2. CASE CopyWord
  <2>1. /\ file \in Files /\ dat[file] \in Seq(Values)
        /\ Len(dat[file]) + 1 \in 1 .. W
    BY <1>2 DEF CopyWord
  <2>2. dat'[file] = Append(dat[file], memory[Len(dat[file]) + 1])
    BY <1>2, <2>1 DEF CopyWord
  <2>3. ASSUME NEW w \in 1 .. Len(dat'[file]) PROVE dat'[file][w] \in seen[w]
    <3>1. CASE w <= Len(dat[file])
      BY <1>2, <2>1, <2>2, <2>3, <3>1 DEF CopyWord
    <3>2. CASE w = Len(dat[file]) + 1
      BY <1>2, <2>1, <2>2, <3>2 DEF CopyWord
    <3>3. Len(dat'[file]) = Len(dat[file]) + 1 BY <2>1, <2>2
    <3>4. PICK n \in Nat : n = Len(dat[file]) BY <2>1
    <3>5. w \in 1 .. n + 1 BY <2>3, <3>3, <3>4
    <3>6. w <= n \/ w = n + 1 BY <3>5
    <3> QED BY <3>1, <3>2, <3>4, <3>6
  <2> QED BY <1>2, <2>3 DEF CopyWord
<1>3. CASE CloseFile BY <1>3 DEF CloseFile
<1>4. CASE OpenSum BY <1>4 DEF OpenSum
<1>5. CASE WriteSum BY <1>5 DEF WriteSum
<1>6. CASE TakeFile \/ StartAnyway
  BY <1>6 DEF TakeFile, StartAnyway, Started
<1>7. CASE RejectFile BY <1>7 DEF RejectFile
<1>8. CASE Update
  <2>1. PICK w \in Words, v \in Values :
          /\ memory' = [memory EXCEPT ![w] = v]
          /\ seen' = [seen EXCEPT ![w] = @ \cup {v}]
    BY <1>8 DEF Update
  <2>2. \A x \in Words : memory'[x] \in seen'[x]
    BY <1>8, <2>1 DEF Update
  <2>3. \A x \in Words : seen[x] \subseteq seen'[x] BY <2>1
  <2>4. \A x \in 1 .. Len(dat[file]) : x \in Words
    BY <1>8 DEF Update, WholeSums
  <2> QED BY <1>8, <2>2, <2>3, <2>4 DEF Update
<1>9. CASE FlushData \/ FlushSum BY <1>9 DEF FlushData, FlushSum
<1>10. CASE Stop \/ PowerCut BY <1>10 DEF Stop, PowerCut
<1>11. CASE UNCHANGED vars BY <1>11 DEF vars
<1> QED BY <1>1, <1>2, <1>3, <1>4, <1>5, <1>6, <1>7, <1>8, <1>9, <1>10, <1>11 DEF Next

(* The memory at start-up is the last image loaded. *)
LEMMA BootInductive ==
    ASSUME TypeOK, WholeSums, BootMemory, [Next]_vars
    PROVE  BootMemory'
<1> USE BackupAssumption DEF BootMemory, Files, Up
<1>1. CASE OpenFile \/ CopyWord \/ CloseFile \/ OpenSum \/ WriteSum
  BY <1>1 DEF OpenFile, CopyWord, CloseFile, OpenSum, WriteSum
<1>2. CASE TakeFile
  <2>1. Valid(file) /\ file \in Files BY <1>2 DEF TakeFile, Agrees
  <2>2. memory' = dat[file] BY <1>2, <2>1, LoadedWhole DEF TakeFile
  <2>3. kept' = kept /\ dat[file] \in kept
    BY <1>2, <2>1 DEF TakeFile, kept, Valid, files
  <2> QED BY <2>2, <2>3
<1>3. CASE RejectFile
  <2>1. memory' = memory /\ kept' = kept /\ file' = file + 1 /\ ~Valid(file)
        /\ file \in Files /\ pc = "boot" /\ UNCHANGED files
    BY <1>3 DEF RejectFile, Agrees, kept, Valid, files
  <2>2. ASSUME NEW f \in Files, f < file', Valid(f)' PROVE memory' \in kept'
    <3>1. Valid(f) BY <2>1, <2>2 DEF Valid, files
    <3>2. f < file BY <2>1, <2>2, <3>1
    <3> QED BY <2>1, <3>1, <3>2
  <2> QED BY <2>2
<1>4. CASE StartAnyway BY <1>4 DEF StartAnyway, Started
<1>5. CASE Update BY <1>5 DEF Update
<1>6. CASE FlushData \/ FlushSum
  <2>1. UNCHANGED <<memory, pc, file, files>> BY <1>6 DEF FlushData, FlushSum
  <2> QED BY <2>1 DEF files, kept, Valid
<1>7. CASE Stop \/ PowerCut BY <1>7 DEF Stop, PowerCut
<1>8. CASE UNCHANGED vars BY <1>8 DEF vars, files, kept, Valid
<1> QED BY <1>1, <1>2, <1>3, <1>4, <1>5, <1>6, <1>7, <1>8 DEF Next

(* A stop damages at most the file that was being written, a power cut at    *)
(* most this one and those that are not on the disk as they stand.          *)
LEMMA FewInductive ==
    ASSUME TypeOK, WholeSums, FewDamaged, [Next]_vars, TypeOK'
    PROVE  FewDamaged'
<1>1. IsFiniteSet(Files) BY BackupAssumption, FS_Interval DEF Files
<1>2. IsFiniteSet(Damaged) BY <1>1, FS_Subset DEF Damaged
<1>3. IsFiniteSet(Damaged') BY <1>1, FS_Subset DEF Damaged
<1>4. Cardinality(Damaged \ Writing) <= hits BY DEF FewDamaged
<1>5. CASE Damaged' \ Writing' \subseteq Damaged \ Writing /\ hits' = hits
  <2>1. IsFiniteSet(Damaged \ Writing) BY <1>2, FS_Subset
  <2>2. Cardinality(Damaged' \ Writing') <= Cardinality(Damaged \ Writing)
    BY <1>5, <2>1, FS_Subset
  <2>3. /\ Cardinality(Damaged' \ Writing') \in Nat
        /\ Cardinality(Damaged \ Writing) \in Nat
    BY <1>5, <2>1, FS_Subset, FS_CardinalityType
  <2>4. Cardinality(Damaged' \ Writing') <= hits'
    BY <1>4, <1>5, <2>2, <2>3 DEF TypeOK
  <2> QED BY <2>4 DEF FewDamaged
<1>6. CASE OpenFile \/ CopyWord \/ OpenSum
  <2>1. \A f \in Files : f # file => dat'[f] = dat[f] /\ sum'[f] = sum[f]
    BY <1>6 DEF OpenFile, CopyWord, OpenSum, TypeOK
  <2>2. file' = file /\ Up /\ Up' /\ hits' = hits
    BY <1>6 DEF OpenFile, CopyWord, OpenSum, ends, Up
  <2>3. Damaged' \ {file} \subseteq Damaged \ {file}
    BY <2>1 DEF Damaged, Valid
  <2> QED BY <1>5, <2>2, <2>3 DEF Writing, Up
<1>7. CASE CloseFile
  <2>1. Damaged' = Damaged /\ file' = file /\ Up /\ Up' /\ hits' = hits
    BY <1>7 DEF CloseFile, files, ends, Up, Damaged, Valid
  <2> QED BY <1>5, <2>1 DEF Writing, Up
<1>8. CASE WriteSum
  <2>1. /\ Up /\ Up' /\ hits' = hits /\ file \in Files
        /\ dat' = dat /\ sum' = [sum EXCEPT ![file] = dat[file]]
    BY <1>8 DEF WriteSum, ends, Up, TypeOK
  <2>2. sum'[file] = dat'[file] BY <2>1 DEF TypeOK
  <2>3. \A f \in Files : f # file => dat'[f] = dat[f] /\ sum'[f] = sum[f]
    BY <2>1 DEF TypeOK
  <2>4. Damaged' \subseteq Damaged \ {file}
    BY <2>2, <2>3 DEF Damaged, Valid
  <2> QED BY <1>5, <2>1, <2>4 DEF Writing, Up
<1>9. CASE TakeFile \/ RejectFile \/ StartAnyway
  <2>1. Damaged' = Damaged /\ ~Up /\ hits' = hits
    BY <1>9 DEF TakeFile, RejectFile, StartAnyway, Started, files, ends, Up, Damaged, Valid
  <2> QED BY <1>5, <2>1 DEF Writing, Up
<1>10. CASE Update
  <2>1. Damaged' = Damaged /\ file' = file /\ Up /\ Up' /\ hits' = hits
    BY <1>10 DEF Update, files, ends, Up, Damaged, Valid
  <2> QED BY <1>5, <2>1 DEF Writing, Up
<1>11. ASSUME NEW risk, IsFiniteSet(risk), Damaged' \subseteq Damaged \cup risk,
              Writing \subseteq risk, Writing' = {}, hits' = hits + Cardinality(risk)
       PROVE  FewDamaged'
  <2>1. IsFiniteSet(Damaged \ Writing) BY <1>2, FS_Subset
  <2>2. Damaged' \subseteq (Damaged \ Writing) \cup risk BY <1>11
  <2>3. /\ IsFiniteSet((Damaged \ Writing) \cup risk)
        /\ Cardinality((Damaged \ Writing) \cup risk)
             = Cardinality(Damaged \ Writing) + Cardinality(risk)
               - Cardinality((Damaged \ Writing) \cap risk)
    BY <1>11, <2>1, FS_Union
  <2>4. IsFiniteSet((Damaged \ Writing) \cap risk) BY <2>1, FS_Subset
  <2>5. Cardinality(Damaged') <= Cardinality((Damaged \ Writing) \cup risk)
    BY <2>2, <2>3, FS_Subset
  <2>6. /\ Cardinality(Damaged') \in Nat /\ Cardinality(Damaged \ Writing) \in Nat
        /\ Cardinality(risk) \in Nat /\ hits \in Nat
        /\ Cardinality((Damaged \ Writing) \cap risk) \in Nat
    BY <1>3, <1>11, <2>1, <2>4, FS_CardinalityType DEF TypeOK
  <2>7. Cardinality(Damaged') <= hits'
    <3> HIDE DEF Damaged
    <3> QED BY <1>4, <1>11, <2>3, <2>5, <2>6
  <2>8. Damaged' \ Writing' = Damaged' BY <1>11
  <2> QED BY <2>7, <2>8 DEF FewDamaged
<1>12. CASE Stop
  <2>1. Damaged' = Damaged /\ Writing' = {} /\ hits' = hits + Cardinality(Writing)
    BY <1>12 DEF Stop, files, Damaged, Valid, Writing
  <2> QED BY <1>11, <2>1, WritingFinite
<1>13. CASE PowerCut
  <2>1. /\ dat' = ddat /\ sum' = dsum /\ Writing' = {}
        /\ hits' = hits + Cardinality(Writing \cup Dirty)
    BY <1>13 DEF PowerCut, Writing
  <2>2. Damaged' \subseteq Damaged \cup (Writing \cup Dirty)
    BY <2>1 DEF Damaged, Valid, Dirty
  <2> QED BY <1>11, <2>1, <2>2, AtRiskFinite
<1>14. CASE FlushData \/ FlushSum
  <2>1. Damaged' = Damaged /\ Writing' = Writing /\ hits' = hits
    BY <1>14 DEF FlushData, FlushSum, files, ends, Damaged, Valid, Writing
  <2> QED BY <1>5, <2>1
<1>15. CASE UNCHANGED vars
  <2>1. Damaged' = Damaged /\ Writing' = Writing /\ hits' = hits
    BY <1>15 DEF vars, files, ends, Writing, Damaged, Valid
  <2> QED BY <1>5, <2>1
<1> QED BY <1>6, <1>7, <1>8, <1>9, <1>10, <1>12, <1>13, <1>14, <1>15 DEF Next

(* The first state satisfies the invariant. *)
LEMMA InitIInv == Init => IInv
<1> SUFFICES ASSUME Init PROVE IInv
    OBVIOUS
<1> USE BackupAssumption DEF Init, Files, Words, Images
<1>1. TypeOK
  <2>1. memory \in Seq(Values) BY DEF Images
  <2> QED BY <2>1 DEF TypeOK
<1>2. Len(memory) = W OBVIOUS
<1>3. WholeSums BY <1>2 DEF WholeSums, Written
<1>4. FromMemory /\ BootMemory BY DEF FromMemory, BootMemory, Up
<1>5. Damaged = {} BY DEF Damaged, Valid
<1>6. FewDamaged BY <1>5, FS_EmptySet DEF FewDamaged
<1> QED BY <1>1, <1>3, <1>4, <1>6 DEF IInv

(* On a disk that is not full the invariant holds for ever. *)
LEMMA Invariance == ASSUME ~DiskFull PROVE Spec => []IInv
<1>1. IInv /\ [Next]_vars => IInv'
  BY TypeInvariance, WholeInductive, FromInductive, BootInductive, FewInductive
  DEF IInv
<1> QED BY InitIInv, <1>1, PTL DEF Spec

-----------------------------------------------------------------------------
(* Memory and files keep their types. *)
THEOREM BackupTypeCorrect == ASSUME ~DiskFull PROVE Spec => []TypeOK
<1>1. IInv => TypeOK BY DEF IInv
<1> QED BY Invariance, <1>1, PTL

(* Only whole images pass the test of the MD5. *)
THEOREM OnlyWholeImages == ASSUME ~DiskFull PROVE Spec => []SavedIsWhole
<1>1. IInv => SavedIsWhole
  BY ValidIsImage DEF IInv, SavedIsWhole
<1> QED BY Invariance, <1>1, PTL

(* As long as fewer files than there are were at risk in stops and power     *)
(* cuts, an image can be restored.                                           *)
THEOREM ImageSurvives == ASSUME ~DiskFull PROVE Spec => []SurvivesStops
<1>1. IInv => SurvivesStops
  <2> SUFFICES ASSUME IInv, Damaged = Files
               PROVE  ~(hits + Cardinality(Writing) < N)
    BY DEF SurvivesStops
  <2>1. IsFiniteSet(Files) /\ Cardinality(Files) = N
    BY BackupAssumption, FS_Interval DEF Files
  <2>2. IsFiniteSet(Writing) /\ Writing \subseteq Files
    BY WritingFinite DEF Writing, IInv, TypeOK
  <2>3. Cardinality(Files \ Writing) <= hits /\ hits \in Nat
    BY DEF IInv, FewDamaged, TypeOK
  <2>4. /\ IsFiniteSet(Files \ Writing) /\ Files = (Files \ Writing) \cup Writing
        /\ (Files \ Writing) \cap Writing = {}
    BY <2>1, <2>2, FS_Subset
  <2>5. Cardinality(Files) = Cardinality(Files \ Writing) + Cardinality(Writing)
    <3>1. Cardinality((Files \ Writing) \cap Writing) = 0 BY <2>4, FS_EmptySet
    <3>2. Cardinality((Files \ Writing) \cup Writing)
            = Cardinality(Files \ Writing) + Cardinality(Writing)
              - Cardinality((Files \ Writing) \cap Writing)
      BY <2>2, <2>4, FS_Union
    <3>3. Cardinality(Files \ Writing) \in Nat /\ Cardinality(Writing) \in Nat
      BY <2>2, <2>4, FS_CardinalityType
    <3> QED BY <2>4, <3>1, <3>2, <3>3
  <2>6. Cardinality(Files \ Writing) \in Nat /\ Cardinality(Writing) \in Nat
    BY <2>2, <2>4, FS_CardinalityType
  <2> QED BY <2>1, <2>3, <2>5, <2>6, BackupAssumption
<1> QED BY Invariance, <1>1, PTL

-----------------------------------------------------------------------------
(* What is shorter than an image stands behind no MD5. *)
LEMMA ShortHasNoSum ==
    ASSUME TypeOK, WholeSums, NEW f \in Files, NEW q \in Seq(Values), Len(q) # W
    PROVE  q # sum[f] /\ q # dsum[f]
BY NoSumIsNoImage DEF TypeOK, WholeSums

KeptIn(f) == {dat[f]} \cap {sum[f]}

(* Work on one file changes the images of that file only: at most one of     *)
(* those that can be restored is lost.                                       *)
LEMMA OneFileChanges ==
    ASSUME NEW g \in Files, NEW more,
           \A f \in Files : f # g => /\ dat'[f] = dat[f] /\ sum'[f] = sum[f]
                                    /\ ddat'[f] = ddat[f] /\ dsum'[f] = dsum[f],
           KeptIn(g)' \subseteq KeptIn(g) \cup more,
           FoundIn(g)' \subseteq FoundIn(g) \cup more,
           NEW lost, FoundIn(g) \ FoundIn(g)' \subseteq {lost}
    PROVE  Store!Change(more)
<1>1. \A d : d \in kept <=> \E f \in Files : d \in KeptIn(f)
  BY DEF kept, KeptIn, Valid
<1>1a. \A d : d \in kept' <=> \E f \in Files : d \in KeptIn(f)'
  BY DEF kept, KeptIn, Valid
<1>2. \A d : d \in found <=> \E f \in Files : d \in FoundIn(f)
  BY DEF found
<1>2a. \A d : d \in found' <=> \E f \in Files : d \in FoundIn(f)'
  BY DEF found
<1>3. \A f \in Files : f # g => KeptIn(f)' = KeptIn(f) /\ FoundIn(f)' = FoundIn(f)
  BY DEF KeptIn, FoundIn
<1>4. kept' \subseteq kept \cup more /\ found' \subseteq found \cup more
  BY <1>1, <1>1a, <1>2, <1>2a, <1>3
<1>5. kept \ kept' \subseteq KeptIn(g) /\ found \ found' \subseteq FoundIn(g) \ FoundIn(g)'
  BY <1>1, <1>1a, <1>2, <1>2a, <1>3
<1>6. KeptIn(g) \subseteq {dat[g]} BY DEF KeptIn
<1>7. Store!OneLost(kept, kept') /\ Store!OneLost(found, found')
  BY <1>5, <1>6 DEF Store!OneLost
<1> QED BY <1>4, <1>7 DEF Store!Change

(* Every step of the files is a step of the store, or none. *)
LEMMA StepRefines ==
    ASSUME IInv, IInv', [Next]_vars, ~DiskFull
    PROVE  [Store!Next]_(Store!vars)
<1> USE BackupAssumption
<1> DEFINE abstract == IF Up THEN memory ELSE <<>>
<1>1. IInv => TypeOK /\ WholeSums /\ FromMemory /\ BootMemory BY DEF IInv
<1>2. kept = {dat[f] : f \in {g \in Files : Valid(g)}} BY DEF kept
<1>3. <<>> \notin Images
  BY DEF Images, Words
<1>a. ASSUME Up, Up', memory' = memory, seen' = seen, NEW image \in Images,
             \A w \in Words : image[w] \in seen[w], Store!Change({image})
      PROVE  [Store!Next]_(Store!vars)
  <2>1. Store!Save
    BY <1>1, <1>a DEF Store!Save, Up, TypeOK, Store!Images, Images, Store!Words, Words
  <2> QED BY <2>1 DEF Store!Next
<1>b. Up => memory \in Images /\ \A w \in Words : memory[w] \in seen[w]
  BY <1>1 DEF TypeOK, FromMemory
<1>c. \A f \in Files : dat[f] \in Seq(Values) /\ ddat[f] \in Seq(Values)
  BY <1>1 DEF TypeOK
<1>4. CASE OpenFile
  <2>0. PICK g \in Files : g = file BY <1>1, <1>4 DEF OpenFile, TypeOK
  <2>1. Up /\ Up' /\ memory' = memory /\ dat'[g] = <<>>
        /\ UNCHANGED <<sum, disk>>
    BY <2>0, <1>1, <1>4 DEF OpenFile, Up, TypeOK
  <2>2. \A f \in Files : f # g => /\ dat'[f] = dat[f] /\ sum'[f] = sum[f]
                                    /\ ddat'[f] = ddat[f] /\ dsum'[f] = dsum[f]
    BY <2>0, <1>1, <1>4 DEF OpenFile, TypeOK, disk
  <2>3. <<>> # sum[g] /\ <<>> # dsum[g]
    <3>1. <<>> \in Seq(Values) /\ Len(<<>>) # W OBVIOUS
    <3> QED BY <2>0, <1>1, <2>1, <3>1, ShortHasNoSum
  <2>4. KeptIn(g)' \subseteq KeptIn(g) \cup {} BY <2>0, <2>1, <2>3 DEF KeptIn, disk
  <2>5. FoundIn(g)' \subseteq FoundIn(g) \cup {} BY <2>0, <2>1, <2>3 DEF FoundIn, disk
  <2>6. FoundIn(g) \ FoundIn(g)' \subseteq {dat[g]} BY <2>0, <2>1 DEF FoundIn, disk
  <2>7. Store!Change({}) BY <2>0, <2>1, <2>2, <2>4, <2>5, <2>6, OneFileChanges DEF disk
  <2>8. Store!Begin
    BY <2>0, <1>1, <1>4, <2>1, <2>7 DEF Store!Begin, OpenFile, Up, TypeOK, Store!Images,
       Images, Store!Words, Words
  <2> QED BY <2>0, <2>8 DEF Store!Next
<1>5. CASE CopyWord
  <2>0. PICK g \in Files : g = file BY <1>1, <1>5 DEF CopyWord, TypeOK
  <2>1. /\ Up /\ Up' /\ memory' = memory /\ seen' = seen
        /\ Len(dat[g]) # W /\ UNCHANGED <<file, sum, disk>> /\ pc' = "copy"
    BY <2>0, <1>1, <1>5 DEF CopyWord, Up, TypeOK
  <2>2. \A f \in Files : f # g => /\ dat'[f] = dat[f] /\ sum'[f] = sum[f]
                                    /\ ddat'[f] = ddat[f] /\ dsum'[f] = dsum[f]
    BY <2>0, <1>1, <1>5 DEF CopyWord, TypeOK, disk
  <2>3. dat[g] # sum[g] /\ dat[g] # dsum[g]
    BY <2>0, <1>1, <1>c, <2>1, ShortHasNoSum
  <2>4. FoundIn(g) \ FoundIn(g)' \subseteq {dat[g]} BY <2>0, <2>1, <2>3 DEF FoundIn, disk
  <2>5. dat'[g] \in Seq(Values) /\ TypeOK' /\ WholeSums' /\ FromMemory'
    BY <2>0, <2>1 DEF IInv, TypeOK
  <2>6. CASE Len(dat'[g]) = W
    <3>1. dat'[g] \in Images BY <2>0, <2>5, <2>6 DEF Images, Words
    <3>2. \A w \in Words : dat'[g][w] \in seen[w]
      BY <2>0, <2>1, <2>5, <2>6 DEF FromMemory, Words
    <3>3. /\ KeptIn(g)' \subseteq KeptIn(g) \cup {dat'[g]}
          /\ FoundIn(g)' \subseteq FoundIn(g) \cup {dat'[g]}
      BY <2>0, <2>1 DEF KeptIn, FoundIn, disk
    <3>4. Store!Change({dat'[g]}) BY <2>0, <2>1, <2>2, <2>4, <3>3, OneFileChanges DEF disk
    <3> QED BY <2>0, <1>a, <2>1, <3>1, <3>2, <3>4
  <2>7. CASE Len(dat'[g]) # W
    <3>1. dat'[g] # sum[g] /\ dat'[g] # dsum[g]
      BY <2>0, <1>1, <2>1, <2>5, <2>7, ShortHasNoSum
    <3>2. /\ KeptIn(g)' \subseteq KeptIn(g) \cup {memory}
          /\ FoundIn(g)' \subseteq FoundIn(g) \cup {memory}
      BY <2>0, <2>1, <3>1 DEF KeptIn, FoundIn, disk
    <3>3. Store!Change({memory}) BY <2>0, <2>1, <2>2, <2>4, <3>2, OneFileChanges DEF disk
    <3> QED BY <2>0, <1>a, <1>b, <2>1, <3>3
  <2> QED BY <2>0, <2>6, <2>7
<1>6. CASE CloseFile
  BY <1>6 DEF CloseFile, Up, Store!vars, files, disk, kept, found, FoundIn, Valid
<1>7. CASE OpenSum
  <2>0. PICK g \in Files : g = file BY <1>1, <1>7 DEF OpenSum, TypeOK
  <2>1. /\ Up /\ Up' /\ memory' = memory /\ seen' = seen
        /\ sum'[g] = NoSum /\ UNCHANGED <<dat, disk>>
    BY <2>0, <1>1, <1>7 DEF OpenSum, Up, TypeOK
  <2>2. \A f \in Files : f # g => /\ dat'[f] = dat[f] /\ sum'[f] = sum[f]
                                    /\ ddat'[f] = ddat[f] /\ dsum'[f] = dsum[f]
    BY <2>0, <1>1, <1>7 DEF OpenSum, TypeOK, disk
  <2>3. dat[g] # NoSum /\ ddat[g] # NoSum BY <2>0, <1>c, <2>1, NoSumIsNoImage
  <2>4. /\ KeptIn(g)' \subseteq KeptIn(g) \cup {memory}
        /\ FoundIn(g)' \subseteq FoundIn(g) \cup {memory}
        /\ FoundIn(g) \ FoundIn(g)' \subseteq {sum[g]}
    BY <2>0, <2>1, <2>3 DEF KeptIn, FoundIn, disk
  <2>5. Store!Change({memory}) BY <2>0, <2>1, <2>2, <2>4, OneFileChanges DEF disk
  <2> QED BY <2>0, <1>a, <1>b, <2>1, <2>5
<1>8. CASE WriteSum
  <2>0. PICK g \in Files : g = file BY <1>1, <1>8 DEF WriteSum, TypeOK
  <2>1. /\ Up /\ Up' /\ memory' = memory /\ seen' = seen
        /\ pc = "write" /\ sum'[g] = dat[g] /\ UNCHANGED <<dat, disk>>
    BY <2>0, <1>1, <1>8 DEF WriteSum, Up, TypeOK
  <2>2. \A f \in Files : f # g => /\ dat'[f] = dat[f] /\ sum'[f] = sum[f]
                                    /\ ddat'[f] = ddat[f] /\ dsum'[f] = dsum[f]
    BY <2>0, <1>1, <1>8 DEF WriteSum, TypeOK, disk
  <2>3. dat[g] \in Images /\ \A w \in Words : dat[g][w] \in seen[w]
    BY <2>0, <1>1, <2>1 DEF TypeOK, WholeSums, FromMemory, Written, Images, Words
  <2>4. /\ KeptIn(g)' \subseteq KeptIn(g) \cup {dat[g]}
        /\ FoundIn(g)' \subseteq FoundIn(g) \cup {dat[g]}
        /\ FoundIn(g) \ FoundIn(g)' \subseteq {sum[g]}
    BY <2>0, <2>1 DEF KeptIn, FoundIn, disk
  <2>5. Store!Change({dat[g]}) BY <2>0, <2>1, <2>2, <2>4, OneFileChanges DEF disk
  <2> QED BY <2>0, <1>a, <2>1, <2>3, <2>5
<1>9. CASE TakeFile
  <2>1. /\ ~Up /\ file \in Files /\ Valid(file) /\ kept' = kept /\ found' = found
        /\ memory' = dat[file]
    BY <1>1, <1>9, LoadedWhole DEF TakeFile, Up, Agrees, kept, found, FoundIn, Valid, files, disk
  <2>2. memory' \in Images /\ memory' \in kept
    BY <1>1, <2>1, ValidIsImage DEF kept
  <2>3. CASE Restored(memory')
    <3>1. Up' /\ seen' = [w \in Words |-> {memory'[w]}]
      BY <1>9, <2>3 DEF TakeFile, Started, Up
    <3>2. Store!Start
      BY <2>1, <2>2, <3>1 DEF Store!Start, Up, Store!Nothing, Store!Images, Images,
         Store!Words, Words
    <3> QED BY <3>2 DEF Store!Next
  <2>4. CASE ~Restored(memory')
    BY <1>9, <2>1, <2>4 DEF TakeFile, Store!vars, Up
  <2> QED BY <2>3, <2>4
<1>10. CASE RejectFile
  BY <1>10 DEF RejectFile, Store!vars, files, disk, kept, found, FoundIn, Valid
<1>11. CASE StartAnyway
  <2>1. /\ ~Up /\ Up' /\ file = N + 1 /\ memory' = memory /\ kept' = kept /\ found' = found
        /\ seen' = [w \in Words |-> {memory[w]}] /\ memory \in Images
    BY <1>1, <1>11 DEF StartAnyway, Started, Up, TypeOK, kept, found, FoundIn, Valid, files, disk
  <2>2. kept # {} => memory \in kept
    BY <1>1, <2>1 DEF BootMemory, kept, Files
  <2>3. Store!Start
    BY <2>1, <2>2 DEF Store!Start, Up, Store!Nothing, Store!Images, Images,
       Store!Words, Words
  <2> QED BY <2>3 DEF Store!Next
<1>12. CASE Update
  <2>1. Up /\ Up' /\ kept' = kept /\ found' = found /\ memory \in Images
    BY <1>1, <1>12 DEF Update, Up, TypeOK, kept, found, FoundIn, Valid, files, disk
  <2>2. Store!Update
    BY <1>12, <2>1 DEF Update, Store!Update, Up, Store!Images, Images, Store!Words, Words
  <2> QED BY <2>2 DEF Store!Next
<1>13. ASSUME NEW f \in Files, UNCHANGED <<memory, files, pc, seen>>,
              \A g \in Files : g # f => ddat'[g] = ddat[g] /\ dsum'[g] = dsum[g],
              FoundIn(f)' \subseteq FoundIn(f),
              NEW lost, FoundIn(f) \ FoundIn(f)' \subseteq {lost}
       PROVE  [Store!Next]_(Store!vars)
  <2>1. Store!Change({})
    <3>1. KeptIn(f)' \subseteq KeptIn(f) \cup {} /\ FoundIn(f)' \subseteq FoundIn(f) \cup {}
      BY <1>13 DEF KeptIn, files
    <3> QED BY <1>13, <3>1, OneFileChanges DEF files
  <2>2. kept' = kept BY <1>13 DEF kept, Valid, files
  <2>3. Store!Flush BY <1>13, <2>1, <2>2 DEF Store!Flush, Store!Change, Up
  <2> QED BY <2>3 DEF Store!Next
<1>14. CASE FlushData
  <2>1. PICK f \in Files : ddat' = [ddat EXCEPT ![f] = dat[f]] BY <1>14 DEF FlushData
  <2>2. UNCHANGED <<memory, files, dsum, pc, seen>> BY <1>14 DEF FlushData
  <2>3. ddat'[f] = dat[f] /\ \A g \in Files : g # f => ddat'[g] = ddat[g]
    BY <1>1, <2>1 DEF TypeOK
  <2>4. /\ FoundIn(f)' \subseteq FoundIn(f)
        /\ FoundIn(f) \ FoundIn(f)' \subseteq {ddat[f]}
    BY <2>2, <2>3 DEF FoundIn, files
  <2> QED BY <1>13, <2>2, <2>3, <2>4
<1>15. CASE FlushSum
  <2>1. PICK f \in Files : dsum' = [dsum EXCEPT ![f] = sum[f]] BY <1>15 DEF FlushSum
  <2>2. UNCHANGED <<memory, files, ddat, pc, seen>> BY <1>15 DEF FlushSum
  <2>3. dsum'[f] = sum[f] /\ \A g \in Files : g # f => dsum'[g] = dsum[g]
    BY <1>1, <2>1 DEF TypeOK
  <2>4. /\ FoundIn(f)' \subseteq FoundIn(f)
        /\ FoundIn(f) \ FoundIn(f)' \subseteq {dsum[f]}
    BY <2>2, <2>3 DEF FoundIn, files
  <2> QED BY <1>13, <2>2, <2>3, <2>4
<1>16. CASE Stop
  <2>1. ~Up' /\ kept' = kept /\ found' = found /\ seen' = seen
    BY <1>16 DEF Stop, Up, kept, found, FoundIn, Valid, files, disk
  <2>2. Store!Stop BY <2>1 DEF Store!Stop, Store!Nothing, Up
  <2> QED BY <2>2 DEF Store!Next
<1>17. CASE PowerCut
  <2>1. ~Up' /\ seen' = seen /\ dat' = ddat /\ sum' = dsum /\ UNCHANGED disk
    BY <1>17 DEF PowerCut, Up
  <2>a. \A d : d \in kept' <=> \E f \in Files : d = ddat[f] /\ d = dsum[f]
    BY <2>1 DEF kept, Valid
  <2>b. \A f \in Files : ddat[f] = dsum[f] => ddat[f] \in FoundIn(f) BY DEF FoundIn
  <2>2. kept' \subseteq found BY <2>a, <2>b DEF found
  <2>e. ASSUME NEW d PROVE d \in found' <=> \E f \in Files : d = ddat[f] /\ d = dsum[f]
    <3>1. d \in found' <=> \E f \in Files : d \in FoundIn(f)' BY DEF found
    <3>2. \A f \in Files : d \in FoundIn(f)' <=> d = ddat[f] /\ d = dsum[f]
      BY <2>1 DEF FoundIn, disk
    <3>3. (\E f \in Files : d \in FoundIn(f)') <=> \E f \in Files : d = ddat[f] /\ d = dsum[f]
      BY <3>2
    <3> QED BY <3>1, <3>3
  <2>f. \A d : d \in found' <=> d \in kept' BY <2>a, <2>e
  <2>3. found' = kept' BY <2>f
  <2>4. Store!PowerCut BY <2>1, <2>2, <2>3 DEF Store!PowerCut, Store!Nothing, Up
  <2> QED BY <2>4 DEF Store!Next
<1>18. CASE UNCHANGED vars
  BY <1>18 DEF vars, Up, Store!vars, files, disk, kept, found, FoundIn, Valid
<1> QED BY <1>4, <1>5, <1>6, <1>7, <1>8, <1>9, <1>10, <1>11, <1>12, <1>14, <1>15,
           <1>16, <1>17, <1>18 DEF Next

(* The backup files implement the store: a restart continues from an image  *)
(* that was saved, each of whose words the memory held while it was taken.  *)
THEOREM FilesImplementStore == ASSUME ~DiskFull PROVE Spec => StoreSpec
<1>1. Init => Store!Init
  <2> SUFFICES ASSUME Init PROVE Store!Init
    OBVIOUS
  <2>1. \A f \in Files : Valid(f) /\ dat[f] = memory BY DEF Init, Valid
  <2>2. kept = {memory} BY <2>1, BackupAssumption DEF kept, Files
  <2>3. \A f \in Files : FoundIn(f) = {memory} BY DEF Init, FoundIn
  <2>4. found = {memory} BY <2>3, BackupAssumption DEF found, Files
  <2> QED BY <2>2, <2>4 DEF Init, Store!Init, Store!Images, Images, Store!Words, Words
<1>2. IInv /\ IInv' /\ [Next]_vars => [Store!Next]_(Store!vars)
  BY StepRefines
<1> QED BY <1>1, <1>2, Invariance, PTL DEF Spec, StoreSpec, Store!Spec

=============================================================================
