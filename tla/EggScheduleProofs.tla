-------------------------- MODULE EggScheduleProofs --------------------------
(***************************************************************************)
(* Two components of the main loop that need few lemmas.                    *)
(*                                                                         *)
(* The egg turner (EggTurn): its words keep their ranges, a turn is counted  *)
(* at most once and the tray is driven one way.                             *)
(*                                                                         *)
(* The schedules (Schedule, here S): a set value is that of the entry in *)
(* force where the day looked up before that entry has come, for every      *)
(* number of entries, every table and however the display writes into it.   *)
(***************************************************************************)
EXTENDS EggTurn, TLAPS

CONSTANTS Entries, DayTables, ValTables, Presets, MaxHours

VARIABLES schedPc, mode, hours, now, day, val, pre, set, calm, edits

(* Both modules call their step "pc" and bound the display by MaxEdits. *)
S == INSTANCE Schedule WITH pc <- schedPc

-----------------------------------------------------------------------------
(* The egg turner. *)

(* A turn that may be counted was started since the last count. *)
FreshBeforeCount == trigger => fresh

(* Between the writes of the two relays the first one has the direction that *)
(* was read; else at most one of them is ON.                                 *)
RelaysApart ==
    /\ pc = "driven" => left = seen
    /\ pc # "driven" => ~(left /\ right)

EggInv == TypeOK /\ FreshBeforeCount /\ CountsTurns /\ RelaysApart

-----------------------------------------------------------------------------
(* The initial words have their types, and nothing is driven or counted.     *)
LEMMA EggInitially == Init => EggInv
  <1> SUFFICES ASSUME Init PROVE EggInv
    OBVIOUS
  <1>1. 0 \in 0 .. Unset /\ Unset \in 0 .. Unset /\ 0 \in Nat /\ Periods \subseteq Nat
    BY EggAssumption DEF Unset
  <1>2. TypeOK
    BY <1>1 DEF Init, TypeOK
  <1>3. FreshBeforeCount /\ CountsTurns /\ RelaysApart
    BY DEF Init, FreshBeforeCount, CountsTurns, RelaysApart
  <1> QED BY <1>2, <1>3 DEF EggInv

(* A started turn has a period, a direction and may be counted.              *)
LEMMA StartedTurn ==
    ASSUME TypeOK, NEW from \in BOOLEAN, StartTurn(from)
    PROVE  exec' \in BOOLEAN /\ dir' \in BOOLEAN /\ time' \in Nat
           /\ trigger' = TRUE /\ fresh' = TRUE
  BY EggAssumption DEF TypeOK, StartTurn

(* Every step keeps the types. *)
LEMMA EggTypeInvariance == ASSUME TypeOK, [Next]_vars PROVE TypeOK'
  <1> USE DEF TypeOK
  <1>0. /\ Interval \in Nat /\ Unset \in Nat /\ Unset = Interval + 2
        /\ Unset \in 0 .. Unset /\ 0 \in 0 .. Unset
    BY EggAssumption DEF Unset
  <1>1. CASE Look
    BY <1>1 DEF Look, turn, tally
  <1>2. CASE Start
    <2>1. StartTurn(seen) /\ seen \in BOOLEAN
      BY <1>2 DEF Start
    <2> QED BY <1>2, <2>1, StartedTurn DEF Start
  <1>3. CASE Drive
    <2>1. Elapsed \in 0 .. Unset
      BY <1>0 DEF Elapsed
    <2> QED BY <1>3, <2>1 DEF Drive, turn, tally
  <1>4. CASE Driven
    BY <1>4 DEF Driven, turn, tally
  <1>5. CASE TimeOver
    BY <1>0, <1>5 DEF TimeOver, turn, tally
  <1>6. CASE End
    BY <1>6 DEF End, tally
  <1>7. CASE NoTurn
    BY <1>0, <1>7 DEF NoTurn, turn, tally
  <1>8. CASE Count
    BY <1>8 DEF Count, Armed, turn
  <1>9. CASE Add
    BY <1>9 DEF Add, turn
  <1>10. CASE Tick
    <2>1. time' \in Nat
      BY <1>10 DEF Tick, Less
    <2>2. clock' \in 0 .. Unset
      BY <1>0, <1>10 DEF Tick
    <2> QED BY <1>10, <2>1, <2>2 DEF Tick, tally
  <1>11. CASE TestStart
    <2>1. StartTurn(dir) /\ dir \in BOOLEAN
      BY <1>11 DEF TestStart
    <2> QED BY <1>11, <2>1, StartedTurn DEF TestStart, thread
  <1>12. CASE TestEnd
    BY <1>12 DEF TestEnd, thread, tally
  <1>13. CASE Abort
    BY <1>13 DEF Abort, thread, tally
  <1>14. CASE Edit
    BY <1>14, EggAssumption DEF Edit, thread, tally
  <1>15. CASE Detector
    BY <1>15 DEF Detector, thread, turn, tally
  <1>16. CASE Restart
    <2>1. /\ pc' = "top" /\ clock' = Unset /\ testing' = FALSE /\ detect' = FALSE
          /\ left' = FALSE /\ right' = FALSE /\ seen' = FALSE
          /\ exec' \in BOOLEAN /\ dir' \in BOOLEAN
      BY <1>16 DEF Restart
    <2>2. period' \in Periods /\ time' \in Nat
      BY <1>16, EggAssumption DEF Restart
    <2>3. trigger' \in BOOLEAN /\ armed' \in BOOLEAN /\ fresh' \in BOOLEAN
      BY <1>16 DEF Restart
    <2> QED BY <1>0, <2>1, <2>2, <2>3
  <1>17. CASE UNCHANGED vars
    BY <1>17 DEF vars, thread, turn, tally
  <1> QED BY <1>1, <1>2, <1>3, <1>4, <1>5, <1>6, <1>7, <1>8, <1>9, <1>10, <1>11,
             <1>12, <1>13, <1>14, <1>15, <1>16, <1>17 DEF Next, Thread

(* Every step keeps the count behind the starts: only the count itself takes *)
(* "fresh" back, and with it the trigger.                                    *)
LEMMA CountInvariance ==
    ASSUME FreshBeforeCount, CountsTurns, [Next]_vars
    PROVE  FreshBeforeCount' /\ CountsTurns'
  <1> USE DEF FreshBeforeCount, CountsTurns
  <1>1. CASE Thread
    BY <1>1 DEF Thread, Look, Start, StartTurn, Drive, Driven, TimeOver, End, NoTurn,
                Count, Add, tally
  <1>2. CASE Tick \/ TestStart \/ TestEnd \/ Abort \/ Edit \/ Detector
    BY <1>2 DEF Tick, TestStart, StartTurn, TestEnd, Abort, Edit, Detector,
                thread, tally
  <1>3. CASE Restart
    <2>1. pc' = "top" /\ trigger' \in BOOLEAN /\ fresh' = trigger'
      BY <1>3 DEF Restart
    <2> QED BY <2>1
  <1>4. CASE UNCHANGED vars
    BY <1>4 DEF vars, thread, tally
  <1> QED BY <1>1, <1>2, <1>3, <1>4 DEF Next

(* Every step keeps the relays apart: the second is written with what the    *)
(* first was written with, whatever the direction has become in between.     *)
LEMMA RelayInvariance ==
    ASSUME TypeOK, RelaysApart, [Next]_vars PROVE RelaysApart'
  <1> USE DEF TypeOK, RelaysApart
  <1>1. CASE Drive
    BY <1>1 DEF Drive
  <1>2. CASE Driven
    <2>1. left' = left /\ left = seen /\ right' = ~seen /\ pc' = "count"
      BY <1>2 DEF Driven
    <2>2. seen = TRUE \/ seen = FALSE
      OBVIOUS
    <2> HIDE DEF TypeOK
    <2> QED BY <2>1, <2>2
  <1>3. CASE TimeOver \/ NoTurn \/ Restart
    BY <1>3 DEF TimeOver, NoTurn, Restart
  <1>4. CASE Look \/ Start \/ End \/ Count \/ Add
    BY <1>4 DEF Look, Start, End, Count, Add
  <1>5. CASE Tick \/ TestStart \/ TestEnd \/ Abort \/ Edit \/ Detector
    BY <1>5 DEF Tick, TestStart, TestEnd, Abort, Edit, Detector, thread
  <1>6. CASE UNCHANGED vars
    BY <1>6 DEF vars, thread
  <1> QED BY <1>1, <1>2, <1>3, <1>4, <1>5, <1>6 DEF Next, Thread

(* The invariant of the egg turner. *)
LEMMA EggInvariance == EggInv /\ [Next]_vars => EggInv'
  BY EggTypeInvariance, CountInvariance, RelayInvariance DEF EggInv

(* The words of the egg turner keep their ranges, the countdown above 0      *)
(* (timer_callback_func 7542): whatever is pressed, edited or restarted.     *)
THEOREM EggTypeCorrect == Spec => []TypeOK
  <1>1. EggInv => TypeOK
    BY DEF EggInv
  <1> QED BY <1>1, EggInitially, EggInvariance, PTL DEF Spec

(* flip_egg_func 9103-9128 counts a turn at most once, however often the     *)
(* detector changes and whatever starts, breaks off or loses a turn.         *)
THEOREM TurnsCountOnce == Spec => []CountsTurns
  <1>1. EggInv => CountsTurns
    BY DEF EggInv
  <1> QED BY <1>1, EggInitially, EggInvariance, PTL DEF Spec

(* Both relays are ON only between the two writes of one pass (9053-9067),   *)
(* after the direction of a turn was changed under way.                      *)
THEOREM TrayOneWay == Spec => []DrivenOneWay
  <1>1. EggInv => DrivenOneWay
    BY DEF EggInv, RelaysApart, DrivenOneWay
  <1> QED BY <1>1, EggInitially, EggInvariance, PTL DEF Spec

-----------------------------------------------------------------------------
(* The schedules. *)

(* Where a step of the pass is taken, its mode is known. *)
ModeOfPass ==
    /\ schedPc \in S!Kinds \cup {"first"} => mode = "run"
    /\ schedPc \in {"zero", "preset"} => mode = "preheat"

-----------------------------------------------------------------------------
(* The word of an hour is a number. *)
LEMMA DayWordNat ==
    ASSUME NEW h \in Nat PROVE S!DayWord(h) \in Nat
  <1>1. h \div 24 \in Nat /\ h % 24 \in Nat
    OBVIOUS
  <1> QED BY <1>1 DEF S!DayWord

(* A set value computed from numbers is a number. *)
LEMMA AbsoluteInt ==
    ASSUME NEW k, NEW m \in Int, NEW v \in Int PROVE S!Absolute(k, m, v) \in Int
  BY DEF S!Absolute

(* The day before the entry in force has come, in a table of its own and in  *)
(* one with the days of the temperature.                                      *)
LEMMA PredecessorHasCome ==
    ASSUME S!SchedulesAreTables, S!TypeOK, NEW k \in S!Kinds,
           S!HeadOf(k) = k \/ day[k] = day["main"], S!InOrder(k)
    PROVE  S!HeadHasCome(k)
  <1> USE DEF S!SchedulesAreTables, S!TypeOK
  <1> SUFFICES ASSUME NEW i \in S!Index, S!InForce(k, i) PROVE S!Head(k, i) <= now
    BY DEF S!HeadHasCome
  <1>1. i \in 0 .. Entries - 1 /\ Entries \in Nat /\ now \in Nat
    BY DEF S!Index
  <1>2. \A j \in S!Index : day[k][j] \in Nat
    OBVIOUS
  <1>3. CASE i = 0
    BY <1>3, <1>1 DEF S!Head
  <1>4. CASE i # 0
    <2>1. i - 1 \in S!Index /\ i - 1 < i
      BY <1>4, <1>1 DEF S!Index
    <2>2. day[k][i - 1] <= day[k][i] /\ day[k][i] <= now
      BY <2>1 DEF S!InOrder, S!InForce
    <2>3. S!Head(k, i) = day[k][i - 1]
      BY <1>4 DEF S!Head, S!HeadOf
    <2> QED BY <2>1, <2>2, <2>3, <1>1, <1>2
  <1> QED BY <1>3, <1>4

(* The entry in force matches: the day looked up has come, its successor's   *)
(* has not or is empty.                                                      *)
LEMMA ForceMatches ==
    ASSUME S!SchedulesAreTables, S!TypeOK, NEW k \in S!Kinds, S!HeadHasCome(k),
           S!InOrder(k), NEW i \in S!Index, S!InForce(k, i)
    PROVE  S!Matches(k, i)
  <1> USE DEF S!SchedulesAreTables, S!TypeOK
  <1>1. i \in 0 .. Entries - 1 /\ Entries \in Nat /\ now \in Nat
    BY DEF S!Index
  <1>2. \A j \in S!Index : day[k][j] \in Nat
    OBVIOUS
  <1>3. now >= day[k][i]
    BY <1>1, <1>2 DEF S!InForce
  <1>4. now >= S!Head(k, i)
    <2>1. S!Head(k, i) \in Nat
      <3>1. CASE i = 0
        BY <3>1 DEF S!Head
      <3>2. CASE i # 0
        <4>1. i - 1 \in S!Index /\ S!HeadOf(k) \in S!Kinds
          BY <3>2, <1>1 DEF S!Index, S!HeadOf, S!Kinds
        <4> QED BY <3>2, <4>1 DEF S!Head
      <3> QED BY <3>1, <3>2
    <2>2. S!Head(k, i) <= now
      BY DEF S!HeadHasCome
    <2> QED BY <2>1, <2>2, <1>1
  <1>5. ASSUME i < S!Last PROVE now < day[k][i + 1] \/ day[k][i + 1] = 0
    <2>1. i + 1 \in S!Index /\ i + 1 > i
      BY <1>5, <1>1 DEF S!Index, S!Last
    <2>2. CASE day[k][i + 1] > 0
      <3>1. S!Used(k, i + 1)
        <4> SUFFICES ASSUME NEW j \in 1 .. i + 1 PROVE day[k][j] > 0
          BY DEF S!Used
        <4>1. CASE j = i + 1
          BY <4>1, <2>2
        <4>2. CASE j # i + 1
          <5>1. j \in 1 .. i
            BY <4>2, <1>1
          <5> QED BY <5>1 DEF S!InForce, S!Used
        <4> QED BY <4>1, <4>2
      <3>2. day[k][i + 1] > now
        BY <2>1, <3>1 DEF S!InForce
      <3> QED BY <3>2, <2>1, <1>1, <1>2
    <2>3. CASE ~(day[k][i + 1] > 0)
      BY <2>3, <2>1, <1>2
    <2> QED BY <2>2, <2>3
  <1>6. now >= day[k][0]
    <2>1. 0 \in S!Index
      BY <1>1 DEF S!Index
    <2> QED BY <2>1, <1>1, <1>2 DEF S!InOrder
  <1> QED BY <1>3, <1>4, <1>5, <1>6 DEF S!Matches

(* No earlier entry matches: its successor is in use and has come. *)
LEMMA EarlierDoNot ==
    ASSUME S!SchedulesAreTables, S!TypeOK, NEW k \in S!Kinds,
           S!InOrder(k), NEW i \in S!Index, S!InForce(k, i), NEW j \in 0 .. i - 1
    PROVE  ~S!Matches(k, j)
  <1> USE DEF S!SchedulesAreTables, S!TypeOK
  <1>1. i \in 0 .. Entries - 1 /\ Entries \in Nat /\ now \in Nat
    BY DEF S!Index
  <1>2. \A m \in S!Index : day[k][m] \in Nat
    OBVIOUS
  <1>3. j + 1 \in S!Index /\ j < S!Last /\ j + 1 \in 1 .. i
    BY <1>1 DEF S!Index, S!Last
  <1>4. day[k][j + 1] > 0
    BY <1>3 DEF S!InForce, S!Used
  <1>5. day[k][j + 1] <= now
    <2>1. CASE j + 1 = i
      BY <2>1 DEF S!InForce
    <2>2. CASE j + 1 # i
      <3>1. j + 1 < i
        BY <2>2, <1>1, <1>3
      <3>2. day[k][j + 1] <= day[k][i] /\ day[k][i] <= now
        BY <3>1, <1>3 DEF S!InOrder, S!InForce
      <3> QED BY <3>2, <1>1, <1>2, <1>3
    <2> QED BY <2>1, <2>2
  <1>6. day[k][j + 1] \in Nat
    BY <1>2, <1>3
  <1> QED BY <1>1, <1>3, <1>4, <1>5, <1>6 DEF S!Matches

(* What a pass selects is the entry in force, if its day before has come.    *)
LEMMA SelectsInForce ==
    ASSUME S!SchedulesAreTables, S!TypeOK, NEW k \in S!Kinds, S!HeadHasCome(k),
           S!InOrder(k), NEW i \in S!Index, S!InForce(k, i),
           NEW j \in S!Index, S!Selected(k, j)
    PROVE  i = j
  <1>1. i \in Int /\ j \in Int /\ i >= 0 /\ j >= 0
    BY DEF S!Index
  <1>2. ~(i < j)
    <2>1. S!Matches(k, i)
      BY ForceMatches
    <2>2. SUFFICES ASSUME i < j PROVE FALSE
      OBVIOUS
    <2>3. i \in 0 .. j - 1
      BY <2>2, <1>1
    <2> QED BY <2>1, <2>3 DEF S!Selected
  <1>3. ~(j < i)
    <2>1. SUFFICES ASSUME j < i PROVE FALSE
      OBVIOUS
    <2>2. j \in 0 .. i - 1
      BY <2>1, <1>1
    <2>3. ~S!Matches(k, j)
      BY <2>2, EarlierDoNot
    <2> QED BY <2>3 DEF S!Selected
  <1> QED BY <1>1, <1>2, <1>3

-----------------------------------------------------------------------------
(* Every step keeps the types. *)
LEMMA SchedulesTypeInvariance ==
    ASSUME S!SchedulesAreTables, S!TypeOK, [S!Next]_S!vars PROVE S!TypeOK'
  <1> USE DEF S!SchedulesAreTables, S!TypeOK, S!tables
  <1>0. 0 \in S!Index
    BY DEF S!Index
  <1>1. CASE S!Clock
    <2>1. now' \in Nat
      BY <1>1, DayWordNat DEF S!Clock
    <2> QED BY <1>1, <2>1 DEF S!Clock
  <1>2. CASE S!First
    <2>1. \A k \in S!Kinds : S!Absolute(k, val["main"][0], val[k][0]) \in Int
      BY <1>0, AbsoluteInt DEF S!Kinds
    <2>2. set' \in [S!Kinds -> Int] /\ schedPc' \in S!Kinds
      BY <1>2, <2>1 DEF S!First, S!Kinds
    <2> QED BY <1>2, <2>2 DEF S!First
  <1>3. ASSUME NEW k \in S!Kinds, S!Follow(k) PROVE S!TypeOK'
    <2>1. S!After[k] \in S!Kinds \cup {"end"}
      BY DEF S!After, S!Kinds
    <2>2. set' \in [S!Kinds -> Int]
      <3>1. set["main"] \in Int
        BY DEF S!Kinds
      <3>2. \A i \in S!Index : S!Absolute(k, set["main"], val[k][i]) \in Int
        BY <3>1, AbsoluteInt
      <3>3. ASSUME NEW i \in S!Index,
                   set' = [set EXCEPT ![k] = S!Absolute(k, set["main"], val[k][i])]
            PROVE  set' \in [S!Kinds -> Int]
        BY <3>2, <3>3
      <3>4. val[k][0] \in Int
        BY <1>0
      <3> QED BY <1>3, <3>3, <3>4 DEF S!Follow
    <2> QED BY <1>3, <2>1, <2>2 DEF S!Follow
  <1>4. CASE S!Zero
    BY <1>4 DEF S!Zero
  <1>5. CASE S!Preset
    <2>1. \A k \in S!Kinds : S!Absolute(k, pre["main"], pre[k]) \in Int
      BY AbsoluteInt DEF S!Kinds
    <2> QED BY <1>5, <2>1 DEF S!Preset
  <1>6. CASE S!End
    BY <1>6 DEF S!End
  <1>7. CASE S!Hour
    BY <1>7 DEF S!Hour
  <1>8. CASE S!Edit
    <2>1. PICK k \in S!Kinds, i \in S!Index, d \in DayTables, v \in ValTables,
               p \in Presets :
            \/ day' = [day EXCEPT ![k][i] = d[i]] /\ UNCHANGED <<val, pre>>
            \/ val' = [val EXCEPT ![k][i] = v[i]] /\ UNCHANGED <<day, pre>>
            \/ pre' = [pre EXCEPT ![k] = p] /\ UNCHANGED <<day, val>>
      BY <1>8 DEF S!Edit
    <2>2. d[i] \in Nat /\ v[i] \in Int /\ p \in Int
      OBVIOUS
    <2>3. day' \in [S!Kinds -> [S!Index -> Nat]]
      BY <2>1, <2>2
    <2>4. val' \in [S!Kinds -> [S!Index -> Int]]
      BY <2>1, <2>2
    <2>5. pre' \in [S!Kinds -> Int]
      BY <2>1, <2>2
    <2>6. /\ UNCHANGED <<schedPc, mode, hours, now, set>>
          /\ calm' = FALSE /\ edits' = edits + 1
      BY <1>8 DEF S!Edit
    <2>7. /\ schedPc' \in S!Kinds \cup {"clock", "first", "zero", "preset", "end"}
          /\ mode' \in {"run", "preheat", "calib"} /\ hours' \in Nat /\ now' \in Nat
          /\ set' \in [S!Kinds -> Int]
      BY <2>6
    <2>8. calm' \in BOOLEAN
      BY <2>6
    <2>9. edits' \in Nat
      BY <2>6
    <2> HIDE DEF S!SchedulesAreTables, S!TypeOK, S!tables
    <2> QED BY <2>3, <2>4, <2>5, <2>7, <2>8, <2>9 DEF S!TypeOK
  <1>9. CASE UNCHANGED S!vars
    BY <1>9 DEF S!vars
  <1> QED BY <1>1, <1>2, <1>3, <1>4, <1>5, <1>6, <1>7, <1>8, <1>9 DEF S!Next, S!Main

(* Every step keeps the mode of the pass. *)
LEMMA PassModeInvariance ==
    ASSUME S!TypeOK, ModeOfPass, [S!Next]_S!vars PROVE ModeOfPass'
  <1> USE DEF ModeOfPass, S!Kinds
  <1>1. CASE S!Clock
    BY <1>1 DEF S!Clock
  <1>2. CASE S!First
    BY <1>2 DEF S!First
  <1>3. ASSUME NEW k \in S!Kinds, S!Follow(k) PROVE ModeOfPass'
    <2>1. schedPc' \in S!Kinds \cup {"end"}
      BY <1>3 DEF S!Follow, S!After
    <2>2. mode' = mode /\ mode = "run"
      BY <1>3 DEF S!Follow
    <2> QED BY <2>1, <2>2
  <1>4. CASE S!Zero
    BY <1>4 DEF S!Zero
  <1>5. CASE S!Preset
    BY <1>5 DEF S!Preset
  <1>6. CASE S!End
    BY <1>6 DEF S!End
  <1>7. CASE S!Hour
    BY <1>7 DEF S!Hour
  <1>8. CASE S!Edit
    BY <1>8 DEF S!Edit
  <1>9. CASE UNCHANGED S!vars
    BY <1>9 DEF S!vars
  <1> QED BY <1>1, <1>2, <1>3, <1>4, <1>5, <1>6, <1>7, <1>8, <1>9 DEF S!Next, S!Main

-----------------------------------------------------------------------------
(* What a kind follows is read again after a step of another kind. *)
LEMMA FollowsKept ==
    ASSUME S!TypeOK, NEW k \in S!Kinds, S!Follows(k),
           UNCHANGED <<mode, now, S!tables>>, calm' => calm,
           set'[k] = set[k], set'["main"] = set["main"],
           S!Updated(k)' => S!Updated(k)
    PROVE  S!Follows(k)'
  <1>1. ASSUME NEW i \in S!Index PROVE S!InForce(k, i)' <=> S!InForce(k, i)
    BY DEF S!InForce, S!Used, S!tables
  <1>2. S!InOrder(k)' <=> S!InOrder(k)
    BY DEF S!InOrder, S!Used, S!tables
  <1> QED BY <1>1, <1>2 DEF S!Follows, S!tables

(* The step that updates a kind makes it follow, if its day before has come. *)
LEMMA FollowMakes ==
    ASSUME S!SchedulesAreTables, S!TypeOK, NEW k \in S!Kinds, S!HeadHasCome(k),
           S!Follow(k)
    PROVE  S!Follows(k)'
  <1> SUFFICES ASSUME S!InOrder(k), NEW i \in S!Index, S!InForce(k, i)
               PROVE  set'[k] = S!Absolute(k, set'["main"], val[k][i])
    <2>1. UNCHANGED <<mode, now, S!tables, calm>>
      BY DEF S!Follow
    <2>2. /\ S!InOrder(k)' <=> S!InOrder(k)
          /\ \A j \in S!Index : S!InForce(k, j)' <=> S!InForce(k, j)
      BY <2>1 DEF S!InOrder, S!InForce, S!Used, S!tables
    <2> QED BY <2>1, <2>2 DEF S!Follows, S!tables
  <1>1. S!Matches(k, i)
    BY ForceMatches
  <1>2. PICK j \in S!Index :
           /\ S!Selected(k, j)
           /\ set' = [set EXCEPT ![k] = S!Absolute(k, set["main"], val[k][j])]
    BY <1>1 DEF S!Follow
  <1>3. i = j
    BY <1>2, SelectsInForce
  <1>4. set'[k] = S!Absolute(k, set["main"], val[k][i])
    BY <1>2, <1>3 DEF S!TypeOK
  <1>5. k # "main" => set'["main"] = set["main"]
    BY <1>2 DEF S!TypeOK, S!Kinds
  <1>6. k = "main" => /\ set'[k] = val[k][i]
                      /\ S!Absolute(k, set'["main"], val[k][i]) = val[k][i]
    BY <1>4 DEF S!Absolute, S!Refluxes
  <1> QED BY <1>4, <1>5, <1>6

(* When a step has ended: the step of the next kind, or the pass. *)
LEMMA UpdatedNext ==
    ASSUME NEW k \in S!Kinds, NEW m \in S!Kinds, S!Follow(m), S!Updated(k)'
    PROVE  (k = m \/ S!Updated(k)) /\ (m = "main" => k = m)
  <1>1. schedPc = m /\ schedPc' = S!After[m]
    BY DEF S!Follow
  <1>2. /\ S!Rank[k] \in Int /\ S!Rank[m] \in Int
        /\ S!Rank[m] >= S!Rank[k] => k = m \/ S!Rank[m] > S!Rank[k]
    BY DEF S!Rank, S!Kinds
  <1>3. S!After[m] \in S!Kinds => S!Rank[S!After[m]] = S!Rank[m] + 1
    BY DEF S!After, S!Rank, S!Kinds
  <1>4. S!After[m] = "end" => m = "rf4" /\ S!Rank[m] = 8 /\ S!Rank[k] <= 8
    BY DEF S!After, S!Rank, S!Kinds
  <1>5. S!Rank[m] >= S!Rank[k]
    BY <1>1, <1>2, <1>3, <1>4 DEF S!Updated
  <1>6. m = "main" => S!Rank[m] = 1 /\ (S!Rank[k] <= 1 => k = "main")
    BY DEF S!Rank, S!Kinds
  <1> QED BY <1>1, <1>2, <1>5, <1>6 DEF S!Updated

(* Every step keeps what a kind follows. *)
LEMMA FollowsInvariance ==
    ASSUME S!SchedulesAreTables, S!TypeOK, ModeOfPass, NEW k \in S!Kinds,
           S!HeadHasCome(k) => S!Follows(k), [S!Next]_S!vars, S!HeadHasCome(k)'
    PROVE  S!Follows(k)'
  <1>0. "main" \in S!Kinds
    BY DEF S!Kinds
  <1>1. ASSUME UNCHANGED <<now, S!tables>> PROVE S!HeadHasCome(k) /\ S!Follows(k)
    <2>1. S!HeadHasCome(k)
      <3> SUFFICES ASSUME NEW i \in S!Index, S!InForce(k, i) PROVE S!Head(k, i) <= now
        BY DEF S!HeadHasCome
      <3>1. S!InForce(k, i)'
        BY <1>1 DEF S!InForce, S!Used, S!tables
      <3>2. S!Head(k, i)' <= now'
        BY <3>1 DEF S!HeadHasCome
      <3>3. S!Head(k, i)' = S!Head(k, i) /\ now' = now
        BY <1>1 DEF S!Head, S!tables
      <3> QED BY <3>2, <3>3
    <2> QED BY <2>1
  <1>2. CASE S!Clock
    <2>1. S!Updated(k)' => mode # "run"
      BY <1>2 DEF S!Clock, S!Updated, S!Kinds
    <2> QED BY <1>2, <2>1 DEF S!Follows, S!Clock
  <1>3. CASE S!First
    <2>1. ~S!Updated(k)'
      <3>1. ~(S!Rank["main"] > S!Rank[k])
        BY DEF S!Rank, S!Kinds
      <3> QED BY <1>3, <3>1 DEF S!First, S!Updated
    <2> QED BY <2>1 DEF S!Follows
  <1>4. ASSUME NEW m \in S!Kinds, S!Follow(m) PROVE S!Follows(k)'
    <2>1. UNCHANGED <<mode, now, S!tables, calm>>
      BY <1>4 DEF S!Follow
    <2>2. CASE m = k
      BY <1>1, <1>4, <2>1, <2>2, FollowMakes
    <2>3. CASE m # k
      <3>1. SUFFICES ASSUME S!Updated(k)' PROVE S!Follows(k)'
        BY DEF S!Follows
      <3>2. S!Updated(k) /\ m # "main"
        BY <1>4, <2>3, <3>1, UpdatedNext
      <3>3. set'[k] = set[k] /\ set'["main"] = set["main"]
        BY <1>0, <1>4, <2>3, <3>2 DEF S!Follow, S!TypeOK
      <3> QED BY <1>1, <2>1, <3>2, <3>3, FollowsKept
    <2> QED BY <2>2, <2>3
  <1>5. CASE S!Zero
    BY <1>5 DEF S!Zero, S!Updated, S!Kinds, S!Follows
  <1>6. CASE S!Preset
    <2>1. mode' = "preheat"
      BY <1>6 DEF S!Preset, ModeOfPass
    <2> QED BY <2>1 DEF S!Follows
  <1>7. CASE S!End
    BY <1>7 DEF S!End, S!Updated, S!Kinds, S!Follows
  <1>8. CASE S!Hour
    <2>1. /\ S!Updated(k)' => S!Updated(k)
          /\ UNCHANGED <<mode, now, S!tables, calm, set>>
      BY <1>8 DEF S!Hour, S!Updated
    <2> QED BY <1>1, <2>1, FollowsKept
  <1>9. CASE S!Edit
    BY <1>9 DEF S!Edit, S!Follows
  <1>10. CASE UNCHANGED S!vars
    <2>1. /\ S!Updated(k)' => S!Updated(k)
          /\ UNCHANGED <<mode, now, S!tables, calm, set>>
      BY <1>10 DEF S!vars, S!Updated
    <2> QED BY <1>1, <2>1, FollowsKept
  <1> QED BY <1>2, <1>3, <1>4, <1>5, <1>6, <1>7, <1>8, <1>9, <1>10 DEF S!Next, S!Main

-----------------------------------------------------------------------------
(* The initial words have their types. *)
LEMMA SchedulesInitially ==
    ASSUME S!SchedulesAreTables, S!Init PROVE S!TypeOK /\ ModeOfPass
  <1> USE DEF S!SchedulesAreTables, S!Init
  <1>1. day \in [S!Kinds -> [S!Index -> Nat]]
    OBVIOUS
  <1>2. val \in [S!Kinds -> [S!Index -> Int]]
    OBVIOUS
  <1>3. pre \in [S!Kinds -> Int]
    OBVIOUS
  <1>6. set \in [S!Kinds -> Int]
    <2>1. set = [k \in S!Kinds |-> 0] /\ \A k \in S!Kinds : 0 \in Int
      OBVIOUS
    <2> HIDE DEF S!SchedulesAreTables, S!Init
    <2> QED BY <2>1
  <1>4. schedPc = "clock" /\ mode \in {"run", "preheat", "calib"}
        /\ hours = 0 /\ now = 0 /\ calm = TRUE /\ edits = 0
    OBVIOUS
  <1>5. ModeOfPass
    BY <1>4 DEF ModeOfPass, S!Kinds
  <1> HIDE DEF S!SchedulesAreTables, S!Init
  <1> QED BY <1>1, <1>2, <1>3, <1>4, <1>5, <1>6 DEF S!TypeOK

(* The tables, the set values and the clock words keep their types, whatever *)
(* the display writes (update_set_para, preheat_set_para, run_sys_time).     *)
THEOREM SchedulesTyped == ASSUME S!SchedulesAreTables PROVE S!Spec => []S!TypeOK
  <1>1. S!Init => S!TypeOK
    BY SchedulesInitially
  <1>2. S!TypeOK /\ [S!Next]_S!vars => S!TypeOK'
    BY SchedulesTypeInvariance
  <1> QED BY <1>1, <1>2, PTL DEF S!Spec

(* A set value follows its table where the day looked up before its entry   *)
(* has come (update_set_para 3338-3716): after a pass that no write of the   *)
(* display came into, it is that of the latest entry whose day has come.     *)
THEOREM LookedUpTablesFollow ==
    ASSUME S!SchedulesAreTables PROVE S!Spec => []S!LookedUpFollows
  <1> DEFINE Inv == S!TypeOK /\ ModeOfPass /\ S!LookedUpFollows
  <1>1. S!Init => Inv
    <2>1. S!Init => S!TypeOK /\ ModeOfPass
      BY SchedulesInitially
    <2>2. S!Init => S!LookedUpFollows
      BY DEF S!Init, S!LookedUpFollows, S!Follows, S!Updated, S!Kinds
    <2> QED BY <2>1, <2>2
  <1>2. Inv /\ [S!Next]_S!vars => Inv'
    <2> SUFFICES ASSUME Inv, [S!Next]_S!vars PROVE Inv'
      OBVIOUS
    <2>1. S!TypeOK' /\ ModeOfPass'
      BY SchedulesTypeInvariance, PassModeInvariance
    <2>2. ASSUME NEW k \in S!Kinds, S!HeadHasCome(k)' PROVE S!Follows(k)'
      BY <2>2, FollowsInvariance DEF S!LookedUpFollows
    <2> QED BY <2>1, <2>2 DEF S!LookedUpFollows
  <1>3. Inv => S!LookedUpFollows
    OBVIOUS
  <1> QED BY <1>1, <1>2, <1>3, PTL DEF S!Spec

(* What follows its table if the day looked up has come follows, if that     *)
(* table is its own or has the days of the temperature.                      *)
LEMMA FollowsUnconditionally ==
    ASSUME S!SchedulesAreTables, S!TypeOK, S!LookedUpFollows, NEW k \in S!Kinds,
           S!HeadOf(k) = k \/ day[k] = day["main"]
    PROVE  S!Follows(k)
  <1>1. CASE S!InOrder(k)
    BY <1>1, PredecessorHasCome DEF S!LookedUpFollows
  <1>2. CASE ~S!InOrder(k)
    BY <1>2 DEF S!Follows
  <1> QED BY <1>1, <1>2

(* The temperature and the third and fourth reflux temperature, looked up in *)
(* their own tables (3363-3411 and 3633-3715), follow whatever those hold.   *)
THEOREM OwnTablesFollow ==
    ASSUME S!SchedulesAreTables PROVE S!Spec => []S!OwnTableFollows
  <1>1. S!TypeOK /\ S!LookedUpFollows => S!OwnTableFollows
    <2> SUFFICES ASSUME S!TypeOK, S!LookedUpFollows, NEW k \in {"main", "rf3", "rf4"}
                 PROVE  S!Follows(k)
      BY DEF S!OwnTableFollows
    <2>1. k \in S!Kinds /\ S!HeadOf(k) = k
      BY DEF S!Kinds, S!HeadOf
    <2> QED BY <2>1, FollowsUnconditionally
  <1> QED BY <1>1, SchedulesTyped, LookedUpTablesFollow, PTL

(* The other five kinds (3417-3632) follow when their days are those of the  *)
(* temperature, in whose table the code looks the entry before up.           *)
THEOREM SharedDaysFollow ==
    ASSUME S!SchedulesAreTables PROVE S!Spec => []S!SameDaysFollow
  <1>1. S!TypeOK /\ S!LookedUpFollows => S!SameDaysFollow
    BY FollowsUnconditionally DEF S!SameDaysFollow
  <1> QED BY <1>1, SchedulesTyped, LookedUpTablesFollow, PTL
=============================================================================
