------------------------------ MODULE Schedule ------------------------------
(***************************************************************************)
(* The parameter schedules: how the set values (P_AO_..) follow the hour of *)
(* incubation.  Each kind of set value has a table of thirty entries, a day *)
(* word (day * 100 + hour) and a value; a day word of 0 after the first one *)
(* is an empty entry.  update_set_para first writes the first values and    *)
(* then, kind by kind, the entry it selects; preheat_set_para writes the    *)
(* preheat values.  The display may change a table between any two steps.   *)
(***************************************************************************)
EXTENDS Integers

CONSTANTS
    Entries,    \* SET_PARA_DAY
    DayTables,  \* the columns P_SET_.._DAY a table may have
    ValTables,  \* the columns P_SET_.._VAL a table may have
    Presets,    \* the values of P_PRE_..
    MaxHours,   \* bound: hours of incubation
    MaxEdits    \* bound: tables and presets the display writes

Kinds == {"main", "humid", "co2", "damper", "rf1", "rf2", "rf3", "rf4"}
Refluxes == {"rf1", "rf2", "rf3", "rf4"}
Index == 0 .. Entries - 1
Last == Entries - 1

(* what the proofs assume of the constants *)
SchedulesAreTables ==
    /\ Entries \in Nat \ {0} /\ DayTables \subseteq [Index -> Nat]
    /\ ValTables \subseteq [Index -> Int] /\ Presets \subseteq Int

VARIABLES
    pc,     \* "clock", "first", the kind updated next, "zero", "preset" or "end"
    mode,   \* "run" (start and stop mode), "preheat" or "calib"
    hours,  \* R_RUN_SECOND / 3600
    now,    \* R_RUN_DAY
    day,    \* P_SET_.._DAY
    val,    \* P_SET_.._VAL
    pre,    \* P_PRE_..
    set,    \* P_AO_..
    calm,   \* nothing was written by the display since "first"
    edits

tables == <<day, val, pre>>
vars == <<pc, mode, hours, now, tables, set, calm, edits>>

Init ==
    /\ pc = "clock" /\ mode \in {"run", "preheat", "calib"} /\ hours = 0 /\ now = 0
    /\ day \in [Kinds -> DayTables] /\ val \in [Kinds -> ValTables]
    /\ pre \in [Kinds -> Presets] /\ set = [k \in Kinds |-> 0]
    /\ calm = TRUE /\ edits = 0

-----------------------------------------------------------------------------
(* timer(): the word the display and the tables count in. *)
DayWord(h) == (100 * (h \div 24)) + (h % 24)

(* A reflux value is an offset from the main temperature. *)
Absolute(k, main, v) == IF k \in Refluxes THEN main + v ELSE v

(* The table an entry's predecessor is looked up in. *)
HeadOf(k) == IF k \in {"rf3", "rf4"} THEN k ELSE "main"

Head(k, i) == IF i = 0 THEN 0 ELSE day[HeadOf(k)][i - 1]

(* "now" is in the span of entry i of kind k *)
Matches(k, i) ==
    /\ now >= Head(k, i) /\ now >= day[k][i]
    /\ i < Last => (now < day[k][i + 1] \/ day[k][i + 1] = 0)
    /\ k = "main" /\ i < Last => now >= day[k][0]

(* The loop stops at the first entry that matches. *)
Selected(k, i) == Matches(k, i) /\ \A j \in 0 .. i - 1 : ~Matches(k, j)

-----------------------------------------------------------------------------
(* run_sys_time, and the block of the mode that follows. *)
Clock ==
    /\ pc = "clock" /\ now' = DayWord(hours)
    /\ pc' = IF mode = "run" THEN "first" ELSE IF mode = "preheat" THEN "zero" ELSE "end"
    /\ UNCHANGED <<mode, hours, tables, set, calm, edits>>

First ==
    /\ pc = "first" /\ pc' = "main" /\ calm' = TRUE
    /\ set' = [k \in Kinds |-> Absolute(k, val["main"][0], val[k][0])]
    /\ UNCHANGED <<mode, hours, now, tables, edits>>

After == [main |-> "humid", humid |-> "co2", co2 |-> "damper", damper |-> "rf1",
          rf1 |-> "rf2", rf2 |-> "rf3", rf3 |-> "rf4", rf4 |-> "end"]

(* before its first day the main temperature is written with its first value *)
Follow(k) ==
    /\ pc = k /\ pc' = After[k]
    /\ \/ \E i \in Index : Selected(k, i) /\
            set' = [set EXCEPT ![k] = Absolute(k, set["main"], val[k][i])]
       \/ /\ \A i \in Index : ~Matches(k, i)
          /\ set' = IF k = "main" /\ now < day[k][0]
                    THEN [set EXCEPT ![k] = val[k][0]] ELSE set
    /\ UNCHANGED <<mode, hours, now, tables, calm, edits>>

Zero ==
    /\ pc = "zero" /\ pc' = "preset" /\ set' = [k \in Kinds |-> 0]
    /\ UNCHANGED <<mode, hours, now, tables, calm, edits>>

Preset ==
    /\ pc = "preset" /\ pc' = "end"
    /\ set' = [k \in Kinds |-> Absolute(k, pre["main"], pre[k])]
    /\ UNCHANGED <<mode, hours, now, tables, calm, edits>>

(* The rest of the pass: the mode may change, and the incubation begin anew. *)
End ==
    /\ pc = "end" /\ pc' = "clock" /\ mode' \in {"run", "preheat", "calib"}
    /\ \/ UNCHANGED <<hours, now>>
       \/ hours' = 0 /\ now' = 0
    /\ UNCHANGED <<tables, set, calm, edits>>

Main == Clock \/ First \/ (\E k \in Kinds : Follow(k)) \/ Zero \/ Preset \/ End

-----------------------------------------------------------------------------
(* The timer: an hour of R_RUN_SECOND. *)
Hour ==
    /\ hours < MaxHours /\ hours' = hours + 1
    /\ UNCHANGED <<pc, mode, now, tables, set, calm, edits>>

(* The display writes a word of a table, or a preheat value. *)
Edit ==
    /\ edits < MaxEdits /\ edits' = edits + 1 /\ calm' = FALSE
    /\ \E k \in Kinds, i \in Index, d \in DayTables, v \in ValTables, p \in Presets :
          \/ day' = [day EXCEPT ![k][i] = d[i]] /\ UNCHANGED <<val, pre>>
          \/ val' = [val EXCEPT ![k][i] = v[i]] /\ UNCHANGED <<day, pre>>
          \/ pre' = [pre EXCEPT ![k] = p] /\ UNCHANGED <<day, val>>
    /\ UNCHANGED <<pc, mode, hours, now, set>>

Next == Main \/ Hour \/ Edit

Spec == Init /\ [][Next]_vars

-----------------------------------------------------------------------------
(* The variables hold values the words can hold. *)
TypeOK ==
    /\ pc \in Kinds \cup {"clock", "first", "zero", "preset", "end"}
    /\ mode \in {"run", "preheat", "calib"} /\ hours \in Nat /\ now \in Nat
    /\ day \in [Kinds -> [Index -> Nat]] /\ val \in [Kinds -> [Index -> Int]]
    /\ pre \in [Kinds -> Int] /\ set \in [Kinds -> Int]
    /\ calm \in BOOLEAN /\ edits \in Nat

(* The reference: the entries in use come before the first empty one, and    *)
(* the one in force is the latest whose day has come.                        *)
Used(k, i) == \A j \in 1 .. i : day[k][j] > 0

InForce(k, i) ==
    /\ Used(k, i) /\ day[k][i] <= now
    /\ \A j \in Index : j > i /\ Used(k, j) => day[k][j] > now

(* A table the display shows in order: its first entry holds from the start. *)
InOrder(k) ==
    /\ day[k][0] <= now
    /\ \A i \in Index, j \in Index :
          i < j /\ Used(k, j) => day[k][i] <= day[k][j]

(* the place of a kind in a pass of update_set_para *)
Rank == [main |-> 1, humid |-> 2, co2 |-> 3, damper |-> 4, rf1 |-> 5, rf2 |-> 6,
         rf3 |-> 7, rf4 |-> 8]

(* the step of a kind is over *)
Updated(k) == pc = "end" \/ (pc \in Kinds /\ Rank[pc] > Rank[k])

(* The set value of a kind is the one of the entry in force. *)
Follows(k) ==
    mode = "run" /\ Updated(k) /\ calm /\ InOrder(k) =>
        \A i \in Index : InForce(k, i) =>
            set[k] = Absolute(k, set["main"], val[k][i])

(* The humidity follows its own table ("compare with the matching entry",    *)
(* "preset 1 - humidity - day and hour").  The code looks the entry before   *)
(* up in the table of the temperature: where that one comes later, the       *)
(* humidity falls back to its first value.                                   *)
HumidityFollows == Follows("humid")

(* The temperature follows its table, and the third and fourth reflux        *)
(* temperature theirs, as offsets from the temperature that was just set.    *)
OwnTableFollows == Follows("main") /\ Follows("rf3") /\ Follows("rf4")

(* The day the code looks up before the entry in force has come.             *)
HeadHasCome(k) == \A i \in Index : InForce(k, i) => Head(k, i) <= now

(* The other kinds follow their tables too where the temperature's days do   *)
(* not come later: what HumidityFollows lacks is this and nothing else.      *)
LookedUpFollows == \A k \in Kinds : HeadHasCome(k) => Follows(k)

(* So a kind that has the days of the temperature follows.                   *)
SameDaysFollow == \A k \in Kinds : day[k] = day["main"] => Follows(k)
=============================================================================
