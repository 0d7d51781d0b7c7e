------------------------------ MODULE Freshness ------------------------------
(***************************************************************************)
(* The three polling loops of polling.py in time: how old the values of    *)
(* the published state get, and what is_stale() (domain/current_state.py)  *)
(* says of them.                                                           *)
(*                                                                         *)
(* Time passes in units, and only while every loop waits for something: a  *)
(* command, the cycle lock or its interval.  Ages are counted instead of   *)
(* times.  A value is stamped when its command ends and published at the   *)
(* end of its cycle; a failed one keeps its old stamp and becomes invalid. *)
(* Nothing is said of what the values are: see Polling.                    *)
(***************************************************************************)
EXTENDS Integers, Sequences, FiniteSets

CONSTANTS
  Positions,   \* occupied positions of the rack
  Interval,    \* polling interval of each loop
  Multiplier,  \* stale_after_multiplier
  MaxCommand,  \* the longest a command takes, with all that execute() does
  MaxFaults    \* bound on failed commands

Loops == {"rack", "module", "inventory"}

N == Cardinality(Positions)

\* Commands in a cycle of loop l at most.
Length(l) ==
  CASE l = "rack"      -> N + 1
    [] l = "module"    -> N
    [] l = "inventory" -> N + 1

\* From a value's stamp to the end of its cycle, the cycles of the two other
\* loops, and the next cycle of its own.
Lag(l) ==
  (2 * Length(l) - 1 + Length("rack") + Length("module") + Length("inventory")
     - Length(l)) * MaxCommand

ASSUME PositionsAssumption == Positions \subseteq Nat \ {0} /\ IsFiniteSet(Positions)
ASSUME IntervalAssumption == Interval \in [Loops -> Nat \ {0}]
ASSUME MultiplierAssumption == Multiplier \in Nat \ {0}
ASSUME BoundsAssumption == MaxCommand \in Nat /\ MaxFaults \in Nat

\* The settings leave room for a whole round of the cycle lock.  The program
\* does not check this of its settings.
ASSUME RoomAssumption ==
  \A l \in Loops : Interval[l] * Multiplier > Interval[l] + Lag(l)

VARIABLES
  status,   \* of each loop: none, sleeping, waiting or running
  timer,    \* what is left of its sleep
  queue,    \* the waiters for the cycle lock, in their order
  holder,   \* the loop whose cycle it is
  todo,     \* the commands of the cycle still to end, the first outstanding
  elapsed,  \* how long the outstanding command has taken
  mapped,   \* the positions in the inventory
  taken,    \* the values the cycle has read so far, with their ages
  failed,   \* the values it has failed to read
  store,    \* the published values: age (Never for none) and validity
  success,  \* the age of last_success_at, Never for none
  faults    \* failed commands so far

loopVars  == <<status, timer, queue>>
cycleVars == <<holder, todo, elapsed, taken, failed>>
vars == <<loopVars, cycleVars, mapped, store, success, faults>>

Nobody == "nobody"
Never  == -1

\* The values of the state: what a command reads, and of which position.
Keys(l, P) ==
  CASE l = "rack"      -> {<<"rack", 0>>} \cup {<<"cells", p>> : p \in P}
    [] l = "module"    -> {<<"detail", p>> : p \in P}
    [] l = "inventory" -> {<<"inventory", 0>>}

LoopOf(k) ==
  CASE k[1] \in {"rack", "cells"} -> "rack"
    [] k[1] = "detail"            -> "module"
    [] k[1] = "inventory"         -> "inventory"

AllKeys == UNION {Keys(l, Positions) : l \in Loops}

\* interval_seconds * stale_after_multiplier
Limit(k) == Interval[LoopOf(k)] * Multiplier

Empty == [age |-> Never, valid |-> FALSE]

\* is_stale(): at the boundary already, and without a stamp always.
IsStale(k, age) == age = Never \/ age >= Limit(k)

TypeOK ==
  /\ status \in [Loops -> {"none", "sleeping", "waiting", "running"}]
  /\ timer \in [Loops -> Nat]
  /\ queue \in Seq(Loops)
  /\ holder \in Loops \cup {Nobody}
  /\ todo \in Seq({"pwr", "info", "rack", "cells", "detail"} \X (Positions \cup {0}))
  /\ elapsed \in 0..MaxCommand
  /\ mapped \subseteq Positions
  /\ DOMAIN taken \subseteq AllKeys
  /\ failed \subseteq AllKeys \cup {<<"info", p>> : p \in Positions}
  /\ \A k \in AllKeys : store[k].valid \in BOOLEAN
  /\ faults \in 0..MaxFaults

Ascending(P) ==
  [i \in 1..Cardinality(P) |->
     CHOOSE p \in P : Cardinality({q \in P : q < p}) = i - 1]

Each(kind, P) == [i \in 1..Cardinality(P) |-> <<kind, Ascending(P)[i]>>]

Commands(l) ==
  CASE l = "rack"      -> <<<<"rack", 0>>>> \o Each("cells", mapped)
    [] l = "module"    -> Each("detail", mapped)
    [] l = "inventory" -> <<<<"pwr", 0>>>>

\* start(): initialize() runs an inventory cycle before the loops exist.
Init ==
  /\ status = [l \in Loops |-> "none"]
  /\ timer = [l \in Loops |-> 0]
  /\ queue = <<>>
  /\ holder = "inventory"
  /\ todo = <<<<"pwr", 0>>>>
  /\ elapsed = 0
  /\ mapped = {}
  /\ taken = [k \in {} |-> 0] /\ failed = {}
  /\ store = [k \in AllKeys |-> Empty]
  /\ success = Never
  /\ faults = 0

(***************************************************************************)
(* The loops and their lock.                                               *)
(***************************************************************************)
\* The lock is handed on, or the three tasks are created.
Released(l) ==
  /\ holder' = Nobody /\ todo' = <<>> /\ elapsed' = 0
  /\ taken' = [k \in {} |-> 0] /\ failed' = {}
  /\ \/ /\ status[l] = "none"
        /\ status' = [k \in Loops |-> "waiting"]
        /\ queue' = <<"rack", "module", "inventory">>
        /\ UNCHANGED timer
     \/ /\ status[l] # "none"
        /\ status' = [status EXCEPT ![l] = "sleeping"]
        /\ timer' = [timer EXCEPT ![l] = Interval[l]]
        /\ UNCHANGED queue

Wakes(l) ==
  /\ status[l] = "sleeping" /\ timer[l] = 0
  /\ status' = [status EXCEPT ![l] = "waiting"]
  /\ queue' = Append(queue, l)
  /\ UNCHANGED <<timer, cycleVars, mapped, store, success, faults>>

\* Without a position there is no command to wait for in a module cycle: it
\* publishes and goes back to sleep.
Acquires ==
  /\ holder = Nobody /\ queue # <<>>
  /\ LET l == Head(queue)
     IN  \/ /\ Commands(l) = <<>>
            /\ status' = [status EXCEPT ![l] = "sleeping"]
            /\ timer' = [timer EXCEPT ![l] = Interval[l]]
            /\ UNCHANGED <<holder, todo>>
         \/ /\ Commands(l) # <<>>
            /\ status' = [status EXCEPT ![l] = "running"]
            /\ holder' = l
            /\ todo' = Commands(l)
            /\ UNCHANGED timer
  /\ queue' = Tail(queue)
  /\ UNCHANGED <<elapsed, taken, failed, mapped, store, success, faults>>

(***************************************************************************)
(* What a cycle publishes.                                                 *)
(***************************************************************************)
\* Mutation of NewValue: a failed value stays valid.
NewValueKeepsValid(k, new, bad) ==
  IF k \in DOMAIN new THEN [age |-> new[k], valid |-> k \notin bad] ELSE store[k]

\* CurrentValue of a successful command, or the old one as invalid.
NewValue(k, new, bad) ==
  IF k \in DOMAIN new THEN [age |-> new[k], valid |-> k \notin bad]
  ELSE IF k \in bad THEN [store[k] EXCEPT !.valid = FALSE]
  ELSE store[k]

\* Mutation of SuccessAge: the stamp of a rack value that is no longer valid.
SuccessAgeOfStored(l, new, bad) ==
  LET at == IF l = "rack" THEN NewValue(<<"rack", 0>>, new, bad).age ELSE Never
      ages == {new[k] : k \in DOMAIN new}
  IN  IF at # Never THEN at
      ELSE IF ages = {} \/ l = "rack" THEN success
      ELSE CHOOSE a \in ages : \A b \in ages : a <= b

\* success_at: the rack value's stamp, that of the last module read, or that of
\* `pwr'; without one last_success_at stays.
SuccessAge(l, new, bad) ==
  LET ages == {new[k] : k \in DOMAIN new \ Keys("rack", Positions)}
  IN  CASE l = "rack" /\ <<"rack", 0>> \in DOMAIN new -> new[<<"rack", 0>>]
        [] l # "rack" /\ ages # {} -> CHOOSE a \in ages : \A b \in ages : a <= b
        [] OTHER -> success

\* Modules that left the inventory have no values; new ones start empty.
Published(l, new, bad, positions) ==
  /\ store' = [k \in AllKeys |->
                 IF k[1] \in {"cells", "detail"} /\ k[2] \notin positions
                   THEN Empty ELSE NewValue(k, new, bad)]
  /\ success' = SuccessAge(l, new, bad)
  /\ mapped' = positions

(***************************************************************************)
(* The commands.                                                           *)
(***************************************************************************)
Key(command) ==
  IF command[1] \in {"pwr", "info"} THEN <<"inventory", 0>> ELSE command

\* The outstanding command ends; the next one is sent, or the cycle ends.
Goes(new, bad, rest, positions) ==
  \/ /\ rest # <<>>
     /\ todo' = rest /\ elapsed' = 0
     /\ taken' = new /\ failed' = bad
     /\ UNCHANGED <<loopVars, holder, mapped, store, success>>
  \/ /\ rest = <<>>
     /\ Published(holder, new, bad, positions)
     /\ Released(holder)

\* Positions that an inventory cycle maps: those whose identity it has read.
Identified(bad) == {p \in Positions : <<"info", p>> \notin bad}

\* An inventory cycle notes failed identities as <<"info", p>>.
Stamped(command) ==
  [k \in DOMAIN taken \cup {Key(command)} |->
     IF k = Key(command) /\ command[1] # "info" THEN 0 ELSE taken[k]]

Answered ==
  /\ holder # Nobody
  /\ LET command == Head(todo)
     IN  \/ /\ command[1] = "pwr"
            /\ Goes(Stamped(command), failed, Each("info", Positions), {})
         \/ /\ command[1] = "info"
            /\ Goes(Stamped(command), failed, Tail(todo), Identified(failed))
         \/ /\ command[1] \notin {"pwr", "info"}
            /\ Goes(Stamped(command), failed, Tail(todo), mapped)
  /\ UNCHANGED faults

Fails ==
  /\ holder # Nobody
  /\ faults < MaxFaults
  /\ faults' = faults + 1
  /\ LET command == Head(todo)
     IN  \/ /\ command[1] = "pwr"
            /\ Goes(taken, {<<"inventory", 0>>}, <<>>, mapped)
         \/ /\ command[1] = "info"
            /\ Goes(taken, failed \cup {command, <<"inventory", 0>>}, Tail(todo),
                    Identified(failed \cup {command}))
         \/ /\ command[1] \notin {"pwr", "info"}
            /\ Goes(taken, failed \cup {command}, Tail(todo), mapped)

(***************************************************************************)
(* Time.                                                                   *)
(***************************************************************************)
\* Ages beyond every boundary are not told apart.
MaxAge == CHOOSE m \in {Limit(k) : k \in AllKeys} :
            \A k \in AllKeys : Limit(k) <= m

Older(age) == IF age = Never \/ age = MaxAge THEN age ELSE age + 1

Tick ==
  /\ holder # Nobody => elapsed < MaxCommand
  /\ holder = Nobody => queue = <<>>
  /\ \A l \in Loops : status[l] = "sleeping" => timer[l] > 0
  /\ timer' = [l \in Loops |-> IF status[l] = "sleeping" THEN timer[l] - 1 ELSE timer[l]]
  /\ elapsed' = IF holder # Nobody THEN elapsed + 1 ELSE 0
  /\ taken' = [k \in DOMAIN taken |-> Older(taken[k])]
  /\ store' = [k \in AllKeys |-> [store[k] EXCEPT !.age = Older(@)]]
  /\ success' = Older(success)
  /\ UNCHANGED <<status, queue, holder, todo, failed, mapped, faults>>

Next ==
  \/ \E l \in Loops : Wakes(l)
  \/ Acquires \/ Answered \/ Fails \/ Tick

Spec == Init /\ [][Next]_vars

(***************************************************************************)
(* Properties.                                                             *)
(***************************************************************************)
\* With room for a whole round of the lock, a value is only ever stale after
\* a failed acquisition of its own: what is valid is never stale.
ValidIsFresh ==
  \A k \in AllKeys : store[k].valid => ~IsStale(k, store[k].age)

\* last_success_at never goes back in time, whichever cycle publishes it.
SuccessAdvances ==
  [][success # Never =>
       success' # Never /\ (success' <= success \/ success' = Older(success))]_vars
=============================================================================
