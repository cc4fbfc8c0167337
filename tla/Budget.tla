------------------------------- MODULE Budget -------------------------------
(***************************************************************************)
(* The runaway guard and the opt-in ceilings of governance/budget.py, as   *)
(* governed_tool uses them: check_and_record before every call, and        *)
(* add_duration after it, on one tracker per process shared by all its     *)
(* threads.                                                                *)
(*                                                                         *)
(* check_and_record reads the clock before it takes the lock, so its       *)
(* time stamp may be up to Delay old when the call is recorded, and stamps *)
(* may be recorded out of order.                                           *)
(*                                                                         *)
(* The inverse that undo_apply calls is a governed call inside a governed  *)
(* call: it is checked, and its time added, on its own.  Its steps are     *)
(* those of a second thread whose call begins and ends during the first's. *)
(*                                                                         *)
(* Time is a clock of ticks, and every recorded time is kept as its age,   *)
(* so behaviours are not bounded in time.  An age stops growing where no   *)
(* comparison can tell it from a larger one.                               *)
(***************************************************************************)
EXTENDS Naturals, Sequences, FiniteSets

CONSTANTS Threads,      \* calls that can be in flight: a call inside another is one of its own
          Prints,       \* fingerprints: a tool with its redacted parameters
          LimitSets,    \* the limits a process may be started with
          Delay,        \* ticks from reading the clock to holding the lock, at most
          LongestCall,  \* ticks from the start of a call to its end, at most
          None          \* a ceiling that is not set

ASSUME BudgetAssumption ==
    /\ IsFiniteSet(Threads)
    /\ Delay \in Nat /\ LongestCall \in Nat /\ Delay <= LongestCall
    /\ LimitSets \subseteq [calls : Nat \cup {None}, seconds : Nat \cup {None},
                            runaway : Nat, window : Nat]
    /\ \A l \in LimitSets : Delay <= l.window

VARIABLES limits,   \* PROXMOX_MAX_TOOL_CALLS, ..., PROXMOX_RUNAWAY_WINDOW_SEC
          state,    \* state[t]: "idle", "stamped", "running", or the rule that refused
          print,    \* print[t]: the fingerprint of t's call
          elapsed,  \* elapsed[t]: ticks since t's call read the clock
          windows,  \* windows[f]: the deque of f, as ages
          calls,    \* total_calls, counted up to the ceiling
          seconds,  \* total_seconds, counted up to the ceiling
          ledger,   \* history: the ages of f's admissions, from the lock's moment
          spent     \* history: ticks spent in admitted calls, up to the ceiling and its overshoot

vars == <<limits, state, print, elapsed, windows, calls, seconds, ledger, spent>>

LeastOf(a, b) == IF a <= b THEN a ELSE b

\* The runaway breaker is on.
Guarded == limits.runaway > 0 /\ limits.window > 0

\* From this age on, a time stamp is outside every window.
Stale == limits.window + Delay + 1

\* The most that calls admitted below the ceiling can add to it.
Overshoot == Cardinality(Threads) * LongestCall

Init ==
    /\ limits \in LimitSets
    /\ state = [t \in Threads |-> "idle"]
    /\ print \in [Threads -> Prints]
    /\ elapsed = [t \in Threads |-> 0]
    /\ windows = [f \in Prints |-> <<>>]
    /\ calls = 0
    /\ seconds = 0
    /\ ledger = [f \in Prints |-> <<>>]
    /\ spent = 0

\* A call reads the clock and makes its fingerprint.
Begin(t, f) ==
    /\ state[t] = "idle"
    /\ state' = [state EXCEPT ![t] = "stamped"]
    /\ print' = [print EXCEPT ![t] = f]
    /\ elapsed' = [elapsed EXCEPT ![t] = 0]
    /\ UNCHANGED <<limits, windows, calls, seconds, ledger, spent>>

-----------------------------------------------------------------------------
(* check_and_record, under the lock                                        *)

\* Faulty: the ceiling is compared after it is passed.
OverSecondsStrictly == limits.seconds # None /\ seconds > limits.seconds

OverCalls   == limits.calls # None /\ calls >= limits.calls
OverSeconds == limits.seconds # None /\ seconds >= limits.seconds

\* Faulty: an entry exactly one window old is dropped.
DropsInclusive(age, now) == age >= now + limits.window

\* An entry is older than the cutoff of a call whose own stamp has age now.
Drops(age, now) == age > now + limits.window

\* Entries leave from the left, up to the first that is not older.
Pruned(dq, now) ==
    LET keep == {i \in DOMAIN dq : \A j \in 1..i-1 : Drops(dq[j], now)}
        Kept(i) == ~Drops(dq[i], now)
    IN IF \E i \in keep : Kept(i)
       THEN SubSeq(dq, CHOOSE i \in keep : Kept(i), Len(dq))
       ELSE <<>>

\* Faulty: one call too many.
TripsLate(dq) == Len(dq) > limits.runaway

\* Faulty: the breaker ignores one entry.
TripsEarly(dq) == Len(dq) + 1 >= limits.runaway

Trips(dq) == Len(dq) >= limits.runaway

\* Faulty: a refused call is recorded too, in place of the oldest.
RefusedRecords(dq, now) == Append(Tail(dq), now)

\* What a refused call leaves of the deque.
Refused(dq, now) == dq

\* Counters matter only below their ceilings.
Counted(n, add, ceiling) == IF ceiling = None THEN n ELSE LeastOf(n + add, ceiling)

Refuse(t, rule) ==
    /\ state' = [state EXCEPT ![t] = rule]
    /\ UNCHANGED <<calls, ledger>>

Admit(t) ==
    /\ state' = [state EXCEPT ![t] = "running"]
    /\ calls' = Counted(calls, 1, limits.calls)
    /\ ledger' = IF Guarded
                 THEN [ledger EXCEPT ![print[t]] = Append(@, 0)]
                 ELSE ledger

Check(t) ==
    LET f  == print[t]
        dq == Pruned(windows[f], elapsed[t])
    IN /\ state[t] = "stamped"
       /\ \/ /\ OverCalls
             /\ Refuse(t, "budget_calls")
             /\ UNCHANGED windows
          \/ /\ ~OverCalls /\ OverSeconds
             /\ Refuse(t, "budget_seconds")
             /\ UNCHANGED windows
          \/ /\ ~OverCalls /\ ~OverSeconds /\ Guarded /\ Trips(dq)
             /\ Refuse(t, "budget_runaway")
             /\ windows' = [windows EXCEPT ![f] = Refused(dq, elapsed[t])]
          \/ /\ ~OverCalls /\ ~OverSeconds /\ ~(Guarded /\ Trips(dq))
             /\ Admit(t)
             /\ windows' = IF Guarded
                           THEN [windows EXCEPT ![f] = Append(dq, elapsed[t])]
                           ELSE windows
       /\ UNCHANGED <<limits, print, elapsed, seconds, spent>>

-----------------------------------------------------------------------------
(* The end of a call, and time                                             *)

\* _finalize runs for refused calls as well.
End(t) ==
    /\ state[t] \notin {"idle", "stamped"}
    /\ state' = [state EXCEPT ![t] = "idle"]
    /\ seconds' = Counted(seconds, elapsed[t], limits.seconds)
    /\ spent' = IF state[t] = "running" /\ limits.seconds # None
                THEN LeastOf(spent + elapsed[t], limits.seconds + Overshoot)
                ELSE spent
    /\ elapsed' = [elapsed EXCEPT ![t] = 0]
    /\ UNCHANGED <<limits, print, windows, calls, ledger>>

Older(ages) == [i \in DOMAIN ages |-> LeastOf(ages[i] + 1, Stale)]

Within(ages, span) == Cardinality({i \in DOMAIN ages : ages[i] <= span})

\* Admissions are kept in the order of the lock: the younger ones are the last.
Youngest(ages, span) == SubSeq(ages, Len(ages) - Within(ages, span) + 1, Len(ages))

Tick ==
    /\ \A t \in Threads :
          /\ state[t] = "stamped" => elapsed[t] < Delay
          /\ state[t] # "idle" => elapsed[t] < LongestCall
    /\ elapsed' = [t \in Threads |-> IF state[t] = "idle" THEN 0 ELSE elapsed[t] + 1]
    /\ windows' = [f \in Prints |-> Older(windows[f])]
    /\ ledger' = [f \in Prints |-> Youngest(Older(ledger[f]), limits.window + Delay)]
    /\ UNCHANGED <<limits, state, print, calls, seconds, spent>>

Next ==
    \/ \E t \in Threads, f \in Prints : Begin(t, f)
    \/ \E t \in Threads : Check(t) \/ End(t)
    \/ Tick

\* Calls end, time passes, and the agent keeps making every call.
Fairness ==
    /\ WF_vars(Tick)
    /\ \A t \in Threads :
          /\ WF_vars(Check(t)) /\ WF_vars(End(t))
          /\ \A f \in Prints : SF_vars(Begin(t, f))

Spec == Init /\ [][Next]_vars /\ Fairness

-----------------------------------------------------------------------------
(* Properties                                                              *)

Rules == {"budget_calls", "budget_seconds", "budget_runaway"}

\* The shape of the tracker: no deque is ever longer than the breaker allows,
\* and no counter passes its ceiling.
TypeOK ==
    /\ limits \in LimitSets
    /\ state \in [Threads -> {"idle", "stamped", "running"} \cup Rules]
    /\ print \in [Threads -> Prints]
    /\ elapsed \in [Threads -> 0..LongestCall]
    /\ \A f \in Prints : /\ Len(windows[f]) <= limits.runaway
                         /\ \A i \in DOMAIN windows[f] : windows[f][i] \in 0..Stale
    /\ calls \in Nat /\ (limits.calls # None => calls <= limits.calls)
    /\ seconds \in Nat /\ spent \in Nat

\* The guard holds: however threads overlap, and although stamps are recorded
\* late and out of order, no more than runaway calls with one fingerprint are
\* admitted in any span of the window less the delay of the lock.
RunawayHolds ==
    Guarded => \A f \in Prints :
        Within(ledger[f], limits.window - Delay) <= limits.runaway

EarnedTrip ==
    \A t \in Threads : state'[t] = "budget_runaway" /\ state[t] = "stamped" =>
        Within(ledger[print[t]], limits.window + Delay) >= limits.runaway

\* A trip is earned: the guard refuses a call only if runaway calls with its
\* fingerprint were admitted in the last window, give or take the delay of the
\* lock, although entries leave the deque from the left only and refused calls
\* come and go in between.
TripsAreEarned == [][EarnedTrip]_vars

\* The time ceiling is passed by no more than the calls that were in flight
\* when it was reached: admitted calls take less than the ceiling plus one
\* longest call per thread.
OvershootBounded ==
    limits.seconds # None /\ limits.seconds > 0 => spent < limits.seconds + Overshoot

\* A tripped guard lets go: where no ceiling is set, an agent that goes on
\* making the same call is admitted again and again, since a refused call is
\* not recorded.
GuardLetsGo ==
    \A f \in Prints :
        limits.calls = None /\ limits.seconds = None =>
            []<>(\E t \in Threads : state[t] = "running" /\ print[t] = f)
=============================================================================
