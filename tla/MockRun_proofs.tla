--------------------------- MODULE MockRun_proofs ---------------------------
(***************************************************************************)
(* Proofs about execute_mock_run on a store that several processes share   *)
(* (MockRun, over EventPipeline): for every set of cells, any number of    *)
(* processes and wherever they die, a report names what its call did, and  *)
(* a pipeline refuses an event for a reason.                               *)
(***************************************************************************)
EXTENDS MockRun, FiniteSetTheorems, SequenceTheorems, WellFoundedInduction, TLAPS

-----------------------------------------------------------------------------
(* The reports of mock runs                                                  *)

MockRunSpec == MockRunInit /\ [][MockRunNext]_mockRunVars

Capacities == {0} \union UNION {c.capacities : c \in Cell}
Jobs ==
  [at : {"none", "between", "invoked", "mark", "end"}, start : Nat, target : Nat, done : Nat, capacity : Capacities,
   marks : SUBSET Nat, taken : SUBSET [name : Nat, of : Nat]]

(* The record of a process has its fields, whatever their values; and what a*)
(* caller depends on of them is the same.                                    *)
PipeFields ==
  {"at", "index", "context", "replay", "tick", "reconcile", "request", "started", "response", "own", "outcome",
   "news", "read"}
FieldsKept(r) == r = [field \in PipeFields |-> r[field]]
SameCall(r, s) == FieldsKept(s) /\ s.at = r.at /\ s.own = r.own /\ s.outcome = r.outcome

(* How far the call of p has come; a checkpoint it took of another state     *)
(* than it says; whose events are behind it.                                 *)
ReachedBy(p) == job[p].start + job[p].done
StrayMark(p) == \E c \in job[p].taken : c.of # c.name
OwnUpTo(p, n) == \A k \in job[p].start + 1 .. n : log[k].by = p

(* A commit of p that its call can take for the next one.  After a stray     *)
(* checkpoint another process's commit is in between.                        *)
OwnCommit(p, m) == m \in 1 .. Len(log) /\ log[m].by = p /\ m > ReachedBy(p) /\ (StrayMark(p) => m > ReachedBy(p) + 1)

(* The call of p: it has come no further than the log; up to there the events*)
(* are its own, except that the last of the schedule may be another's; and it*)
(* goes on only on a commit of its own, or on there being nothing left.      *)
CallInv(p) ==
  /\ ReachedBy(p) <= Len(log) /\ ReachedBy(p) <= job[p].target /\ job[p].target <= Events
  /\ job[p].at \in {"between", "mark", "end"} => pipe[p].at = "open" /\ pipe[p].outcome = None
  /\ job[p].at \in {"between", "invoked"} => ReachedBy(p) < job[p].target
  /\ job[p].at = "end" => ReachedBy(p) = job[p].target
  /\ job[p].at = "invoked" =>
       /\ pipe[p].at # "closed"
       /\ pipe[p].at = "committed" => OwnCommit(p, pipe[p].own)
       /\ pipe[p].outcome = "committed" => \E m \in Nat : OwnCommit(p, m)
       /\ pipe[p].outcome = "complete" => Len(log) >= Events
  /\ \/ OwnUpTo(p, ReachedBy(p)) /\ (StrayMark(p) => Len(log) > ReachedBy(p))
     \/ OwnUpTo(p, ReachedBy(p) - 1) /\ ReachedBy(p) = Events

PipeKept == pipe = [p \in Process |-> pipe[p]] /\ \A p \in Process : FieldsKept(pipe[p])
ReportsFit == \A x \in reports : x.next \in Nat /\ x.start \in Nat /\ x.next <= Len(log)

ReportInv ==
  /\ cell \in Cell /\ \E S : log \in Seq(S)
  /\ PipeKept
  /\ job \in [Process -> Jobs]
  /\ \A p \in Process : job[p].at # "none" => CallInv(p)
  /\ ReportsFit
  /\ ReportIsExact

(* The log is what it was, and maybe longer.                                 *)
LogGoesOn ==
  /\ \E S : log' \in Seq(S)
  /\ Len(log) <= Len(log') /\ \A k \in 1 .. Len(log) : log'[k] = log[k]

(* What a step of p leaves of the other processes.                           *)
OthersGoOn(p) == \A q \in Process \ {p} : SameCall(pipe[q], pipe'[q]) /\ job'[q] = job[q]

LEMMA LogHasLength == ASSUME NEW S, NEW s \in Seq(S) PROVE Len(s) \in Nat /\ DOMAIN s = 1 .. Len(s)
OBVIOUS

LEMMA EventsAreCounted == ASSUME MockRunValid, cell \in Cell PROVE Events \in Nat
BY PipelineAssumption DEF CellValid, Events

LEMMA LogStays == ASSUME ReportInv, UNCHANGED log PROVE LogGoesOn
<1>1. PICK S : log \in Seq(S)
  BY DEF ReportInv
<1>2. Len(log) \in Nat /\ log' \in Seq(S)
  BY <1>1
<1> QED
  BY <1>2 DEF LogGoesOn

LEMMA LogIsAppended ==
  ASSUME ReportInv, NEW x, log' = Append(log, x)
  PROVE  LogGoesOn /\ Len(log') = Len(log) + 1 /\ log'[Len(log')] = x /\ Len(log) \in Nat
<1>1. PICK S : log \in Seq(S)
  BY DEF ReportInv
<1>2. PICK R : R = S \union {x}
  OBVIOUS
<1>3. log \in Seq(R) /\ x \in R
  BY <1>1, <1>2
<1>4. /\ Append(log, x) \in Seq(R) /\ Len(Append(log, x)) = Len(log) + 1 /\ Len(log) \in Nat
      /\ Append(log, x)[Len(log) + 1] = x /\ \A k \in 1 .. Len(log) : Append(log, x)[k] = log[k]
  BY <1>3
<1> QED
  BY <1>4 DEF LogGoesOn

LEMMA Ends ==
  ASSUME NEW r, FieldsKept(r), NEW why
  PROVE  FieldsKept(Ended(r, why)) /\ Ended(r, why).at = "open" /\ Ended(r, why).outcome = why
<1> DEFINE r1 == [r EXCEPT !.at = "open"]
           r2 == [r1 EXCEPT !.outcome = why]
           r3 == [r2 EXCEPT !.request = None]
           r4 == [r3 EXCEPT !.started = 0]
           r5 == [r4 EXCEPT !.response = None]
           r6 == [r5 EXCEPT !.own = 0]
<1>1. Ended(r, why) = r6
  BY DEF Ended
<1>2. FieldsKept(r1) /\ r1.at = "open"
  BY SMT DEF FieldsKept, PipeFields
<1> HIDE DEF r1
<1>3. FieldsKept(r2) /\ r2.at = "open" /\ r2.outcome = why
  BY <1>2, SMT DEF FieldsKept, PipeFields
<1> HIDE DEF r2
<1>4. FieldsKept(r3) /\ r3.at = "open" /\ r3.outcome = why
  BY <1>3, SMT DEF FieldsKept, PipeFields
<1> HIDE DEF r3
<1>5. FieldsKept(r4) /\ r4.at = "open" /\ r4.outcome = why
  BY <1>4, SMT DEF FieldsKept, PipeFields
<1> HIDE DEF r4
<1>6. FieldsKept(r5) /\ r5.at = "open" /\ r5.outcome = why
  BY <1>5, SMT DEF FieldsKept, PipeFields
<1> HIDE DEF r5
<1>7. FieldsKept(r6) /\ r6.at = "open" /\ r6.outcome = why
  BY <1>6, SMT DEF FieldsKept, PipeFields
<1> HIDE DEF r6
<1> QED
  BY <1>1, <1>7

(* A move keeps what is not moved.                                           *)
LEMMA MovedTo ==
  ASSUME NEW r, FieldsKept(r), NEW at
  PROVE  LET s == [r EXCEPT !.at = at] IN FieldsKept(s) /\ s.at = at /\ s.own = r.own /\ s.outcome = r.outcome
BY SMT DEF FieldsKept, PipeFields

LEMMA OwnSet ==
  ASSUME NEW r, FieldsKept(r), NEW n
  PROVE  LET s == [r EXCEPT !.own = n] IN FieldsKept(s) /\ s.at = r.at /\ s.own = n /\ s.outcome = r.outcome
BY SMT DEF FieldsKept, PipeFields

(* A field that no caller looks at.                                          *)
LEMMA SetAside ==
  ASSUME NEW r, NEW s, SameCall(r, s), NEW v, NEW f \in PipeFields \ {"at", "own", "outcome"}
  PROVE  SameCall(r, [s EXCEPT ![f] = v])
<1>1. FieldsKept(s)
  BY DEF SameCall
<1>2. /\ FieldsKept([s EXCEPT ![f] = v])
      /\ \A g \in PipeFields \ {f} : [s EXCEPT ![f] = v][g] = s[g]
  BY <1>1 DEF FieldsKept
<1>3. "at" \in PipeFields \ {f} /\ "own" \in PipeFields \ {f} /\ "outcome" \in PipeFields \ {f}
  BY DEF PipeFields
<1> QED
  BY <1>2, <1>3 DEF SameCall

LEMMA TickedSame == ASSUME NEW r, FieldsKept(r) PROVE SameCall(r, Ticked(r))
<1>0. SameCall(r, r) /\ {"replay", "tick"} \subseteq PipeFields \ {"at", "own", "outcome"}
  BY DEF SameCall, PipeFields
<1>1. SameCall(r, [r EXCEPT !["replay"] = Tail(r.replay)])
  BY <1>0, SetAside
<1>2. SameCall(r, [r EXCEPT !["tick"] = r.tick + 1])
  BY <1>0, SetAside
<1> QED
  BY <1>1, <1>2 DEF Ticked

LEMMA NewsSame == ASSUME NEW r, FieldsKept(r) PROVE SameCall(r, [r EXCEPT !.news = TRUE])
<1>0. SameCall(r, r) /\ "news" \in PipeFields \ {"at", "own", "outcome"}
  BY DEF SameCall, PipeFields
<1>1. SameCall(r, [r EXCEPT !["news"] = TRUE])
  BY <1>0, SetAside
<1> QED
  BY <1>1

(* What Step and Wrote do to the processes.                                  *)
LEMMA Stepped ==
  ASSUME PipeKept, NEW p \in Process, NEW r, FieldsKept(r), Step(p, r) \/ Wrote(p, r)
  PROVE  PipeKept' /\ pipe'[p] = r /\ \A q \in Process \ {p} : SameCall(pipe[q], pipe'[q])
<1>0. \A q \in Process : SameCall(pipe[q], pipe[q]) /\ SameCall(pipe[q], [pipe[q] EXCEPT !.news = TRUE])
  BY NewsSame DEF PipeKept, SameCall
<1>1. CASE Step(p, r)
  <2>1. pipe' = [q \in Process |-> IF q = p THEN r ELSE pipe[q]]
    BY <1>1 DEF Step, PipeKept
  <2>2. \A q \in Process : pipe'[q] = IF q = p THEN r ELSE pipe[q]
    BY <2>1
  <2>3. pipe' = [q \in Process |-> pipe'[q]]
    BY <2>1, <2>2
  <2> QED
    BY <1>0, <2>2, <2>3 DEF PipeKept
<1>2. CASE Wrote(p, r)
  <2>1. \A q \in Process : pipe'[q] = IF q = p THEN r ELSE IF pipe[q].at = "closed" THEN pipe[q] ELSE [pipe[q] EXCEPT !.news = TRUE]
    BY <1>2 DEF Wrote
  <2>2. pipe' = [q \in Process |-> pipe'[q]]
    BY <1>2, <2>1 DEF Wrote
  <2>3. \A q \in Process \ {p} : SameCall(pipe[q], pipe'[q])
    BY <1>0, <2>1
  <2>4. \A q \in Process : FieldsKept(pipe'[q])
    BY <2>1, <2>3 DEF SameCall
  <2> QED
    BY <2>1, <2>2, <2>3, <2>4 DEF PipeKept
<1> QED
  BY <1>1, <1>2

(* What p does while it neither commits nor is done with a commit.           *)
AtWork == {"open", "prepared", "called", "answered", "landed"}
Refusals == {"reconciliation", "halted", "inconsistent", "input", "start", "unscripted", "unparsable", "failed"}
GoesOn(p) ==
  /\ PipeKept' /\ cell' = cell /\ log' = log
  /\ \A q \in Process \ {p} : SameCall(pipe[q], pipe'[q])
  /\ pipe'[p].at \in AtWork
  /\ \/ pipe'[p].outcome = pipe[p].outcome
     \/ pipe'[p].outcome \in Refusals
     \/ pipe'[p].outcome = "complete" /\ Len(log) = Events

LEMMA GoesOnWith ==
  ASSUME PipeKept, NEW p \in Process, NEW s, FieldsKept(s), Step(p, s) \/ Wrote(p, s), cell' = cell, log' = log,
         s.at \in AtWork, s.outcome = pipe[p].outcome \/ s.outcome \in Refusals
  PROVE  GoesOn(p)
BY Stepped DEF GoesOn

LEMMA RefusedGoesOn ==
  ASSUME PipeKept, NEW p \in Process, NEW s, FieldsKept(s), NEW why,
         Refuse(p, s, why), why \in Refusals \/ (why = "complete" /\ Len(log) = Events)
  PROVE  GoesOn(p)
<1>1. FieldsKept(Ended(s, why)) /\ Ended(s, why).at = "open" /\ Ended(s, why).outcome = why
  BY Ends
<1>2. Step(p, Ended(s, why)) /\ cell' = cell /\ log' = log
  BY DEF Refuse, store
<1>3. PipeKept' /\ pipe'[p] = Ended(s, why) /\ \A q \in Process \ {p} : SameCall(pipe[q], pipe'[q])
  BY <1>1, <1>2, Stepped
<1> QED
  BY <1>1, <1>2, <1>3 DEF GoesOn, AtWork

LEMMA MovedGoesOn ==
  ASSUME PipeKept, NEW p \in Process, NEW s, SameCall(pipe[p], s), NEW at \in AtWork,
         Step(p, [s EXCEPT !.at = at]) \/ Wrote(p, [s EXCEPT !.at = at]), cell' = cell, log' = log
  PROVE  GoesOn(p)
<1>1. PICK t : t = [s EXCEPT !.at = at]
  OBVIOUS
<1>2. FieldsKept(t) /\ t.at = at /\ t.outcome = pipe[p].outcome
  BY <1>1, MovedTo DEF SameCall
<1> QED
  BY <1>1, <1>2, GoesOnWith

LEMMA AttemptGoesOn ==
  ASSUME PipeKept, NEW p \in Process, NEW capacity, Attempt(p, capacity)
  PROVE  GoesOn(p)
<1> DEFINE r == [EnsureContext(Ticked(pipe[p])) EXCEPT !.read = ReadAgain(@), !.reconcile = FALSE]
           exposure == Exposed(capacity)
           input == InputOf(r.context, exposure)
           request == Request(input.view, Len(open.attempts) + 1)
           ready == [r EXCEPT !.request = request, !.started = Reading(pipe[p])]
           generated == IF open.phase = "sent" THEN Generate(cell.script, request) ELSE open.response
           resumed == IF open.phase = "sent" THEN "called" ELSE "answered"
<1>1. {"index", "context", "read", "reconcile", "request", "started", "response"} \subseteq PipeFields \ {"at", "own", "outcome"}
  BY DEF PipeFields
<1>2. SameCall(pipe[p], Ticked(pipe[p]))
  BY TickedSame DEF PipeKept
<1>3. SameCall(pipe[p], EnsureContext(Ticked(pipe[p])))
  <2> DEFINE t == Ticked(pipe[p])
             t1 == [t EXCEPT !["index"] = NextOrdinal]
             t2 == [t1 EXCEPT !["context"] = NextOrdinal]
  <2>1. EnsureContext(Ticked(pipe[p])) = t2
    BY DEF EnsureContext
  <2> HIDE DEF t
  <2>2. SameCall(pipe[p], t1)
    BY <1>1, <1>2, SetAside DEF t
  <2> HIDE DEF t1
  <2>3. SameCall(pipe[p], t2)
    BY <1>1, <2>2, SetAside
  <2> QED
    BY <2>1, <2>3
<1>4. SameCall(pipe[p], r)
  <2> DEFINE t == EnsureContext(Ticked(pipe[p]))
             t1 == [t EXCEPT !["read"] = ReadAgain(t.read)]
             t2 == [t1 EXCEPT !["reconcile"] = FALSE]
  <2>1. r = t2
    OBVIOUS
  <2> HIDE DEF t, r
  <2>2. SameCall(pipe[p], t1)
    BY <1>1, <1>3, SetAside DEF t
  <2> HIDE DEF t1
  <2>3. SameCall(pipe[p], t2)
    BY <1>1, <2>2, SetAside
  <2> QED
    BY <2>1, <2>3
<1> HIDE DEF r, exposure, input, request
<1>5. SameCall(pipe[p], ready)
  <2> DEFINE t1 == [r EXCEPT !["request"] = request]
             t2 == [t1 EXCEPT !["started"] = Reading(pipe[p])]
  <2>1. ready = t2
    OBVIOUS
  <2>2. SameCall(pipe[p], t1)
    BY <1>1, <1>4, SetAside
  <2> HIDE DEF t1
  <2>3. SameCall(pipe[p], t2)
    BY <1>1, <2>2, SetAside
  <2> QED
    BY <2>1, <2>3
<1> HIDE DEF ready, generated, resumed
<1>6. \/ Refuse(p, r, "inconsistent") \/ Refuse(p, r, "input") \/ Refuse(p, r, "start") \/ Refuse(p, r, "reconciliation")
      \/ Wrote(p, [ready EXCEPT !.at = "prepared"]) /\ UNCHANGED <<cell, log>>
      \/ Step(p, [ready EXCEPT !.at = "prepared"]) /\ UNCHANGED <<cell, log>>
      \/ Step(p, [ready EXCEPT !.at = resumed, !.response = generated]) /\ UNCHANGED <<cell, log>>
  BY DEF Attempt, r, exposure, input, request, ready, generated, resumed
<1>7. FieldsKept(r)
  BY <1>4 DEF SameCall
<1>8. CASE Refuse(p, r, "inconsistent") \/ Refuse(p, r, "input") \/ Refuse(p, r, "start") \/ Refuse(p, r, "reconciliation")
  BY <1>7, <1>8, RefusedGoesOn DEF Refusals
<1>9. CASE /\ UNCHANGED <<cell, log>>
           /\ Wrote(p, [ready EXCEPT !.at = "prepared"]) \/ Step(p, [ready EXCEPT !.at = "prepared"])
  <2>1. "prepared" \in AtWork
    BY DEF AtWork
  <2> QED
    BY <1>5, <1>9, <2>1, MovedGoesOn
<1>10. CASE Step(p, [ready EXCEPT !.at = resumed, !.response = generated]) /\ UNCHANGED <<cell, log>>
  <2> DEFINE a == [ready EXCEPT !.at = resumed]
             b == [a EXCEPT !["response"] = generated]
  <2>1. [ready EXCEPT !.at = resumed, !.response = generated] = b
    OBVIOUS
  <2>2. FieldsKept(a) /\ a.at = resumed /\ a.outcome = pipe[p].outcome
    BY <1>5, MovedTo DEF SameCall
  <2> HIDE DEF a
  <2>3. SameCall(a, b)
    BY <1>1, <2>2, SetAside DEF SameCall
  <2>4. resumed \in AtWork
    BY DEF resumed, AtWork
  <2> HIDE DEF b
  <2>5. FieldsKept(b) /\ b.at \in AtWork /\ b.outcome = pipe[p].outcome
    BY <2>2, <2>3, <2>4 DEF SameCall
  <2> QED
    BY <1>10, <2>1, <2>5, GoesOnWith
<1> QED
  BY <1>6, <1>8, <1>9, <1>10

LEMMA ExecuteGoesOn ==
  ASSUME PipeKept, NEW p \in Process, NEW capacity, Execute(p, capacity)
  PROVE  GoesOn(p)
<1>0. FieldsKept(pipe[p]) /\ SameCall(pipe[p], pipe[p])
  BY DEF PipeKept, SameCall
<1>1. CASE Refuse(p, [pipe[p] EXCEPT !.reconcile = FALSE], "reconciliation")
  <2>1. SameCall(pipe[p], [pipe[p] EXCEPT !["reconcile"] = FALSE])
    BY <1>0, SetAside DEF PipeFields
  <2> QED
    BY <1>1, <2>1, RefusedGoesOn DEF Refusals, SameCall
<1>2. CASE NextOrdinal = Events /\ Refuse(p, pipe[p], "complete")
  BY <1>0, <1>2, RefusedGoesOn DEF NextOrdinal
<1>3. CASE Refuse(p, pipe[p], "halted")
  BY <1>0, <1>3, RefusedGoesOn DEF Refusals
<1>4. CASE Step(p, [pipe[p] EXCEPT !.at = "landed"]) /\ UNCHANGED <<cell, log>>
  <2>1. "landed" \in AtWork
    BY DEF AtWork
  <2> QED
    BY <1>0, <1>4, <2>1, MovedGoesOn
<1>5. CASE Attempt(p, capacity)
  BY <1>5, AttemptGoesOn
<1> QED
  BY <1>1, <1>2, <1>3, <1>4, <1>5 DEF Execute

LEMMA StartGoesOn ==
  ASSUME PipeKept, NEW p \in Process, Start(p)
  PROVE  GoesOn(p)
<1>0. FieldsKept(pipe[p]) /\ SameCall(pipe[p], pipe[p]) /\ UNCHANGED <<cell, log>>
  BY DEF PipeKept, SameCall, Start
<1>1. CASE Wrote(p, Ended(pipe[p], "unscripted"))
  <2>1. PICK s : s = Ended(pipe[p], "unscripted")
    OBVIOUS
  <2>2. FieldsKept(s) /\ s.at = "open" /\ s.outcome = "unscripted"
    BY <1>0, <2>1, Ends
  <2> QED
    BY <1>0, <1>1, <2>1, <2>2, GoesOnWith DEF AtWork, Refusals
<1>2. CASE Proceed(p, "called", [pipe[p] EXCEPT !.response = Generate(cell.script, pipe[p].request)])
  <2> DEFINE s == [pipe[p] EXCEPT !["response"] = Generate(cell.script, pipe[p].request)]
  <2>1. SameCall(pipe[p], s)
    BY <1>0, SetAside DEF PipeFields
  <2>2. Proceed(p, "called", s)
    BY <1>2
  <2> HIDE DEF s
  <2>3. Wrote(p, [s EXCEPT !.at = "called"]) /\ "called" \in AtWork
    BY <2>2 DEF Proceed, AtWork
  <2> QED
    BY <1>0, <2>1, <2>3, MovedGoesOn
<1> QED
  BY <1>1, <1>2 DEF Start

LEMMA PersistGoesOn ==
  ASSUME PipeKept, NEW p \in Process, Persist(p)
  PROVE  GoesOn(p)
<1>0. FieldsKept(pipe[p]) /\ UNCHANGED <<cell, log>>
  BY DEF PipeKept, Persist
<1>1. CASE Step(p, Ended(pipe[p], "inconsistent"))
  <2>1. PICK s : s = Ended(pipe[p], "inconsistent")
    OBVIOUS
  <2>2. FieldsKept(s) /\ s.at = "open" /\ s.outcome = "inconsistent"
    BY <1>0, <2>1, Ends
  <2> QED
    BY <1>0, <1>1, <2>1, <2>2, GoesOnWith DEF AtWork, Refusals
<1>2. CASE Proceed(p, "answered", Ticked(pipe[p]))
  <2>1. SameCall(pipe[p], Ticked(pipe[p]))
    BY <1>0, TickedSame
  <2>2. Wrote(p, [Ticked(pipe[p]) EXCEPT !.at = "answered"]) /\ "answered" \in AtWork
    BY <1>2 DEF Proceed, AtWork
  <2> QED
    BY <1>0, <2>1, <2>2, MovedGoesOn
<1> QED
  BY <1>1, <1>2 DEF Persist

LEMMA FinishGoesOn ==
  ASSUME PipeKept, NEW p \in Process, Finish(p)
  PROVE  GoesOn(p)
<1>0. FieldsKept(pipe[p]) /\ SameCall(pipe[p], pipe[p]) /\ UNCHANGED <<cell, log>>
  BY DEF PipeKept, SameCall, Finish
<1>1. CASE Step(p, Ended(pipe[p], "unparsable"))
  <2>1. PICK s : s = Ended(pipe[p], "unparsable")
    OBVIOUS
  <2>2. FieldsKept(s) /\ s.at = "open" /\ s.outcome = "unparsable"
    BY <1>0, <2>1, Ends
  <2> QED
    BY <1>0, <1>1, <2>1, <2>2, GoesOnWith DEF AtWork, Refusals
<1>2. CASE Wrote(p, Ended(Ticked(pipe[p]), "failed"))
  <2>1. PICK s : s = Ended(Ticked(pipe[p]), "failed")
    OBVIOUS
  <2>2. FieldsKept(Ticked(pipe[p]))
    BY <1>0, TickedSame DEF SameCall
  <2>3. FieldsKept(s) /\ s.at = "open" /\ s.outcome = "failed"
    BY <2>1, <2>2, Ends
  <2> QED
    BY <1>0, <1>2, <2>1, <2>3, GoesOnWith DEF AtWork, Refusals
<1>3. CASE Proceed(p, "landed", pipe[p])
  <2>1. Wrote(p, [pipe[p] EXCEPT !.at = "landed"]) /\ "landed" \in AtWork
    BY <1>3 DEF Proceed, AtWork
  <2> QED
    BY <1>0, <2>1, MovedGoesOn
<1> QED
  BY <1>1, <1>2, <1>3 DEF Finish

(* A commit that is refused, and one that is made.                           *)
LEMMA CommitGoesOn ==
  ASSUME PipeKept, NEW p \in Process, Commit(p)
  PROVE  \/ GoesOn(p)
         \/ /\ PipeKept' /\ cell' = cell /\ \E x : x.by = p /\ log' = Append(log, x)
            /\ \A q \in Process \ {p} : SameCall(pipe[q], pipe'[q])
            /\ pipe'[p].at = "committed" /\ pipe'[p].own = Len(log') /\ pipe'[p].outcome = pipe[p].outcome
<1>0. FieldsKept(pipe[p]) /\ cell' = cell
  BY DEF PipeKept, Commit
<1>1. CASE Step(p, Ended(pipe[p], "inconsistent")) /\ log' = log
  <2>1. PICK s : s = Ended(pipe[p], "inconsistent")
    OBVIOUS
  <2>2. FieldsKept(s) /\ s.at = "open" /\ s.outcome = "inconsistent"
    BY <1>0, <2>1, Ends
  <2> QED
    BY <1>0, <1>1, <2>1, <2>2, GoesOnWith DEF AtWork, Refusals
<1>2. CASE /\ log' = Append(log, [event |-> Event, input |-> open.input, by |-> p])
           /\ Wrote(p, [pipe[p] EXCEPT !.at = "committed", !.own = Len(log'), !.request = None, !.started = 0, !.response = None])
  <2>1. \E x : x.by = p /\ log' = Append(log, x)
    <3>1. PICK x : x = [event |-> Event, input |-> open.input, by |-> p]
      OBVIOUS
    <3> QED
      BY <1>2, <3>1
  <2> DEFINE a == [pipe[p] EXCEPT !.at = "committed"]
             b == [a EXCEPT !.own = Len(log')]
             c == [b EXCEPT !["request"] = None]
             d == [c EXCEPT !["started"] = 0]
             e == [d EXCEPT !["response"] = None]
  <2>2. Wrote(p, e)
    BY <1>2
  <2>3. FieldsKept(a) /\ a.at = "committed" /\ a.outcome = pipe[p].outcome
    BY <1>0, MovedTo
  <2> HIDE DEF a
  <2>4. FieldsKept(b) /\ b.at = "committed" /\ b.own = Len(log') /\ b.outcome = pipe[p].outcome
    BY <2>3, OwnSet
  <2> HIDE DEF b
  <2>5. {"request", "started", "response"} \subseteq PipeFields \ {"at", "own", "outcome"} /\ SameCall(b, b)
    BY <2>4 DEF PipeFields, SameCall
  <2>6. SameCall(b, c)
    BY <2>5, SetAside
  <2> HIDE DEF c
  <2>7. SameCall(b, d)
    BY <2>5, <2>6, SetAside
  <2> HIDE DEF d
  <2>8. SameCall(b, e)
    BY <2>5, <2>7, SetAside
  <2> HIDE DEF e
  <2>9. PipeKept' /\ pipe'[p] = e /\ \A q \in Process \ {p} : SameCall(pipe[q], pipe'[q])
    BY <2>2, <2>8, Stepped DEF SameCall
  <2> QED
    BY <1>0, <2>1, <2>4, <2>8, <2>9 DEF SameCall
<1> QED
  BY <1>1, <1>2 DEF Commit

(* A commit is answered, as its own or as overtaken.                         *)
LEMMA AdvanceGoesOn ==
  ASSUME PipeKept, NEW p \in Process, AdvanceContext(p)
  PROVE  /\ PipeKept' /\ UNCHANGED <<cell, log>> /\ \A q \in Process \ {p} : SameCall(pipe[q], pipe'[q])
         /\ pipe'[p].at = "open" /\ pipe'[p].outcome \in {"overtaken", "inconsistent", "committed"}
<1>0. FieldsKept(pipe[p]) /\ SameCall(pipe[p], pipe[p])
  BY DEF PipeKept, SameCall
<1>1. PICK s, why : /\ Step(p, Ended(s, why)) /\ FieldsKept(s) /\ UNCHANGED <<cell, log>>
                    /\ why \in {"overtaken", "inconsistent", "committed"}
  <2>1. SameCall(pipe[p], [pipe[p] EXCEPT !["index"] = NextOrdinal]) /\ "context" \in PipeFields \ {"at", "own", "outcome"}
    BY <1>0, SetAside DEF PipeFields
  <2>2. FieldsKept([pipe[p] EXCEPT !.index = NextOrdinal])
    BY <2>1 DEF SameCall
  <2>3. FieldsKept(Extended(pipe[p]))
    <3> DEFINE a == [pipe[p] EXCEPT !["index"] = NextOrdinal]
               v == IF pipe[p].context = NoContext THEN pipe[p].context ELSE NextOrdinal
    <3>1. Extended(pipe[p]) = [a EXCEPT !["context"] = IF a.context = NoContext THEN a.context ELSE NextOrdinal]
      BY DEF Extended
    <3> HIDE DEF a
    <3>2. \A w : SameCall(pipe[p], [a EXCEPT !["context"] = w])
      BY <2>1, SetAside DEF a
    <3> QED
      BY <3>1, <3>2 DEF SameCall
  <2> QED
    BY <1>0, <2>2, <2>3 DEF AdvanceContext, store
<1>2. FieldsKept(Ended(s, why)) /\ Ended(s, why).at = "open" /\ Ended(s, why).outcome = why
  BY <1>1, Ends
<1> QED
  BY <1>1, <1>2, Stepped

(* The calls of the others, while the log goes on.                           *)
LEMMA OthersKeepTheirCalls ==
  ASSUME MockRunValid, ReportInv, LogGoesOn, cell' = cell, NEW q \in Process,
         SameCall(pipe[q], pipe'[q]), job'[q] = job[q], job[q].at # "none"
  PROVE  CallInv(q)'
<1>1. CallInv(q) /\ job[q] \in Jobs /\ Events \in Nat /\ Events' = Events
  BY EventsAreCounted DEF ReportInv, Events
<1>2. PICK S : log \in Seq(S)
  BY DEF ReportInv
<1>3. PICK R : log' \in Seq(R)
  BY DEF LogGoesOn
<1>4. /\ Len(log) \in Nat /\ Len(log') \in Nat /\ Len(log) <= Len(log')
      /\ \A k \in 1 .. Len(log) : log'[k] = log[k]
  BY <1>2, <1>3 DEF LogGoesOn
<1>5. job[q].start \in Nat /\ job[q].done \in Nat /\ job[q].target \in Nat /\ ReachedBy(q) \in Nat
  BY <1>1 DEF Jobs, ReachedBy
<1>6. ReachedBy(q)' = ReachedBy(q) /\ StrayMark(q)' = StrayMark(q)
  BY DEF ReachedBy, StrayMark
<1>7. ASSUME NEW n \in Int, n <= Len(log), OwnUpTo(q, n) PROVE OwnUpTo(q, n)'
  <2>1. ASSUME NEW k \in job[q].start + 1 .. n PROVE log'[k].by = q
    <3>1. k \in 1 .. Len(log)
      BY <1>4, <1>5, <1>7
    <3> QED
      BY <1>4, <1>7, <3>1 DEF OwnUpTo
  <2> QED
    BY <2>1 DEF OwnUpTo
<1>8. ASSUME NEW m, OwnCommit(q, m) PROVE OwnCommit(q, m)'
  BY <1>4, <1>6, <1>8 DEF OwnCommit
<1>9. pipe'[q].at = pipe[q].at /\ pipe'[q].own = pipe[q].own /\ pipe'[q].outcome = pipe[q].outcome
  BY DEF SameCall
<1>10. (job[q].at = "invoked" =>
         /\ pipe[q].at # "closed"
         /\ pipe[q].at = "committed" => OwnCommit(q, pipe[q].own)
         /\ pipe[q].outcome = "committed" => \E m \in Nat : OwnCommit(q, m)
         /\ pipe[q].outcome = "complete" => Len(log) >= Events)'
  <2>1. OwnCommit(q, pipe[q].own) => OwnCommit(q, pipe[q].own)'
    BY <1>8, <1>9
  <2>2. (\E m \in Nat : OwnCommit(q, m)) => \E m \in Nat : OwnCommit(q, m)'
    BY <1>8
  <2> QED
    BY <1>1, <1>4, <1>9, <2>1, <2>2 DEF CallInv
<1>11. (\/ OwnUpTo(q, ReachedBy(q)) /\ (StrayMark(q) => Len(log) > ReachedBy(q))
        \/ OwnUpTo(q, ReachedBy(q) - 1) /\ ReachedBy(q) = Events)'
  <2>1. CASE OwnUpTo(q, ReachedBy(q)) /\ (StrayMark(q) => Len(log) > ReachedBy(q))
    <3>1. OwnUpTo(q, ReachedBy(q))'
      BY <1>1, <1>5, <1>6, <1>7, <2>1 DEF CallInv
    <3> QED
      BY <1>4, <1>5, <1>6, <2>1, <3>1
  <2>2. CASE OwnUpTo(q, ReachedBy(q) - 1) /\ ReachedBy(q) = Events
    <3>1. OwnUpTo(q, ReachedBy(q) - 1)'
      BY <1>1, <1>4, <1>5, <1>6, <1>7, <2>2 DEF CallInv
    <3> QED
      BY <1>1, <1>6, <2>2, <3>1
  <2> QED
    BY <1>1, <2>1, <2>2 DEF CallInv
<1>12. (/\ ReachedBy(q) <= Len(log) /\ ReachedBy(q) <= job[q].target /\ job[q].target <= Events
        /\ job[q].at \in {"between", "mark", "end"} => pipe[q].at = "open" /\ pipe[q].outcome = None
        /\ job[q].at \in {"between", "invoked"} => ReachedBy(q) < job[q].target
        /\ job[q].at = "end" => ReachedBy(q) = job[q].target)'
  BY <1>1, <1>4, <1>5, <1>6, <1>9 DEF CallInv
<1> QED
  BY <1>10, <1>11, <1>12 DEF CallInv

(* The reports there are.                                                    *)
LEMMA ReportsStand ==
  ASSUME MockRunValid, ReportInv, LogGoesOn, cell' = cell, reports' = reports
  PROVE  ReportsFit' /\ ReportIsExact'
<1>1. PICK S : log \in Seq(S)
  BY DEF ReportInv
<1>2. PICK R : log' \in Seq(R)
  BY DEF LogGoesOn
<1>3. /\ Len(log) \in Nat /\ Len(log') \in Nat /\ Len(log) <= Len(log')
      /\ \A k \in 1 .. Len(log) : log'[k] = log[k]
  BY <1>1, <1>2 DEF LogGoesOn
<1>4. ReportsFit'
  <2>1. ASSUME NEW x \in reports PROVE x.next \in Nat /\ x.start \in Nat /\ x.next <= Len(log')
    BY <1>3 DEF ReportInv, ReportsFit
  <2> QED
    BY <2>1 DEF ReportsFit
<1>5. Events' = Events
  BY DEF Events
<1>6. ASSUME NEW x \in reports, NEW k \in x.start + 1 .. x.next PROVE log'[k] = log[k]
  <2>1. x.next \in Nat /\ x.start \in Nat /\ x.next <= Len(log)
    BY DEF ReportInv, ReportsFit
  <2>2. k \in 1 .. Len(log)
    BY <1>3, <1>6, <2>1
  <2> QED
    BY <1>3, <2>2
<1>7. ASSUME NEW x \in reports
      PROVE  /\ x.executed = x.next - x.start
             /\ x.next < Events =>
                  /\ \A k \in x.start + 1 .. x.next : log'[k].by = x.process
                  /\ \A c \in x.checkpoints : c.of = c.name
             /\ \A k \in x.start + 1 .. x.next - 1 : log'[k].by = x.process
  <2>1. /\ x.executed = x.next - x.start
        /\ x.next < Events =>
             /\ \A k \in x.start + 1 .. x.next : log[k].by = x.process
             /\ \A c \in x.checkpoints : c.of = c.name
        /\ \A k \in x.start + 1 .. x.next - 1 : log[k].by = x.process
    BY DEF ReportInv, ReportIsExact
  <2>2. \A k \in x.start + 1 .. x.next - 1 : k \in x.start + 1 .. x.next
    BY DEF ReportInv, ReportsFit
  <2> QED
    BY <1>6, <2>1, <2>2
<1>8. ReportIsExact'
  BY <1>5, <1>7 DEF ReportIsExact
<1> QED
  BY <1>4, <1>8

(* A step of p that keeps the call of p keeps everything.                    *)
LEMMA StepKeepsReports ==
  ASSUME MockRunValid, ReportInv, NEW p \in Process, LogGoesOn, cell' = cell, PipeKept', OthersGoOn(p),
         job' \in [Process -> Jobs], job'[p].at # "none" => CallInv(p)', reports' = reports
  PROVE  ReportInv'
<1>1. ASSUME NEW q \in Process, job'[q].at # "none" PROVE CallInv(q)'
  <2>1. CASE q = p
    BY <1>1, <2>1
  <2>2. CASE q # p
    <3>1. SameCall(pipe[q], pipe'[q]) /\ job'[q] = job[q]
      BY <2>2 DEF OthersGoOn
    <3>2. job[q].at # "none"
      BY <1>1, <3>1
    <3> QED
      BY <3>1, <3>2, OthersKeepTheirCalls
  <2> QED
    BY <2>1, <2>2
<1>2. (cell \in Cell)' /\ (\E S : log \in Seq(S))'
  BY DEF ReportInv, LogGoesOn
<1>3. ReportsFit' /\ ReportIsExact'
  BY ReportsStand
<1> QED
  BY <1>1, <1>2, <1>3 DEF ReportInv

LEMMA JobIs ==
  ASSUME ReportInv, NEW p \in Process
  PROVE  /\ job[p] \in Jobs /\ job[p].start \in Nat /\ job[p].done \in Nat /\ job[p].target \in Nat
         /\ job[p].capacity \in Capacities /\ job[p].marks \in SUBSET Nat /\ job[p].taken \in SUBSET [name : Nat, of : Nat]
         /\ ReachedBy(p) \in Nat /\ Len(log) \in Nat /\ FieldsKept(pipe[p])
<1>1. Len(log) \in Nat
  <2>1. PICK S : log \in Seq(S)
    BY DEF ReportInv
  <2> QED
    BY <2>1
<1> QED
  BY <1>1 DEF ReportInv, Jobs, ReachedBy, PipeKept

(* The job of one process is replaced.                                       *)
LEMMA JobIsSet ==
  ASSUME ReportInv, NEW p \in Process, NEW j \in Jobs, job' = [job EXCEPT ![p] = j]
  PROVE  job' \in [Process -> Jobs] /\ job'[p] = j /\ \A q \in Process \ {p} : job'[q] = job[q]
BY DEF ReportInv

LEMMA NoJobIs == NoJob \in Jobs /\ NoJob.at = "none"
<1>1. NoJob.capacity \in Capacities
  BY DEF NoJob, Capacities
<1> QED
  BY <1>1 DEF NoJob, Jobs

LEMMA OutcomeSet ==
  ASSUME NEW r, FieldsKept(r), NEW v
  PROVE  LET s == [r EXCEPT !.outcome = v] IN FieldsKept(s) /\ s.at = r.at /\ s.outcome = v
BY SMT DEF FieldsKept, PipeFields

LEMMA OutcomeIsCleared ==
  ASSUME PipeKept, NEW p \in Process, Step(p, [pipe[p] EXCEPT !.outcome = None])
  PROVE  /\ PipeKept' /\ pipe'[p].at = pipe[p].at /\ pipe'[p].outcome = None
         /\ \A q \in Process \ {p} : SameCall(pipe[q], pipe'[q])
<1>1. PICK s : s = [pipe[p] EXCEPT !.outcome = None]
  OBVIOUS
<1>2. FieldsKept(s) /\ s.at = pipe[p].at /\ s.outcome = None
  BY <1>1, OutcomeSet DEF PipeKept
<1>3. PipeKept' /\ pipe'[p] = s /\ \A q \in Process \ {p} : SameCall(pipe[q], pipe'[q])
  BY <1>1, <1>2, Stepped
<1> QED
  BY <1>2, <1>3

(* The call is there no longer.                                              *)
LEMMA RaisedKeepsReports ==
  ASSUME MockRunValid, ReportInv, NEW p \in Process, Raised(p), UNCHANGED <<cell, log, reports>>, PipeKept',
         \A q \in Process \ {p} : SameCall(pipe[q], pipe'[q])
  PROVE  ReportInv'
<1>1. job' \in [Process -> Jobs] /\ job'[p].at = "none" /\ \A q \in Process \ {p} : job'[q] = job[q]
  BY NoJobIs, JobIsSet DEF Raised
<1> QED
  BY <1>1, LogStays, StepKeepsReports DEF OthersGoOn

(* The job of a call that begins.                                            *)
NewJob(at, start, length, capacity, marks) ==
  [NoJob EXCEPT !.at = at, !.start = start, !.target = start + length, !.capacity = capacity, !.marks = marks]

LEMMA NewJobIs ==
  ASSUME NEW at \in {"end", "between"}, NEW start \in Nat, NEW length \in Nat, NEW capacity \in Capacities, NEW marks \in SUBSET Nat
  PROVE  LET j == NewJob(at, start, length, capacity, marks)
         IN j \in Jobs /\ j.at = at /\ j.start = start /\ j.target = start + length /\ j.done = 0 /\ j.taken = {}
<1>1. start + length \in Nat
  OBVIOUS
<1> QED
  BY <1>1 DEF NewJob, NoJob, Jobs

LEMMA BeginKeepsReports ==
  ASSUME MockRunValid, ReportInv, NEW p \in Process, NEW length \in Lengths, NEW marks \in Marks,
         NEW capacity \in cell.capacities, Begin(p, length, marks, capacity)
  PROVE  ReportInv'
<1> DEFINE at == IF length = 0 THEN "end" ELSE "between"
           asked == {NextOrdinal + k : k \in marks}
           j == NewJob(at, NextOrdinal, length, capacity, asked)
<1>1. /\ pipe[p].at = "open" /\ NextOrdinal + length <= Events /\ marks \subseteq 1 .. length
      /\ UNCHANGED <<cell, log, reports>> /\ job' = [job EXCEPT ![p] = j]
      /\ Step(p, [pipe[p] EXCEPT !.outcome = None])
  BY DEF Begin, store, NewJob
<1>2. length \in Nat /\ NextOrdinal \in Nat /\ Len(log) \in Nat /\ NextOrdinal = Len(log)
  BY JobIs DEF MockRunValid, NextOrdinal
<1>3. asked \in SUBSET Nat
  BY <1>1, <1>2
<1>4. capacity \in Capacities
  BY DEF ReportInv, Capacities
<1> HIDE DEF at, asked
<1>5. at \in {"end", "between"}
  BY DEF at
<1>6. /\ j \in Jobs /\ j.at = at /\ j.start = NextOrdinal /\ j.target = NextOrdinal + length /\ j.done = 0 /\ j.taken = {}
  <2> HIDE DEF j
  <2>1. PICK n \in Nat : n = NextOrdinal
    BY <1>2
  <2>2. j = NewJob(at, n, length, capacity, asked)
    BY <2>1 DEF j
  <2>3. LET x == NewJob(at, n, length, capacity, asked)
        IN x \in Jobs /\ x.at = at /\ x.start = n /\ x.target = n + length /\ x.done = 0 /\ x.taken = {}
    BY <1>2, <1>3, <1>4, <1>5, NewJobIs
  <2> QED
    BY <2>1, <2>2, <2>3
<1> HIDE DEF j
<1>7. job' \in [Process -> Jobs] /\ job'[p] = j /\ \A q \in Process \ {p} : job'[q] = job[q]
  BY <1>1, <1>6, JobIsSet
<1>8. PipeKept' /\ pipe'[p].at = "open" /\ pipe'[p].outcome = None /\ \A q \in Process \ {p} : SameCall(pipe[q], pipe'[q])
  BY <1>1, OutcomeIsCleared DEF ReportInv
<1>9. CallInv(p)'
  <2>1. ReachedBy(p)' = Len(log) /\ Len(log') = Len(log) /\ Events' = Events /\ job'[p].target = Len(log) + length
    BY <1>1, <1>2, <1>6, <1>7 DEF ReachedBy, Events
  <2>2. ~StrayMark(p)'
    BY <1>6, <1>7 DEF StrayMark
  <2>3. OwnUpTo(p, ReachedBy(p))'
    BY <1>2, <1>6, <1>7, <2>1 DEF OwnUpTo
  <2>4. length = 0 \/ length > 0
    BY <1>2
  <2> QED
    BY <1>1, <1>2, <1>6, <1>7, <1>8, <2>1, <2>2, <2>3, <2>4 DEF CallInv, at
<1> QED
  BY <1>1, <1>7, <1>8, <1>9, LogStays, StepKeepsReports DEF OthersGoOn

(* What p does inside execute() keeps a call that waits for it.              *)
LEMMA CallWaits ==
  ASSUME MockRunValid, ReportInv, NEW p \in Process, GoesOn(p), CallInv(p),
         job[p].at \in {"between", "invoked"}, job'[p] = [job[p] EXCEPT !.at = "invoked"]
  PROVE  CallInv(p)'
<1>1. /\ cell' = cell /\ log' = log /\ pipe'[p].at \in AtWork
      /\ \/ pipe'[p].outcome = pipe[p].outcome
         \/ pipe'[p].outcome \in Refusals
         \/ pipe'[p].outcome = "complete" /\ Len(log) = Events
  BY DEF GoesOn
<1>2. /\ job'[p].at = "invoked" /\ job'[p].start = job[p].start /\ job'[p].target = job[p].target
      /\ job'[p].done = job[p].done /\ job'[p].taken = job[p].taken
  BY JobIs DEF Jobs
<1>3. ReachedBy(p)' = ReachedBy(p) /\ StrayMark(p)' = StrayMark(p) /\ Events' = Events
  BY <1>1, <1>2 DEF ReachedBy, StrayMark, Events
<1>4. \A n : OwnUpTo(p, n)' <=> OwnUpTo(p, n)
  BY <1>1, <1>2 DEF OwnUpTo
<1>5. \A m : OwnCommit(p, m)' <=> OwnCommit(p, m)
  BY <1>1, <1>3 DEF OwnCommit
<1>6. pipe'[p].at # "closed" /\ pipe'[p].at # "committed"
  BY <1>1 DEF AtWork
<1>7. pipe'[p].outcome = "committed" => \E m \in Nat : OwnCommit(p, m)'
  <2>1. ASSUME pipe'[p].outcome = "committed" PROVE \E m \in Nat : OwnCommit(p, m)
    <3>1. pipe[p].outcome = "committed"
      BY <1>1, <2>1 DEF Refusals
    <3>2. job[p].at = "invoked"
      BY <3>1 DEF CallInv, MockRunValid
    <3> QED
      BY <3>1, <3>2 DEF CallInv
  <2> QED
    BY <1>5, <2>1
<1>8. pipe'[p].outcome = "complete" => Len(log) >= Events
  <2>1. ASSUME pipe'[p].outcome = "complete", pipe[p].outcome = "complete" PROVE Len(log) >= Events
    <3>1. job[p].at = "invoked"
      BY <2>1 DEF CallInv, MockRunValid
    <3> QED
      BY <2>1, <3>1 DEF CallInv
  <2>2. Events \in Nat /\ Len(log) \in Nat
    BY EventsAreCounted, JobIs DEF ReportInv
  <2> QED
    BY <1>1, <2>1, <2>2 DEF Refusals
<1>9. ReachedBy(p) < job[p].target
  BY DEF CallInv
<1>10. /\ ReachedBy(p) <= Len(log) /\ ReachedBy(p) <= job[p].target /\ job[p].target <= Events
       /\ \/ OwnUpTo(p, ReachedBy(p)) /\ (StrayMark(p) => Len(log) > ReachedBy(p))
          \/ OwnUpTo(p, ReachedBy(p) - 1) /\ ReachedBy(p) = Events
  BY DEF CallInv
<1>11. (\/ OwnUpTo(p, ReachedBy(p)) /\ (StrayMark(p) => Len(log) > ReachedBy(p))
        \/ OwnUpTo(p, ReachedBy(p) - 1) /\ ReachedBy(p) = Events)'
  BY <1>1, <1>3, <1>4, <1>10
<1> QED
  BY <1>1, <1>2, <1>3, <1>6, <1>7, <1>8, <1>9, <1>10, <1>11 DEF CallInv

LEMMA InvokeKeepsReports ==
  ASSUME MockRunValid, ReportInv, NEW p \in Process, Invoke(p)
  PROVE  ReportInv'
<1>1. PICK j : j = [job[p] EXCEPT !.at = "invoked"]
  OBVIOUS
<1>2. job[p].at = "between" /\ Execute(p, job[p].capacity) /\ job' = [job EXCEPT ![p] = j] /\ reports' = reports
  BY <1>1 DEF Invoke, Doing, Then
<1>3. j \in Jobs
  BY <1>1, JobIs DEF Jobs
<1>4. job' \in [Process -> Jobs] /\ job'[p] = j /\ \A q \in Process \ {p} : job'[q] = job[q]
  BY <1>2, <1>3, JobIsSet
<1>5. GoesOn(p) /\ CallInv(p)
  BY <1>2, ExecuteGoesOn DEF ReportInv
<1>6. CallInv(p)'
  BY <1>1, <1>2, <1>4, <1>5, CallWaits
<1>7. PipeKept' /\ cell' = cell /\ log' = log /\ OthersGoOn(p)
  BY <1>4, <1>5 DEF GoesOn, OthersGoOn
<1> QED
  BY <1>2, <1>4, <1>6, <1>7, LogStays, StepKeepsReports

LEMMA WorkKeepsReports ==
  ASSUME MockRunValid, ReportInv, NEW p \in Process, Work(p)
  PROVE  ReportInv'
<1>1. UNCHANGED <<job, reports>> /\ job' \in [Process -> Jobs] /\ PipeKept
  BY DEF Work, ReportInv
<1>2. job[p].at # "none" => job[p].at = "invoked" /\ CallInv(p)
  <2>1. pipe[p].at # "open"
    BY DEF Work, PipelineStep, Start, Persist, Finish, Commit, AdvanceContext, Holds
  <2>2. job[p].at # "none" => CallInv(p)
    BY DEF ReportInv
  <2>3. job[p].at \in {"none", "between", "invoked", "mark", "end"}
    BY JobIs DEF Jobs
  <2> QED
    BY <2>1, <2>2, <2>3 DEF CallInv
<1>3. CASE GoesOn(p)
  <2>1. ASSUME job[p].at # "none" PROVE CallInv(p)'
    <3>1. job'[p] = [job[p] EXCEPT !.at = "invoked"]
      <4>1. job[p].at = "invoked" /\ job[p] \in Jobs
        BY <1>2, <2>1, JobIs
      <4>2. job[p] = [job[p] EXCEPT !.at = "invoked"]
        BY <4>1 DEF Jobs
      <4> QED
        BY <1>1, <4>2
    <3> QED
      BY <1>2, <1>3, <2>1, <3>1, CallWaits
  <2>2. PipeKept' /\ cell' = cell /\ log' = log /\ OthersGoOn(p)
    BY <1>1, <1>3 DEF GoesOn, OthersGoOn
  <2> QED
    BY <1>1, <2>1, <2>2, LogStays, StepKeepsReports
<1>4. ASSUME PipeKept', cell' = cell, NEW x, x.by = p, log' = Append(log, x),
             \A q \in Process \ {p} : SameCall(pipe[q], pipe'[q]),
             pipe'[p].at = "committed", pipe'[p].own = Len(log'), pipe'[p].outcome = pipe[p].outcome
      PROVE  ReportInv'
  <2>1. LogGoesOn /\ Len(log') = Len(log) + 1 /\ log'[Len(log')] = x /\ Len(log) \in Nat
    BY <1>4, LogIsAppended
  <2>2. OthersGoOn(p)
    BY <1>1, <1>4 DEF OthersGoOn
  <2>3. ASSUME job[p].at # "none" PROVE CallInv(p)'
    <3>1. job[p].at = "invoked" /\ CallInv(p) /\ Events' = Events /\ Events \in Nat
      BY <1>2, <1>4, <2>3, EventsAreCounted DEF Events, ReportInv
    <3>2. ReachedBy(p)' = ReachedBy(p) /\ StrayMark(p)' = StrayMark(p) /\ ReachedBy(p) \in Nat
          /\ job[p].start \in Nat /\ job[p].target \in Nat
      BY <1>1, JobIs DEF ReachedBy, StrayMark
    <3>3. ReachedBy(p) < job[p].target /\ job[p].target <= Events /\ ReachedBy(p) <= Len(log)
      BY <3>1 DEF CallInv
    <3>4. OwnUpTo(p, ReachedBy(p)) /\ (StrayMark(p) => Len(log) > ReachedBy(p))
      BY <3>1, <3>2, <3>3 DEF CallInv
    <3>5. OwnUpTo(p, ReachedBy(p))'
      <4>1. ASSUME NEW k \in job[p].start + 1 .. ReachedBy(p) PROVE log'[k].by = p
        <5>1. k \in 1 .. Len(log)
          BY <2>1, <3>2, <3>3
        <5> QED
          BY <2>1, <3>4, <5>1 DEF OwnUpTo, LogGoesOn
      <4> QED
        BY <1>1, <3>2, <4>1 DEF OwnUpTo
    <3>6. OwnCommit(p, pipe[p].own)'
      <4>1. Len(log') \in 1 .. Len(log') /\ log'[Len(log')].by = p /\ Len(log') > ReachedBy(p)
        BY <1>4, <2>1, <3>2, <3>3
      <4>2. StrayMark(p) => Len(log') > ReachedBy(p) + 1
        BY <2>1, <3>2, <3>4
      <4> QED
        BY <1>4, <3>2, <4>1, <4>2 DEF OwnCommit
    <3>7. pipe'[p].outcome = "committed" => \E m \in Nat : OwnCommit(p, m)'
      <4>1. Len(log') \in Nat
        BY <2>1
      <4> QED
        BY <1>4, <3>6, <4>1
    <3>8. pipe'[p].outcome = "complete" => Len(log') >= Events
      BY <1>4, <2>1, <3>1 DEF CallInv
    <3>9. StrayMark(p)' => Len(log') > ReachedBy(p)
      BY <2>1, <3>2, <3>4
    <3> QED
      BY <1>1, <1>4, <2>1, <3>1, <3>2, <3>3, <3>5, <3>6, <3>7, <3>8, <3>9 DEF CallInv
  <2> QED
    BY <1>1, <1>4, <2>1, <2>2, <2>3, StepKeepsReports
<1>5. CASE AdvanceContext(p)
  <2>1. /\ PipeKept' /\ UNCHANGED <<cell, log>> /\ \A q \in Process \ {p} : SameCall(pipe[q], pipe'[q])
        /\ pipe'[p].at = "open" /\ pipe'[p].outcome \in {"overtaken", "inconsistent", "committed"}
    BY <1>1, <1>5, AdvanceGoesOn
  <2>2. OthersGoOn(p)
    BY <1>1, <2>1 DEF OthersGoOn
  <2>3. ASSUME job[p].at # "none" PROVE CallInv(p)'
    <3>1. job[p].at = "invoked" /\ CallInv(p) /\ pipe[p].at = "committed"
      BY <1>2, <1>5, <2>3 DEF AdvanceContext
    <3>2. OwnCommit(p, pipe[p].own) /\ pipe[p].own \in Nat
      <4>1. OwnCommit(p, pipe[p].own)
        BY <3>1 DEF CallInv
      <4> QED
        BY <4>1, JobIs DEF OwnCommit
    <3>3. ReachedBy(p)' = ReachedBy(p) /\ StrayMark(p)' = StrayMark(p) /\ Events' = Events
      BY <1>1, <2>1 DEF ReachedBy, StrayMark, Events
    <3>4. (\A n : OwnUpTo(p, n)' <=> OwnUpTo(p, n)) /\ \A m : OwnCommit(p, m)' <=> OwnCommit(p, m)
      BY <1>1, <2>1, <3>3 DEF OwnUpTo, OwnCommit
    <3>5. (\E m \in Nat : OwnCommit(p, m))'
      BY <3>2, <3>4
    <3>6. (\/ OwnUpTo(p, ReachedBy(p)) /\ (StrayMark(p) => Len(log) > ReachedBy(p))
           \/ OwnUpTo(p, ReachedBy(p) - 1) /\ ReachedBy(p) = Events)'
      BY <2>1, <3>1, <3>3, <3>4 DEF CallInv
    <3>7. /\ ReachedBy(p) <= Len(log) /\ ReachedBy(p) <= job[p].target /\ job[p].target <= Events
          /\ ReachedBy(p) < job[p].target
      BY <3>1 DEF CallInv
    <3> QED
      BY <1>1, <2>1, <3>1, <3>3, <3>5, <3>6, <3>7 DEF CallInv
  <2> QED
    BY <1>1, <2>1, <2>2, <2>3, LogStays, StepKeepsReports
<1> QED
  BY <1>1, <1>3, <1>4, <1>5, StartGoesOn, PersistGoesOn, FinishGoesOn, CommitGoesOn DEF Work, PipelineStep

LEMMA AfterInvocationKeepsReports ==
  ASSUME MockRunValid, ReportInv, NEW p \in Process, AfterInvocation(p)
  PROVE  ReportInv'
<1> DEFINE at == IF NextOrdinal \in job[p].marks THEN "mark"
                 ELSE IF NextOrdinal = job[p].target THEN "end" ELSE "between"
<1>1. /\ job[p].at = "invoked" /\ pipe[p].at = "open" /\ UNCHANGED <<cell, log, reports>> /\ PipeKept
      /\ NextOrdinal = Len(log)
  BY DEF AfterInvocation, Doing, store, ReportInv, NextOrdinal
<1>2. CASE Raised(p) /\ UNCHANGED pipe
  <2>1. PipeKept' /\ \A q \in Process \ {p} : SameCall(pipe[q], pipe'[q])
    BY <1>1, <1>2 DEF PipeKept, SameCall
  <2> QED
    BY <1>1, <1>2, <2>1, RaisedKeepsReports
<1>3. CASE /\ pipe[p].outcome \in {"committed", "complete"} /\ NextOrdinal = job[p].start + job[p].done + 1
           /\ job' = [job EXCEPT ![p].done = @ + 1, ![p].at = at]
           /\ Step(p, [pipe[p] EXCEPT !.outcome = None])
  <2> HIDE DEF at
  <2>0. CallInv(p) /\ Events \in Nat /\ Events' = Events
    BY <1>1, EventsAreCounted DEF ReportInv, Events
  <2>1. PICK j : j = [job[p] EXCEPT !.done = @ + 1, !.at = at]
    OBVIOUS
  <2>2. job[p] \in Jobs /\ job[p].done + 1 \in Nat /\ job[p].start \in Nat /\ job[p].target \in Nat /\ Len(log) \in Nat
        /\ ReachedBy(p) \in Nat /\ job[p].done \in Nat
    BY JobIs
  <2>3. at \in {"mark", "end", "between"}
    BY DEF at
  <2>4. /\ j \in Jobs /\ j.at = at /\ j.done = job[p].done + 1 /\ j.start = job[p].start /\ j.target = job[p].target
        /\ j.taken = job[p].taken
    BY <2>1, <2>2, <2>3 DEF Jobs
  <2>5. job' = [job EXCEPT ![p] = j]
    BY <1>3, <2>1
  <2>6. job' \in [Process -> Jobs] /\ job'[p] = j /\ \A q \in Process \ {p} : job'[q] = job[q]
    BY <2>4, <2>5, JobIsSet
  <2>7. PipeKept' /\ pipe'[p].at = "open" /\ pipe'[p].outcome = None /\ \A q \in Process \ {p} : SameCall(pipe[q], pipe'[q])
    BY <1>1, <1>3, OutcomeIsCleared
  <2>8. ReachedBy(p)' = ReachedBy(p) + 1 /\ Len(log) = ReachedBy(p) + 1 /\ StrayMark(p)' = StrayMark(p)
        /\ job'[p].start = job[p].start /\ job'[p].target = job[p].target /\ job'[p].at = at
    BY <1>1, <1>3, <2>2, <2>4, <2>6 DEF ReachedBy, StrayMark
  <2>9. ReachedBy(p) < job[p].target /\ job[p].target <= Events /\ OwnUpTo(p, ReachedBy(p))
    BY <1>1, <2>0, <2>2 DEF CallInv
  <2>10. ASSUME pipe[p].outcome = "committed" PROVE CallInv(p)'
    <3>1. PICK m \in Nat : OwnCommit(p, m)
      BY <1>1, <2>0, <2>10 DEF CallInv
    <3>2. m = ReachedBy(p) + 1 /\ log[m].by = p /\ ~StrayMark(p)
      BY <2>2, <2>8, <3>1 DEF OwnCommit
    <3>3. \A k \in job[p].start + 1 .. ReachedBy(p) + 1 : log[k].by = p
      BY <2>2, <2>9, <3>2 DEF OwnUpTo
    <3>4. OwnUpTo(p, ReachedBy(p))'
      BY <1>1, <2>8, <3>3 DEF OwnUpTo
    <3> QED
      BY <1>1, <2>0, <2>2, <2>3, <2>7, <2>8, <2>9, <3>2, <3>4 DEF CallInv, at
  <2>11. ASSUME pipe[p].outcome = "complete" PROVE CallInv(p)'
    <3>1. Len(log) >= Events
      BY <1>1, <2>0, <2>11 DEF CallInv
    <3>2. ReachedBy(p)' = Events /\ job[p].target = Events
      BY <2>0, <2>2, <2>8, <2>9, <3>1
    <3>3. ReachedBy(p)' - 1 = ReachedBy(p)
      BY <2>2, <2>8
    <3>4. OwnUpTo(p, ReachedBy(p) - 1)'
      BY <1>1, <2>8, <2>9, <3>3 DEF OwnUpTo
    <3> QED
      BY <1>1, <2>0, <2>2, <2>3, <2>7, <2>8, <2>9, <3>2, <3>4 DEF CallInv, at
  <2>12. OthersGoOn(p) /\ CallInv(p)'
    BY <1>3, <2>6, <2>7, <2>10, <2>11 DEF OthersGoOn
  <2> QED
    BY <1>1, <2>6, <2>7, <2>12, LogStays, StepKeepsReports
<1> QED
  BY <1>2, <1>3 DEF AfterInvocation

LEMMA MarkKeepsReports ==
  ASSUME MockRunValid, ReportInv, NEW p \in Process, Mark(p)
  PROVE  ReportInv'
<1> DEFINE name == job[p].start + job[p].done
           at == IF name = job[p].target THEN "end" ELSE "between"
           taken == job[p].taken \union {[name |-> name, of |-> NextOrdinal]}
<1>1. /\ job[p].at = "mark" /\ UNCHANGED <<cell, log, pipe, reports>> /\ PipeKept /\ NextOrdinal = Len(log)
      /\ job' = [job EXCEPT ![p].taken = @ \union {[name |-> name, of |-> NextOrdinal]}, ![p].at = at]
  BY DEF Mark, Doing, pipelineVars, store, ReportInv, NextOrdinal
<1>2. PICK j : j = [job[p] EXCEPT !.taken = taken, !.at = at]
  OBVIOUS
<1>3. /\ CallInv(p) /\ job[p] \in Jobs /\ name = ReachedBy(p) /\ name \in Nat /\ Len(log) \in Nat
      /\ job[p].target \in Nat /\ job[p].start \in Nat /\ taken \in SUBSET [name : Nat, of : Nat]
  BY <1>1, JobIs DEF ReportInv, ReachedBy
<1>4. job' = [job EXCEPT ![p] = j]
  BY <1>1, <1>2
<1>5. at \in {"end", "between"} /\ (at = "end" => ReachedBy(p) = job[p].target) /\ (at = "between" => ReachedBy(p) # job[p].target)
  BY <1>3
<1>6. \A c \in taken : c \in job[p].taken \/ (c.of = Len(log) /\ c.name = ReachedBy(p))
  BY <1>1, <1>3
<1> HIDE DEF at, taken, name
<1>7. /\ j \in Jobs /\ j.at = at /\ j.done = job[p].done /\ j.start = job[p].start /\ j.target = job[p].target /\ j.taken = taken
  BY <1>2, <1>3, <1>5 DEF Jobs
<1>8. job' \in [Process -> Jobs] /\ job'[p] = j /\ \A q \in Process \ {p} : job'[q] = job[q]
  BY <1>4, <1>7, JobIsSet
<1>9. PipeKept' /\ OthersGoOn(p)
  BY <1>1, <1>8 DEF PipeKept, SameCall, OthersGoOn
<1>10. CallInv(p)'
  <2>1. ReachedBy(p)' = ReachedBy(p) /\ Events' = Events /\ \A n : OwnUpTo(p, n)' <=> OwnUpTo(p, n)
    BY <1>1, <1>7, <1>8 DEF ReachedBy, Events, OwnUpTo
  <2>2. StrayMark(p)' => StrayMark(p) \/ Len(log) # ReachedBy(p)
    BY <1>6, <1>7, <1>8 DEF StrayMark
  <2>3. ReachedBy(p) <= Len(log) /\ ReachedBy(p) <= job[p].target /\ job[p].target <= Events
        /\ pipe[p].at = "open" /\ pipe[p].outcome = None
    BY <1>1, <1>3 DEF CallInv
  <2>4. \/ OwnUpTo(p, ReachedBy(p)) /\ (StrayMark(p) => Len(log) > ReachedBy(p))
        \/ OwnUpTo(p, ReachedBy(p) - 1) /\ ReachedBy(p) = Events
    BY <1>3 DEF CallInv
  <2>5. (StrayMark(p) => Len(log) > ReachedBy(p)) => (StrayMark(p)' => Len(log) > ReachedBy(p))
    BY <1>3, <2>2, <2>3
  <2>6. (\/ OwnUpTo(p, ReachedBy(p)) /\ (StrayMark(p) => Len(log) > ReachedBy(p))
         \/ OwnUpTo(p, ReachedBy(p) - 1) /\ ReachedBy(p) = Events)'
    BY <1>1, <2>1, <2>4, <2>5
  <2>7. at = "between" => ReachedBy(p) < job[p].target
    BY <1>3, <1>5, <2>3
  <2> QED
    BY <1>1, <1>5, <1>7, <1>8, <2>1, <2>3, <2>6, <2>7 DEF CallInv
<1> QED
  BY <1>1, <1>8, <1>9, <1>10, LogStays, StepKeepsReports

LEMMA EndKeepsReports ==
  ASSUME MockRunValid, ReportInv, NEW p \in Process, End(p)
  PROVE  ReportInv'
<1>1. /\ job[p].at = "end" /\ Raised(p) /\ UNCHANGED <<cell, log, pipe>> /\ PipeKept /\ NextOrdinal = Len(log)
  BY DEF End, Doing, pipelineVars, store, ReportInv, NextOrdinal
<1>2. PipeKept' /\ \A q \in Process \ {p} : SameCall(pipe[q], pipe'[q])
  BY <1>1 DEF PipeKept, SameCall
<1>3. CASE reports' = reports
  BY <1>1, <1>2, <1>3, RaisedKeepsReports
<1>4. CASE /\ NextOrdinal = job[p].target
           /\ reports' = reports \union {[process |-> p, start |-> job[p].start, next |-> NextOrdinal,
                                          executed |-> job[p].done, checkpoints |-> job[p].taken]}
  <2> DEFINE x == [process |-> p, start |-> job[p].start, next |-> NextOrdinal, executed |-> job[p].done, checkpoints |-> job[p].taken]
  <2>0. /\ x.process = p /\ x.start = job[p].start /\ x.next = Len(log) /\ x.executed = job[p].done
        /\ x.checkpoints = job[p].taken /\ reports' = reports \union {x}
    BY <1>1, <1>4
  <2> HIDE DEF x
  <2>1. /\ CallInv(p) /\ job[p].start \in Nat /\ job[p].done \in Nat /\ job[p].target \in Nat /\ Len(log) \in Nat
        /\ Events \in Nat /\ Events' = Events /\ Len(log') = Len(log)
    BY <1>1, JobIs, EventsAreCounted DEF ReportInv, Events
  <2>2. ReachedBy(p) = Len(log) /\ Len(log) = job[p].start + job[p].done
    BY <1>1, <1>4, <2>1 DEF CallInv, ReachedBy
  <2>3. ReportsFit'
    BY <1>1, <2>0, <2>1 DEF ReportInv, ReportsFit
  <2>4. /\ x.executed = x.next - x.start
        /\ x.next < Events =>
             /\ \A k \in x.start + 1 .. x.next : log[k].by = x.process
             /\ \A c \in x.checkpoints : c.of = c.name
        /\ \A k \in x.start + 1 .. x.next - 1 : log[k].by = x.process
    <3>1. x.executed = x.next - x.start
      BY <2>0, <2>1, <2>2
    <3>2. CASE OwnUpTo(p, ReachedBy(p)) /\ (StrayMark(p) => Len(log) > ReachedBy(p))
      <4>1. ~StrayMark(p)
        BY <2>1, <2>2, <3>2
      <4>2. \A k \in x.start + 1 .. x.next : log[k].by = x.process
        BY <2>0, <2>2, <3>2 DEF OwnUpTo
      <4>3. \A k \in x.start + 1 .. x.next - 1 : k \in x.start + 1 .. x.next
        BY <2>0, <2>1
      <4> QED
        BY <2>0, <3>1, <4>1, <4>2, <4>3 DEF StrayMark
    <3>3. CASE OwnUpTo(p, ReachedBy(p) - 1) /\ ReachedBy(p) = Events
      <4>1. ~(x.next < Events)
        BY <2>0, <2>1, <2>2, <3>3
      <4> QED
        BY <2>0, <2>2, <3>1, <3>3, <4>1 DEF OwnUpTo
    <3> QED
      BY <2>1, <3>2, <3>3 DEF CallInv
  <2>5. ReportIsExact'
    BY <1>1, <2>0, <2>1, <2>4 DEF ReportInv, ReportIsExact
  <2>6. job' \in [Process -> Jobs] /\ job'[p].at = "none" /\ \A q \in Process \ {p} : job'[q] = job[q]
    BY <1>1, NoJobIs, JobIsSet DEF Raised
  <2>7. LogGoesOn
    BY <1>1, LogStays
  <2>8. ASSUME NEW q \in Process, job'[q].at # "none" PROVE CallInv(q)'
    <3>1. q # p /\ job'[q] = job[q]
      BY <2>6, <2>8
    <3> QED
      BY <1>1, <1>2, <2>7, <2>8, <3>1, OthersKeepTheirCalls
  <2> QED
    BY <1>1, <1>2, <2>3, <2>5, <2>6, <2>7, <2>8 DEF ReportInv, LogGoesOn
<1> QED
  BY <1>3, <1>4 DEF End

LEMMA ClosedIsKept == FieldsKept(Closed) /\ Closed.at = "closed"
BY SMT DEF FieldsKept, PipeFields, Closed

LEMMA DieKeepsReports ==
  ASSUME MockRunValid, ReportInv, NEW p \in Process, Die(p)
  PROVE  ReportInv'
<1>1. Raised(p) /\ UNCHANGED <<cell, log, reports>> /\ Step(p, Closed) /\ PipeKept
  BY DEF Die, Crash, ReportInv
<1>2. PipeKept' /\ \A q \in Process \ {p} : SameCall(pipe[q], pipe'[q])
  BY <1>1, ClosedIsKept, Stepped
<1> QED
  BY <1>1, <1>2, RaisedKeepsReports

LEMMA RestartKeepsReports ==
  ASSUME MockRunValid, ReportInv, NEW p \in Process, Restart(p)
  PROVE  ReportInv'
<1>1. PICK reconcile \in BOOLEAN : Reopen(p, reconcile) /\ UNCHANGED <<job, reports, runs>>
  BY DEF Restart
<1> DEFINE replay == IF InProgress THEN <<open.started>> ELSE <<>>
           tick == stamp + IF reconcile THEN 2 ELSE 1
           opened == [Closed EXCEPT !.at = "open"]
           a == [opened EXCEPT !["reconcile"] = reconcile]
           b == [a EXCEPT !["replay"] = replay]
           s == [b EXCEPT !["tick"] = tick]
<1>2. pipe[p].at = "closed" /\ Step(p, s) /\ UNCHANGED <<cell, log>> /\ PipeKept
  BY <1>1 DEF Reopen, store, ReportInv
<1>3. FieldsKept(s)
  <2>1. {"reconcile", "replay", "tick"} \subseteq PipeFields \ {"at", "own", "outcome"}
    BY DEF PipeFields
  <2> HIDE DEF replay, tick
  <2>2. FieldsKept(opened)
    BY ClosedIsKept, MovedTo
  <2> HIDE DEF opened
  <2>3. SameCall(opened, opened)
    BY <2>2 DEF SameCall
  <2>4. SameCall(opened, a)
    BY <2>1, <2>3, SetAside
  <2> HIDE DEF a
  <2>5. SameCall(opened, b)
    BY <2>1, <2>4, SetAside
  <2> HIDE DEF b
  <2>6. SameCall(opened, s)
    BY <2>1, <2>5, SetAside
  <2> QED
    BY <2>6 DEF SameCall
<1> HIDE DEF s
<1>4. PipeKept' /\ OthersGoOn(p)
  BY <1>1, <1>2, <1>3, Stepped DEF OthersGoOn
<1>5. job[p].at = "none" /\ job' \in [Process -> Jobs] /\ job'[p] = job[p]
  <2>1. job[p].at \in {"none", "between", "invoked", "mark", "end"}
    BY JobIs DEF Jobs
  <2>2. job[p].at # "none" => CallInv(p)
    BY DEF ReportInv
  <2> QED
    BY <1>1, <1>2, <2>1, <2>2 DEF CallInv, ReportInv
<1> QED
  BY <1>1, <1>2, <1>4, <1>5, LogStays, StepKeepsReports

LEMMA AuthorizeKeepsReports ==
  ASSUME MockRunValid, ReportInv, AuthorizeRetry
  PROVE  ReportInv'
<1>1. /\ pipe' = [q \in Process |-> IF pipe[q].at = "closed" THEN pipe[q] ELSE [pipe[q] EXCEPT !.news = TRUE]]
      /\ UNCHANGED <<cell, log, job, reports>> /\ PipeKept
  BY DEF AuthorizeRetry, Authorize, ReportInv
<1>2. \A q \in Process : SameCall(pipe[q], pipe'[q])
  BY <1>1, NewsSame DEF PipeKept, SameCall
<1>3. PipeKept'
  <2>1. pipe' = [q \in Process |-> pipe'[q]]
    BY <1>1
  <2> QED
    BY <1>2, <2>1 DEF PipeKept, SameCall
<1>4. LogGoesOn
  BY <1>1, LogStays
<1>5. ASSUME NEW q \in Process, job'[q].at # "none" PROVE CallInv(q)'
  BY <1>1, <1>2, <1>4, <1>5, OthersKeepTheirCalls
<1>6. ReportsFit' /\ ReportIsExact'
  BY <1>1, <1>4, ReportsStand
<1> QED
  BY <1>1, <1>3, <1>4, <1>5, <1>6 DEF ReportInv, LogGoesOn

LEMMA ReportsBegin == ASSUME MockRunValid, MockRunInit PROVE ReportInv
<1>1. cell \in Cell /\ log = <<>> /\ pipe = [p \in Process |-> Closed] /\ job = [p \in Process |-> NoJob] /\ reports = {}
  BY DEF MockRunInit, PipelineInit, StoreInit
<1>2. \E S : log \in Seq(S)
  <2>1. <<>> \in Seq({})
    OBVIOUS
  <2> QED
    BY <1>1, <2>1
<1>3. PipeKept
  BY <1>1, ClosedIsKept DEF PipeKept
<1>4. job \in [Process -> Jobs] /\ \A p \in Process : job[p].at = "none"
  BY <1>1, NoJobIs
<1>5. ReportsFit /\ ReportIsExact
  BY <1>1 DEF ReportsFit, ReportIsExact
<1> QED
  BY <1>1, <1>2, <1>3, <1>4, <1>5 DEF ReportInv

LEMMA ReportsGoOn == ASSUME MockRunValid, ReportInv, [MockRunNext]_mockRunVars PROVE ReportInv'
<1>1. CASE AuthorizeRetry
  BY <1>1, AuthorizeKeepsReports
<1>2. ASSUME NEW p \in Process, MockRunStep(p) PROVE ReportInv'
  BY <1>2, RestartKeepsReports, BeginKeepsReports, InvokeKeepsReports, WorkKeepsReports, AfterInvocationKeepsReports,
     MarkKeepsReports, EndKeepsReports, DieKeepsReports DEF MockRunStep
<1>3. CASE UNCHANGED mockRunVars
  <2>1. UNCHANGED <<cell, log, pipe, job, reports>>
    BY <1>3 DEF mockRunVars, pipelineVars, store
  <2>2. (\A p \in Process : job[p].at # "none" => CallInv(p))'
    <3>1. \A p \in Process : SameCall(pipe[p], pipe'[p])
      BY <2>1 DEF ReportInv, PipeKept, SameCall
    <3> QED
      BY <2>1, <3>1, LogStays, OthersKeepTheirCalls
  <2>3. PipeKept'
    BY <2>1 DEF ReportInv, PipeKept
  <2>4. ReportsFit' /\ ReportIsExact'
    BY <2>1, LogStays, ReportsStand
  <2> QED
    BY <2>1, <2>2, <2>3, <2>4 DEF ReportInv
<1> QED
  BY <1>1, <1>2, <1>3 DEF MockRunNext

(* What a report of execute_mock_run (mock_run.py) names is what the call    *)
(* did, however many processes run, die and get in between: its events are   *)
(* its own, each checkpoint is of the ordinal it is named for; and only for  *)
(* the last event of the schedule may another's commit stand in for its own. *)
THEOREM ReportStaysExact ==
  ASSUME MockRunValid
  PROVE  MockRunSpec => []ReportIsExact
<1>1. MockRunInit => ReportInv
  BY ReportsBegin
<1>2. ReportInv /\ [MockRunNext]_mockRunVars => ReportInv'
  BY ReportsGoOn
<1>3. ReportInv => ReportIsExact
  BY DEF ReportInv
<1> QED
  BY <1>1, <1>2, <1>3, PTL DEF MockRunSpec

-----------------------------------------------------------------------------
(* Why a pipeline refuses                                                    *)

Busy == {"prepared", "called", "answered", "landed"}
Phases == {"none", "pending", "sent", "answered", "failed", "authorized", "succeeded"}
Places == {"closed", "open", "committed"} \union Busy

(* An answer that nobody can finish: the event stays where it is.            *)
Stuck == open.phase = "answered" /\ open.response.answer = "oversized"

(* The input of the current event is what anybody would prepare for it with  *)
(* that capacity, until it is committed.                                     *)
OpenFields == {"phase", "attempts", "input", "request", "started", "response"}
OpenKept == open = [field \in OpenFields |-> open[field]]
OpenInv ==
  /\ OpenKept
  /\ open.phase \in Phases
  /\ open.phase = "none" => open.input = None
  /\ open.phase # "none" => open.input = InputOf(NextOrdinal, Exposed(open.input.exposure.capacity))

(* Whoever is at work holds the lease, and the journal is where it left it.  *)
AtItsPlace(p) ==
  LET r == pipe[p]
  IN /\ r.at \in Places /\ r.news \in BOOLEAN /\ r.reconcile \in BOOLEAN /\ r.read \in {"never", "once", "more"}
     /\ r.at # "open" => r.outcome = None /\ ~r.reconcile
     /\ r.at \in Busy => lease = p
     /\ r.at = "prepared" => open.phase = "pending" /\ r.read # "never"
     /\ r.at = "called" => open.phase = "sent" /\ r.read # "never"
     /\ r.at = "answered" => open.phase = "answered" /\ r.read # "never" /\ r.response = open.response
     /\ r.at = "landed" => open.phase = "succeeded"

(* While nobody else writes: the clock that no attempt has read replays the  *)
(* start of the one in progress, what was fetched belongs to the request on  *)
(* its way, the last commit is the process's own, its call has counted every *)
(* event, and the reason of a refusal still stands.                          *)
UpToDate(p) ==
  LET r == pipe[p]
  IN /\ r.read = "never" => r.replay = IF InProgress THEN <<open.started>> ELSE <<>>
     /\ r.reconcile => open.phase = "sent"
     /\ r.at = "committed" => r.own = Len(log)
     /\ job[p].at \in {"between", "mark", "end"} => Len(log) = ReachedBy(p)
     /\ r.outcome = "input" /\ job[p].at = "invoked" =>
          job[p].capacity # open.input.exposure.capacity
     /\ r.outcome \notin {"overtaken", "complete"}
     /\ r.outcome = "start" => r.read = "more"
     /\ r.outcome = "reconciliation" => open.phase = "sent"

Accounted(p) ==
  /\ AtItsPlace(p)
  /\ pipe[p].at # "closed" /\ ~pipe[p].news => UpToDate(p)
  /\ pipe[p].outcome = "unparsable" => Stuck

RefusalInv == ReportInv /\ OpenInv /\ \A p \in Process : Accounted(p)

(* What a step of somebody else does to q, which may hear of it.             *)
Heard(q) ==
  /\ pipe[q].at # "closed" => pipe'[q].news = TRUE
  /\ pipe[q].at = "closed" => pipe'[q].news = pipe[q].news
  /\ pipe'[q].at = pipe[q].at /\ pipe'[q].outcome = pipe[q].outcome /\ pipe'[q].reconcile = pipe[q].reconcile
  /\ pipe'[q].read = pipe[q].read /\ pipe'[q].response = pipe[q].response
StaysWith(q) ==
  /\ job'[q] = job[q]
  /\ lease = q => lease' = q
  /\ Stuck => Stuck'
  /\ \/ pipe'[q] = pipe[q] /\ open' = open /\ log' = log
     \/ Heard(q) /\ lease # q

LEMMA OthersAreAccounted ==
  ASSUME MockRunValid, NEW q \in Process, Accounted(q), StaysWith(q)
  PROVE  Accounted(q)'
<1>1. CASE pipe'[q] = pipe[q] /\ open' = open /\ log' = log
  <2>1. AtItsPlace(q)'
    BY <1>1 DEF Accounted, AtItsPlace, StaysWith
  <2>2. UpToDate(q) => UpToDate(q)'
    BY <1>1 DEF StaysWith, UpToDate, InProgress, ReachedBy
  <2> QED
    BY <1>1, <2>1, <2>2 DEF Accounted, StaysWith
<1>2. CASE Heard(q) /\ lease # q
  <2>1. AtItsPlace(q)'
    BY <1>2 DEF Accounted, AtItsPlace, Heard, Busy
  <2>2. pipe'[q].at = "closed" \/ pipe'[q].news
    BY <1>2 DEF Heard
  <2> QED
    BY <1>2, <2>1, <2>2 DEF Accounted, StaysWith, Heard
<1> QED
  BY <1>1, <1>2 DEF StaysWith

(* The fields after one of them is set.                                      *)
LEMMA SetOne ==
  ASSUME NEW r, FieldsKept(r), NEW f \in PipeFields, NEW v
  PROVE  FieldsKept([r EXCEPT ![f] = v]) /\ [r EXCEPT ![f] = v][f] = v /\ \A g \in PipeFields \ {f} : [r EXCEPT ![f] = v][g] = r[g]
BY DEF FieldsKept

(* What the invariant reads of a process is the same but for where it is and *)
(* how its call ended.                                                       *)
Reads(r, s) ==
  /\ FieldsKept(r) /\ FieldsKept(s)
  /\ s.news = r.news /\ s.read = r.read /\ s.reconcile = r.reconcile /\ s.replay = r.replay

LEMMA EndsWith ==
  ASSUME NEW r, FieldsKept(r), NEW why
  PROVE  Reads(r, Ended(r, why)) /\ Ended(r, why).at = "open" /\ Ended(r, why).outcome = why
<1> DEFINE r1 == [r EXCEPT !.at = "open"]
           r2 == [r1 EXCEPT !.outcome = why]
           r3 == [r2 EXCEPT !.request = None]
           r4 == [r3 EXCEPT !.started = 0]
           r5 == [r4 EXCEPT !.response = None]
           r6 == [r5 EXCEPT !.own = 0]
<1>1. Ended(r, why) = r6
  BY DEF Ended
<1>2. Reads(r, r1)
  BY SMT DEF Reads, FieldsKept, PipeFields
<1> HIDE DEF r1
<1>3. Reads(r, r2)
  BY <1>2, SMT DEF Reads, FieldsKept, PipeFields
<1> HIDE DEF r2
<1>4. Reads(r, r3)
  BY <1>3, SMT DEF Reads, FieldsKept, PipeFields
<1> HIDE DEF r3
<1>5. Reads(r, r4)
  BY <1>4, SMT DEF Reads, FieldsKept, PipeFields
<1> HIDE DEF r4
<1>6. Reads(r, r5)
  BY <1>5, SMT DEF Reads, FieldsKept, PipeFields
<1> HIDE DEF r5
<1>7. Reads(r, r6)
  BY <1>6, SMT DEF Reads, FieldsKept, PipeFields
<1> HIDE DEF r6
<1> QED
  BY <1>1, <1>7, Ends

(* Somebody wrote.                                                           *)
LEMMA Hears ==
  ASSUME PipeKept, NEW q \in Process,
         pipe'[q] = IF pipe[q].at = "closed" THEN pipe[q] ELSE [pipe[q] EXCEPT !.news = TRUE]
  PROVE  Heard(q)
<1>0. PICK r0 : r0 = pipe[q]
  OBVIOUS
<1>1. pipe'[q] = IF r0.at = "closed" THEN r0 ELSE [r0 EXCEPT !["news"] = TRUE]
  BY <1>0
<1>2. FieldsKept(r0) /\ "news" \in PipeFields
  BY <1>0 DEF PipeKept, PipeFields
<1>3. r0.at # "closed" => pipe'[q]["news"] = TRUE /\ \A g \in PipeFields \ {"news"} : pipe'[q][g] = r0[g]
  <2>1. PICK v : v = TRUE
    OBVIOUS
  <2>2. /\ FieldsKept([r0 EXCEPT !["news"] = v]) /\ [r0 EXCEPT !["news"] = v]["news"] = v
        /\ \A g \in PipeFields \ {"news"} : [r0 EXCEPT !["news"] = v][g] = r0[g]
    BY <1>2, SetOne
  <2>3. r0.at # "closed" => pipe'[q] = [r0 EXCEPT !["news"] = v]
    BY <1>1, <2>1
  <2> QED
    BY <2>1, <2>2, <2>3
<1>4. {"at", "outcome", "reconcile", "read", "response"} \subseteq PipeFields \ {"news"}
  BY DEF PipeFields
<1> QED
  BY <1>0, <1>1, <1>3, <1>4 DEF Heard

(* What Step and Wrote do to the others.                                     *)
LEMMA OthersHear ==
  ASSUME PipeKept, NEW p \in Process, NEW r, Wrote(p, r)
  PROVE  \A q \in Process \ {p} : Heard(q)
BY Hears DEF Wrote

LEMMA OthersDoNotHear ==
  ASSUME PipeKept, NEW p \in Process, NEW r, Step(p, r)
  PROVE  \A q \in Process \ {p} : pipe'[q] = pipe[q]
BY DEF Step, PipeKept

OthersStay(p) == \A q \in Process \ {p} : StaysWith(q)

LEMMA StepsAside ==
  ASSUME PipeKept, NEW p \in Process, NEW r, \A q \in Process \ {p} : job'[q] = job[q], Stuck => Stuck',
         \/ Wrote(p, r) /\ lease \notin Process \ {p}
         \/ Step(p, r) /\ open' = open /\ log' = log /\ (lease' = lease \/ lease \notin Process \ {p})
  PROVE  OthersStay(p)
BY OthersHear, OthersDoNotHear DEF OthersStay, StaysWith

(* What is prepared, asked for or answered of an event does not change what  *)
(* anybody would prepare for it.                                             *)
LEMMA SameInput ==
  ASSUME UNCHANGED <<cell, log, rows, posts>>
  PROVE  InputOf(NextOrdinal, Exposed(open.input.exposure.capacity))' = InputOf(NextOrdinal, Exposed(open'.input.exposure.capacity))
<1>1. PICK c : c = open'.input.exposure.capacity
  OBVIOUS
<1>2. PICK x : x = Exposed(open.input.exposure.capacity)'
  OBVIOUS
<1>3. x = Exposed(c)
  BY <1>1, <1>2 DEF Exposed, Slot, NextOrdinal, Neighbours, Agents
<1>4. InputOf(NextOrdinal, Exposed(open.input.exposure.capacity))' = InputOf(NextOrdinal, x)
  BY <1>2 DEF InputOf, Slot, NextOrdinal, Committed
<1> QED
  BY <1>1, <1>3, <1>4

LEMMA OpenStays ==
  ASSUME OpenInv, UNCHANGED <<cell, log, rows, posts>>, OpenKept', open'.phase \in Phases \ {"none"},
         \/ open'.input = open.input /\ open.phase # "none"
         \/ open'.input = InputOf(NextOrdinal, Exposed(open'.input.exposure.capacity))
  PROVE  OpenInv'
<1>1. open'.input = InputOf(NextOrdinal, Exposed(open'.input.exposure.capacity))
  BY DEF OpenInv
<1> QED
  BY <1>1, SameInput DEF OpenInv

LEMMA NothingMoved == ASSUME OpenInv, UNCHANGED <<cell, log, rows, posts, open>> PROVE OpenInv'
<1>1. open'.input = open.input
  OBVIOUS
<1> QED
  BY <1>1, SameInput DEF OpenInv, OpenKept

LEMMA OpenSet ==
  ASSUME NEW r, r = [field \in OpenFields |-> r[field]], NEW f \in OpenFields, NEW v
  PROVE  LET s == [r EXCEPT ![f] = v]
         IN s = [field \in OpenFields |-> s[field]] /\ s[f] = v /\ \A g \in OpenFields \ {f} : s[g] = r[g]
OBVIOUS

(* What an attempt starts from.                                              *)
Readied(r) == [EnsureContext(Ticked(r)) EXCEPT !.read = ReadAgain(@), !.reconcile = FALSE]
LEMMA ReadiedIs ==
  ASSUME NEW r, FieldsKept(r)
  PROVE  /\ FieldsKept(Readied(r)) /\ Readied(r).context = NextOrdinal /\ Readied(r).read = ReadAgain(r.read)
         /\ Readied(r).reconcile = FALSE /\ Readied(r).news = r.news /\ Readied(r).outcome = r.outcome
<1>1. /\ FieldsKept(Ticked(r)) /\ Ticked(r).read = r.read /\ Ticked(r).news = r.news /\ Ticked(r).outcome = r.outcome
  <2>1. FieldsKept([r EXCEPT !["replay"] = Tail(r.replay)]) /\ \A g \in PipeFields \ {"replay"} : [r EXCEPT !["replay"] = Tail(r.replay)][g] = r[g]
    BY SetOne DEF PipeFields
  <2>2. FieldsKept([r EXCEPT !["tick"] = r.tick + 1]) /\ \A g \in PipeFields \ {"tick"} : [r EXCEPT !["tick"] = r.tick + 1][g] = r[g]
    BY SetOne DEF PipeFields
  <2>3. {"read", "news", "outcome"} \subseteq PipeFields \ {"replay"} /\ {"read", "news", "outcome"} \subseteq PipeFields \ {"tick"}
    BY DEF PipeFields
  <2>4. Ticked(r) = [r EXCEPT !["replay"] = Tail(r.replay)] \/ Ticked(r) = [r EXCEPT !["tick"] = r.tick + 1]
    BY DEF Ticked
  <2> QED
    BY <2>1, <2>2, <2>3, <2>4
<1> DEFINE t == Ticked(r)
           t1 == [t EXCEPT !["index"] = NextOrdinal]
           t2 == [t1 EXCEPT !["context"] = NextOrdinal]
           t3 == [t2 EXCEPT !["read"] = ReadAgain(t2.read)]
           t4 == [t3 EXCEPT !["reconcile"] = FALSE]
<1>0. {"index", "context", "read", "reconcile", "news", "outcome"} \subseteq PipeFields
  BY DEF PipeFields
<1>2. Readied(r) = t4
  BY DEF Readied, EnsureContext
<1> HIDE DEF t
<1>3. FieldsKept(t1) /\ t1.read = r.read /\ t1.news = r.news /\ t1.outcome = r.outcome
  BY <1>0, <1>1, SetOne DEF t
<1> HIDE DEF t1
<1>4. FieldsKept(t2) /\ t2.read = r.read /\ t2.news = r.news /\ t2.outcome = r.outcome /\ t2.context = NextOrdinal
  BY <1>0, <1>3, SetOne
<1> HIDE DEF t2
<1>5. FieldsKept(t3) /\ t3.read = ReadAgain(r.read) /\ t3.news = r.news /\ t3.outcome = r.outcome /\ t3.context = NextOrdinal
  BY <1>0, <1>4, SetOne
<1> HIDE DEF t3
<1>6. /\ FieldsKept(t4) /\ t4.read = ReadAgain(r.read) /\ t4.news = r.news /\ t4.outcome = r.outcome /\ t4.context = NextOrdinal
      /\ t4.reconcile = FALSE
  BY <1>0, <1>5, SetOne
<1> HIDE DEF t4
<1> QED
  BY <1>2, <1>6

(* p's call runs execute() with what its caller asks for.                    *)
Called(p, capacity) ==
  /\ job[p].at = "between" /\ job'[p].at = "invoked" /\ job'[p].capacity = capacity
  /\ \A q \in Process \ {p} : job'[q] = job[q]
  /\ pipe[p].at = "open" /\ pipe[p].outcome = None /\ lease = None

LEMMA RefusedIsAccounted ==
  ASSUME MockRunValid, RefusalInv, NEW p \in Process, NEW capacity, Called(p, capacity), NEW s, FieldsKept(s), NEW why,
         Refuse(p, s, why), why # "unparsable",
         s.news = pipe[p].news, s.reconcile \in BOOLEAN, s.read \in {"never", "once", "more"},
         ~s.news =>
           /\ s.read = "never" => s.replay = IF InProgress THEN <<open.started>> ELSE <<>>
           /\ s.reconcile => open.phase = "sent"
           /\ why = "input" => capacity # open.input.exposure.capacity
           /\ why \notin {"overtaken", "complete"}
           /\ why = "start" => s.read = "more"
           /\ why = "reconciliation" => open.phase = "sent"
  PROVE  Accounted(p)' /\ OpenInv' /\ OthersStay(p)
<1> DEFINE e == Ended(s, why)
<1>1. Step(p, e) /\ UNCHANGED <<cell, log, rows, posts, open, lease>>
  BY DEF Refuse, store
<1>2. e.news = s.news /\ e.reconcile = s.reconcile /\ e.read = s.read /\ e.replay = s.replay /\ e.at = "open" /\ e.outcome = why
      /\ FieldsKept(e)
  BY EndsWith DEF Reads
<1> HIDE DEF e
<1>3. pipe'[p] = e
  BY <1>1, <1>2, Stepped DEF RefusalInv, ReportInv
<1>4. OthersStay(p)
  BY <1>1, StepsAside DEF Called, Stuck, RefusalInv, ReportInv
<1>5. OpenInv'
  BY <1>1, NothingMoved DEF RefusalInv
<1>6. AtItsPlace(p)'
  BY <1>2, <1>3 DEF AtItsPlace, Places, Busy, RefusalInv, Accounted
<1>7. ~s.news => UpToDate(p)'
  BY <1>1, <1>2, <1>3 DEF UpToDate, Called, InProgress
<1> QED
  BY <1>2, <1>3, <1>4, <1>5, <1>6, <1>7 DEF Accounted

(* What an attempt comes to.                                                 *)
LEMMA AttemptComesTo ==
  ASSUME RefusalInv, NEW p \in Process, NEW capacity, Attempt(p, capacity), open.phase \notin {"failed", "succeeded"}
  PROVE  \E request, started, input, response :
    LET r == Readied(pipe[p])
        ready == [r EXCEPT !.request = request, !.started = started]
    IN /\ input = InputOf(NextOrdinal, Exposed(capacity))
       /\ \/ Refuse(p, r, "inconsistent")
          \/ Refuse(p, r, "input") /\ open.phase # "none" /\ open.input # input
          \/ Refuse(p, r, "start") /\ InProgress /\ open.started # Reading(pipe[p])
          \/ /\ Refuse(p, r, "reconciliation") /\ InProgress
             /\ (open.phase = "answered") = Reconciles(p)
          \/ /\ Wrote(p, [ready EXCEPT !.at = "prepared"])
             /\ open' = [open EXCEPT !.phase = "pending", !.input = input, !.request = request]
             /\ lease' = p /\ UNCHANGED <<cell, log, rows, posts>>
             /\ open.phase \in {"none", "authorized"}
          \/ /\ Step(p, [ready EXCEPT !.at = "prepared"]) /\ open.phase = "pending"
             /\ lease' = p /\ UNCHANGED <<cell, log, rows, posts, open>>
          \/ /\ InProgress
             /\ Step(p, [ready EXCEPT !.at = IF open.phase = "sent" THEN "called" ELSE "answered", !.response = response])
             /\ open.phase = "answered" => response = open.response
             /\ lease' = p /\ UNCHANGED <<cell, log, rows, posts, open>>
<1> DEFINE r == Readied(pipe[p])
           input == InputOf(r.context, Exposed(capacity))
           request == Request(input.view, Len(open.attempts) + 1)
           started == Reading(pipe[p])
           ready == [r EXCEPT !.request = request, !.started = started]
           response == IF open.phase = "sent" THEN Generate(cell.script, request) ELSE open.response
<1>1. r.context = NextOrdinal
  BY ReadiedIs DEF RefusalInv, ReportInv, PipeKept
<1>2. open.phase \in {"none", "authorized", "pending"} \/ InProgress
  BY DEF RefusalInv, OpenInv, Phases, InProgress
<1>3. open.phase = "none" => open.input = None
  BY DEF RefusalInv, OpenInv
<1>4. ready.started = started
  <2>1. FieldsKept(r)
    BY ReadiedIs DEF RefusalInv, ReportInv, PipeKept
  <2> HIDE DEF r, request, started
  <2>2. "started" \in DOMAIN [r EXCEPT !.request = request]
    BY <2>1 DEF FieldsKept, PipeFields
  <2> QED
    BY <2>2
<1>5. /\ \/ Refuse(p, r, "inconsistent")
         \/ Refuse(p, r, "input") /\ open.phase # "none" /\ open.input # input
         \/ Refuse(p, r, "start") /\ InProgress /\ open.started # started
         \/ Refuse(p, r, "reconciliation") /\ InProgress /\ (open.phase = "answered") = Reconciles(p)
         \/ /\ Wrote(p, [ready EXCEPT !.at = "prepared"])
            /\ open' = [open EXCEPT !.phase = "pending", !.input = input, !.request = request]
            /\ lease' = p /\ UNCHANGED <<cell, log, rows, posts>>
            /\ open.phase \in {"none", "authorized"}
         \/ /\ Step(p, [ready EXCEPT !.at = "prepared"]) /\ open.phase = "pending"
            /\ lease' = p /\ UNCHANGED <<cell, log, rows, posts, open>>
         \/ /\ InProgress
            /\ Step(p, [ready EXCEPT !.at = IF open.phase = "sent" THEN "called" ELSE "answered", !.response = response])
            /\ lease' = p /\ UNCHANGED <<cell, log, rows, posts, open>>
  <2>1. ready.started = started
    BY <1>4
  <2> HIDE DEF started, response, ready, input, request, r
  <2>2. CASE open.phase \in {"none", "authorized"}
    BY <2>1, <2>2, <1>3 DEF Attempt, r, input, request, ready, started, Readied
  <2>3. CASE open.phase = "pending"
    BY <2>1, <2>3, <1>3 DEF Attempt, r, input, request, ready, started, Readied
  <2>4. CASE InProgress
    <3>1. open.phase \notin {"none", "authorized", "pending"}
      BY <2>4 DEF InProgress
    <3> QED
      BY <2>1, <2>4, <3>1, <1>3 DEF Attempt, r, input, request, ready, started, Readied, response
  <2> QED
    BY <2>2, <2>3, <2>4, <1>2
<1>6. open.phase = "answered" => response = open.response
  OBVIOUS
<1>7. input = InputOf(NextOrdinal, Exposed(capacity))
  BY <1>1
<1> HIDE DEF started, response, input, request, r
<1> QED
  BY <1>5, <1>6, <1>7 DEF r, started

(* p is at work with what an attempt has readied.                            *)
LEMMA AtWorkIsAccounted ==
  ASSUME MockRunValid, RefusalInv, NEW p \in Process, NEW capacity, Called(p, capacity), NEW s, FieldsKept(s),
         Step(p, s) \/ Wrote(p, s), s.news = pipe[p].news, s.reconcile = FALSE, s.read \in {"once", "more"}, s.outcome = None,
         lease' = p, s.at \in {"prepared", "called", "answered"},
         s.at = "prepared" => open'.phase = "pending",
         s.at = "called" => open'.phase = "sent",
         s.at = "answered" => open'.phase = "answered" /\ s.response = open'.response
  PROVE  Accounted(p)'
<1>1. pipe'[p] = s
  BY Stepped DEF RefusalInv, ReportInv
<1>2. s.news \in BOOLEAN
  BY DEF RefusalInv, Accounted, AtItsPlace
<1>3. AtItsPlace(p)'
  BY <1>1, <1>2 DEF AtItsPlace, Places, Busy
<1>4. UpToDate(p)'
  BY <1>1 DEF UpToDate, Called, MockRunValid
<1> QED
  BY <1>1, <1>3, <1>4 DEF Accounted, MockRunValid

LEMMA AttemptIsAccounted ==
  ASSUME MockRunValid, RefusalInv, NEW p \in Process, NEW capacity, Called(p, capacity), Attempt(p, capacity),
         open.phase \notin {"failed", "succeeded"}
  PROVE  Accounted(p)' /\ OpenInv' /\ OthersStay(p)
<1> DEFINE r == Readied(pipe[p])
<1>0. /\ FieldsKept(r) /\ r.read = ReadAgain(pipe[p].read) /\ r.reconcile = FALSE /\ r.news = pipe[p].news /\ r.outcome = None
      /\ r.read \in {"once", "more"}
  BY ReadiedIs DEF RefusalInv, ReportInv, PipeKept, Called, ReadAgain
<1>1. PICK request, started, input, response :
        LET ready == [r EXCEPT !.request = request, !.started = started]
        IN /\ input = InputOf(NextOrdinal, Exposed(capacity))
           /\ \/ Refuse(p, r, "inconsistent")
              \/ Refuse(p, r, "input") /\ open.phase # "none" /\ open.input # input
              \/ Refuse(p, r, "start") /\ InProgress /\ open.started # Reading(pipe[p])
              \/ /\ Refuse(p, r, "reconciliation") /\ InProgress
                 /\ (open.phase = "answered") = Reconciles(p)
              \/ /\ Wrote(p, [ready EXCEPT !.at = "prepared"])
                 /\ open' = [open EXCEPT !.phase = "pending", !.input = input, !.request = request]
                 /\ lease' = p /\ UNCHANGED <<cell, log, rows, posts>>
                 /\ open.phase \in {"none", "authorized"}
              \/ /\ Step(p, [ready EXCEPT !.at = "prepared"]) /\ open.phase = "pending"
                 /\ lease' = p /\ UNCHANGED <<cell, log, rows, posts, open>>
              \/ /\ InProgress
                 /\ Step(p, [ready EXCEPT !.at = IF open.phase = "sent" THEN "called" ELSE "answered", !.response = response])
                 /\ open.phase = "answered" => response = open.response
                 /\ lease' = p /\ UNCHANGED <<cell, log, rows, posts, open>>
  BY AttemptComesTo
<1> DEFINE ready == [r EXCEPT !.request = request, !.started = started]
<1>2. UpToDate(p) \/ pipe[p].news
  BY DEF RefusalInv, Accounted, Called
<1>3. OpenInv /\ PipeKept /\ pipe[p].read \in {"never", "once", "more"}
  BY DEF RefusalInv, ReportInv, Accounted, AtItsPlace
<1>4. lease \notin Process \ {p}
  BY DEF Called, MockRunValid
<1> HIDE DEF r
<1>5. CASE Refuse(p, r, "inconsistent")
  BY <1>0, <1>5, RefusedIsAccounted
<1>6. CASE Refuse(p, r, "input") /\ open.phase # "none" /\ open.input # input
  <2>1. open.input.exposure.capacity # capacity
    BY <1>1, <1>3, <1>6 DEF OpenInv
  <2> QED
    BY <1>0, <1>6, <2>1, RefusedIsAccounted
<1>7. CASE Refuse(p, r, "start") /\ InProgress /\ open.started # Reading(pipe[p])
  <2>1. ~pipe[p].news => pipe[p].read # "never"
    <3>1. ASSUME ~pipe[p].news, pipe[p].read = "never" PROVE FALSE
      <4>1. pipe[p].replay = <<open.started>>
        BY <1>2, <1>7, <3>1 DEF UpToDate
      <4>2. <<open.started>> # <<>> /\ Head(<<open.started>>) = open.started
        OBVIOUS
      <4> QED
        BY <1>7, <4>1, <4>2 DEF Reading
    <3> QED
      BY <3>1
  <2>2. ~pipe[p].news => r.read = "more"
    BY <1>0, <2>1 DEF ReadAgain
  <2>3. ~r.news => r.read = "more"
    BY <1>0, <2>2
  <2> QED
    <3>1. Refuse(p, r, "start")
      BY <1>7
    <3>2. /\ r.reconcile \in BOOLEAN /\ r.read \in {"never", "once", "more"} /\ r.read # "never"
          /\ FieldsKept(r) /\ r.news = pipe[p].news /\ ~r.reconcile
      BY <1>0
    <3> QED
      BY <3>1, <3>2, <2>3, RefusedIsAccounted
<1>8. CASE Refuse(p, r, "reconciliation") /\ InProgress /\ (open.phase = "answered") = Reconciles(p)
  <2>1. ~pipe[p].news => open.phase = "sent"
    BY <1>2, <1>8 DEF UpToDate, Reconciles, InProgress
  <2>2. ~r.news => open.phase = "sent"
    BY <1>0, <2>1
  <2> QED
    <3>1. Refuse(p, r, "reconciliation")
      BY <1>8
    <3>2. /\ r.reconcile \in BOOLEAN /\ r.read \in {"never", "once", "more"} /\ r.read # "never"
          /\ FieldsKept(r) /\ r.news = pipe[p].news /\ ~r.reconcile
      BY <1>0
    <3> QED
      BY <3>1, <3>2, <2>2, RefusedIsAccounted
<1>9. /\ FieldsKept(ready) /\ ready.read = r.read /\ ready.reconcile = FALSE /\ ready.news = r.news /\ ready.outcome = None
  <2> DEFINE t == [r EXCEPT !["request"] = request]
             u == [t EXCEPT !["started"] = started]
  <2>0. {"read", "reconcile", "news", "outcome"} \subseteq PipeFields \ {"request", "started"} /\ {"request", "started"} \subseteq PipeFields
    BY DEF PipeFields
  <2>1. ready = u
    OBVIOUS
  <2> HIDE DEF ready
  <2>2. FieldsKept(t) /\ t.read = r.read /\ t.reconcile = r.reconcile /\ t.news = r.news /\ t.outcome = r.outcome
    BY <1>0, <2>0, SetOne
  <2> HIDE DEF t
  <2>3. FieldsKept(u) /\ u.read = r.read /\ u.reconcile = r.reconcile /\ u.news = r.news /\ u.outcome = r.outcome
    BY <2>0, <2>2, SetOne
  <2> QED
    BY <1>0, <2>1, <2>3
<1>10. ASSUME NEW at, NEW s, s = [ready EXCEPT !.at = at]
       PROVE  /\ FieldsKept(s) /\ s.at = at /\ s.read = r.read /\ s.reconcile = FALSE /\ s.news = r.news /\ s.outcome = None
  <2> HIDE DEF ready
  <2> QED
    BY <1>9, <1>10 DEF FieldsKept, PipeFields
<1> HIDE DEF ready
<1>11. CASE /\ Wrote(p, [ready EXCEPT !.at = "prepared"])
            /\ open' = [open EXCEPT !.phase = "pending", !.input = input, !.request = request]
            /\ lease' = p /\ UNCHANGED <<cell, log, rows, posts>>
            /\ open.phase \in {"none", "authorized"}
  <2>1. PICK s : s = [ready EXCEPT !.at = "prepared"]
    OBVIOUS
  <2>2. open'.phase = "pending" /\ open'.input = input /\ OpenKept'
    <3> DEFINE a == [open EXCEPT !["phase"] = "pending"]
               b == [a EXCEPT !["input"] = input]
               c == [b EXCEPT !["request"] = request]
    <3>0. open = [field \in OpenFields |-> open[field]] /\ {"phase", "input", "request"} \subseteq OpenFields
      BY <1>3 DEF OpenInv, OpenKept, OpenFields
    <3>1. open' = c
      BY <1>11
    <3>2. a = [field \in OpenFields |-> a[field]] /\ a.phase = "pending"
      BY <3>0, OpenSet
    <3> HIDE DEF a
    <3>3. b = [field \in OpenFields |-> b[field]] /\ b.phase = "pending" /\ b.input = input
      BY <3>0, <3>2, OpenSet
    <3> HIDE DEF b
    <3>4. c = [field \in OpenFields |-> c[field]] /\ c.phase = "pending" /\ c.input = input
      BY <3>0, <3>3, OpenSet
    <3> HIDE DEF c
    <3> QED
      BY <3>1, <3>4 DEF OpenKept
  <2>3. Accounted(p)'
    BY <1>0, <1>10, <1>11, <2>1, <2>2, AtWorkIsAccounted
  <2>4. OthersStay(p)
    BY <1>3, <1>4, <1>11, <2>2, StepsAside DEF Called, Stuck
  <2>5. input.exposure.capacity = capacity
    BY <1>1 DEF InputOf, Exposed, Exposure
  <2>6. OpenInv'
    BY <1>1, <1>3, <1>11, <2>2, <2>5, OpenStays DEF Phases
  <2> QED
    BY <2>3, <2>4, <2>6
<1>12. CASE /\ Step(p, [ready EXCEPT !.at = "prepared"]) /\ open.phase = "pending"
            /\ lease' = p /\ UNCHANGED <<cell, log, rows, posts, open>>
  <2>1. PICK s : s = [ready EXCEPT !.at = "prepared"]
    OBVIOUS
  <2>2. Accounted(p)'
    BY <1>0, <1>10, <1>12, <2>1, AtWorkIsAccounted
  <2>3. OthersStay(p)
    BY <1>3, <1>4, <1>12, StepsAside DEF Called, Stuck
  <2> QED
    BY <1>3, <1>12, <2>2, <2>3, NothingMoved
<1>13. CASE /\ InProgress
            /\ Step(p, [ready EXCEPT !.at = IF open.phase = "sent" THEN "called" ELSE "answered", !.response = response])
            /\ open.phase = "answered" => response = open.response
            /\ lease' = p /\ UNCHANGED <<cell, log, rows, posts, open>>
  <2> DEFINE at == IF open.phase = "sent" THEN "called" ELSE "answered"
  <2> HIDE DEF at
  <2>1. PICK t : t = [ready EXCEPT !.at = at]
    OBVIOUS
  <2> DEFINE s == [t EXCEPT !["response"] = response]
  <2>3. Step(p, s)
    BY <1>13, <2>1 DEF at
  <2>4. FieldsKept(t) /\ t.at = at /\ t.read = r.read /\ t.reconcile = FALSE /\ t.news = r.news /\ t.outcome = None
    BY <1>10, <2>1
  <2>5. /\ FieldsKept(s) /\ s.at = at /\ s.read = r.read /\ s.reconcile = FALSE /\ s.news = r.news /\ s.outcome = None
        /\ s.response = response
    <3>1. {"at", "read", "reconcile", "news", "outcome"} \subseteq PipeFields \ {"response"} /\ "response" \in PipeFields
      BY DEF PipeFields
    <3> QED
      BY <2>4, <3>1, SetOne
  <2> HIDE DEF s
  <2>6. /\ at = "called" => open.phase = "sent"
        /\ at = "answered" => open.phase = "answered" /\ response = open.response
        /\ at \in {"called", "answered"}
    BY <1>13 DEF at, InProgress
  <2>7. Accounted(p)'
    BY <1>0, <1>13, <2>3, <2>5, <2>6, AtWorkIsAccounted
  <2>8. OthersStay(p)
    BY <1>3, <1>4, <1>13, <2>3, StepsAside DEF Called, Stuck
  <2> QED
    BY <1>3, <1>13, <2>7, <2>8, NothingMoved
<1> QED
  BY <1>1, <1>5, <1>6, <1>7, <1>8, <1>11, <1>12, <1>13 DEF ready

LEMMA ExecuteIsAccounted ==
  ASSUME MockRunValid, RefusalInv, NEW p \in Process, NEW capacity, Called(p, capacity), Execute(p, capacity)
  PROVE  Accounted(p)' /\ OpenInv' /\ OthersStay(p)
<1> DEFINE r == pipe[p]
           settled == [r EXCEPT !.reconcile = FALSE]
<1>0. /\ FieldsKept(r) /\ r.read \in {"never", "once", "more"} /\ r.news \in BOOLEAN /\ r.reconcile \in BOOLEAN
      /\ r.news \/ UpToDate(p)
      /\ OpenInv /\ PipeKept /\ lease \notin Process \ {p}
  BY DEF RefusalInv, ReportInv, PipeKept, Accounted, AtItsPlace, Called, MockRunValid
<1>1. /\ FieldsKept(settled) /\ settled.reconcile = FALSE /\ settled.read = r.read /\ settled.news = r.news
      /\ settled.replay = r.replay
  <2> HIDE DEF r
  <2> QED
    BY <1>0 DEF FieldsKept, PipeFields
<1>2. ~r.news => (r.read = "never" => r.replay = IF InProgress THEN <<open.started>> ELSE <<>>)
  BY <1>0 DEF UpToDate
<1>3. ~r.news => (r.reconcile => open.phase = "sent")
  BY <1>0 DEF UpToDate
<1> HIDE DEF settled
<1>4. CASE r.reconcile /\ ~InProgress /\ Refuse(p, settled, "reconciliation")
  <2>1. r.news
    BY <1>3, <1>4 DEF InProgress
  <2> QED
    BY <1>0, <1>1, <1>4, <2>1, RefusedIsAccounted
<1>5. CASE NextOrdinal = Events /\ Refuse(p, r, "complete")
  <2>1. CallInv(p) /\ Events \in Nat /\ ReachedBy(p) \in Int /\ job[p].target \in Int
    BY EventsAreCounted, JobIs DEF RefusalInv, ReportInv, Called, ReachedBy
  <2>2. ReachedBy(p) < Events
    BY <2>1 DEF CallInv, Called
  <2>3. r.news
    BY <1>0, <1>5, <2>1, <2>2 DEF UpToDate, Called, NextOrdinal
  <2> QED
    BY <1>0, <1>5, <2>3, RefusedIsAccounted
<1>6. CASE Refuse(p, r, "halted")
  BY <1>0, <1>2, <1>3, <1>6, RefusedIsAccounted
<1>7. CASE /\ ~(r.reconcile /\ ~InProgress) /\ open.phase = "succeeded"
           /\ Step(p, [r EXCEPT !.at = "landed"])
           /\ lease' = p /\ UNCHANGED <<cell, log, rows, posts, open, stamp>>
  <2> DEFINE s == [r EXCEPT !.at = "landed"]
  <2>1. /\ FieldsKept(s) /\ s.at = "landed" /\ s.reconcile = r.reconcile /\ s.read = r.read /\ s.news = r.news
        /\ s.replay = r.replay /\ s.outcome = r.outcome
    <3> HIDE DEF r
    <3> QED
      BY <1>0 DEF FieldsKept, PipeFields
  <2>2. r.reconcile = FALSE /\ r.outcome = None
    BY <1>0, <1>7 DEF InProgress, Called
  <2> HIDE DEF s
  <2>3. pipe'[p] = s
    BY <1>0, <1>7, <2>1, Stepped DEF s
  <2>4. AtItsPlace(p)'
    BY <1>0, <1>7, <2>1, <2>2, <2>3 DEF AtItsPlace, Places, Busy
  <2>5. ~s.news => UpToDate(p)'
    BY <1>2, <1>7, <2>1, <2>2, <2>3 DEF UpToDate, Called, InProgress, MockRunValid
  <2>6. OthersStay(p)
    BY <1>0, <1>7, StepsAside DEF Called, Stuck
  <2> QED
    BY <1>0, <1>7, <2>1, <2>2, <2>3, <2>4, <2>5, <2>6, NothingMoved DEF Accounted, MockRunValid
<1>8. CASE Attempt(p, capacity) /\ open.phase \notin {"failed", "succeeded"}
  BY <1>8, AttemptIsAccounted
<1> QED
  BY <1>4, <1>5, <1>6, <1>7, <1>8 DEF Execute, settled

(* The other steps of the pipeline.                                          *)
LEMMA WorkIsAccounted ==
  ASSUME MockRunValid, RefusalInv, NEW p \in Process, UNCHANGED job, pipe[p].at \notin {"open", "closed"},
         NEW s, FieldsKept(s), Step(p, s) \/ Wrote(p, s),
         s.news = pipe[p].news, s.read = pipe[p].read, s.reconcile = pipe[p].reconcile, s.at \in Places,
         s.at # "open" => s.outcome = None,
         s.at \in Busy => lease' = p,
         s.at = "prepared" => open'.phase = "pending" /\ s.read # "never",
         s.at = "called" => open'.phase = "sent" /\ s.read # "never",
         s.at = "answered" => open'.phase = "answered" /\ s.read # "never" /\ s.response = open'.response,
         s.at = "landed" => open'.phase = "succeeded",
         s.outcome = "unparsable" => Stuck',
         s.outcome \notin {"start", "input", "reconciliation"},
         ~s.news =>
           /\ s.read = "never" => s.replay = IF InProgress' THEN <<open'.started>> ELSE <<>>
           /\ s.at = "committed" => s.own = Len(log')
           /\ s.outcome \notin {"overtaken", "complete"}
  PROVE  Accounted(p)'
<1>1. pipe'[p] = s
  BY Stepped DEF RefusalInv, ReportInv
<1>2. s.news \in BOOLEAN /\ s.reconcile = FALSE /\ s.read \in {"never", "once", "more"}
  BY DEF RefusalInv, Accounted, AtItsPlace
<1>3. AtItsPlace(p)'
  BY <1>1, <1>2 DEF AtItsPlace
<1>4. job[p].at \notin {"between", "mark", "end"}
  BY DEF RefusalInv, ReportInv, CallInv
<1>5. ~s.news => UpToDate(p)'
  BY <1>1, <1>2, <1>4 DEF UpToDate
<1> QED
  BY <1>1, <1>2, <1>3, <1>5 DEF Accounted

(* What is known of a process at work.                                       *)
LEMMA AtWorkIs ==
  ASSUME RefusalInv, NEW p \in Process, pipe[p].at \notin {"open", "closed"}
  PROVE  /\ FieldsKept(pipe[p]) /\ PipeKept /\ OpenInv /\ OpenKept /\ AtItsPlace(p)
         /\ pipe[p].outcome = None /\ pipe[p].reconcile = FALSE
         /\ pipe[p].news \/ UpToDate(p)
         /\ lease = p => lease \notin Process \ {p}
BY DEF RefusalInv, ReportInv, PipeKept, Accounted, AtItsPlace, OpenInv

(* The process goes on, in another place, with some field set.               *)
LEMMA MovesOn ==
  ASSUME NEW r, FieldsKept(r), NEW at
  PROVE  LET s == [r EXCEPT !.at = at]
         IN Reads(r, s) /\ s.at = at /\ s.outcome = r.outcome /\ s.own = r.own /\ s.response = r.response
BY SMT DEF Reads, FieldsKept, PipeFields

LEMMA TicksOn ==
  ASSUME NEW r, FieldsKept(r)
  PROVE  LET s == Ticked(r)
         IN /\ FieldsKept(s) /\ s.at = r.at /\ s.outcome = r.outcome /\ s.response = r.response
            /\ s.news = r.news /\ s.read = r.read /\ s.reconcile = r.reconcile
<1>1. /\ FieldsKept([r EXCEPT !["replay"] = Tail(r.replay)])
      /\ \A g \in PipeFields \ {"replay"} : [r EXCEPT !["replay"] = Tail(r.replay)][g] = r[g]
  BY SetOne DEF PipeFields
<1>2. /\ FieldsKept([r EXCEPT !["tick"] = r.tick + 1])
      /\ \A g \in PipeFields \ {"tick"} : [r EXCEPT !["tick"] = r.tick + 1][g] = r[g]
  BY SetOne DEF PipeFields
<1>3. {"at", "outcome", "response", "news", "read", "reconcile"} \subseteq (PipeFields \ {"replay"}) \intersect (PipeFields \ {"tick"})
  BY DEF PipeFields
<1>4. Ticked(r) = [r EXCEPT !["replay"] = Tail(r.replay)] \/ Ticked(r) = [r EXCEPT !["tick"] = r.tick + 1]
  BY DEF Ticked
<1> QED
  BY <1>1, <1>2, <1>3, <1>4

LEMMA StartIsAccounted ==
  ASSUME MockRunValid, RefusalInv, NEW p \in Process, UNCHANGED job, Start(p)
  PROVE  Accounted(p)' /\ OpenInv' /\ OthersStay(p)
<1>0. /\ pipe[p].at = "prepared" /\ lease = p /\ UNCHANGED <<cell, log, rows, posts>>
      /\ open' = [open EXCEPT !.phase = "sent", !.started = pipe[p].started]
  BY DEF Start, Holds
<1>1. /\ FieldsKept(pipe[p]) /\ PipeKept /\ OpenInv /\ OpenKept /\ pipe[p].outcome = None /\ pipe[p].reconcile = FALSE
      /\ open.phase = "pending" /\ pipe[p].read # "never" /\ lease \notin Process \ {p}
  BY <1>0, AtWorkIs DEF AtItsPlace
<1>2. open'.phase = "sent" /\ open'.input = open.input /\ OpenKept'
  <2> DEFINE a == [open EXCEPT !["phase"] = "sent"]
             b == [a EXCEPT !["started"] = pipe[p].started]
  <2>0. open = [field \in OpenFields |-> open[field]] /\ {"phase", "input", "started"} \subseteq OpenFields
    BY <1>1 DEF OpenKept, OpenFields
  <2>1. open' = b
    BY <1>0
  <2>2. a = [field \in OpenFields |-> a[field]] /\ a.phase = "sent" /\ a.input = open.input
    BY <2>0, OpenSet
  <2> HIDE DEF a
  <2>3. b = [field \in OpenFields |-> b[field]] /\ b.phase = "sent" /\ b.input = open.input
    BY <2>0, <2>2, OpenSet
  <2> HIDE DEF b
  <2> QED
    BY <2>1, <2>3 DEF OpenKept
<1>3. OpenInv'
  BY <1>0, <1>1, <1>2, OpenStays DEF Phases
<1>4. Stuck => Stuck'
  BY <1>1 DEF Stuck
<1>5. CASE Wrote(p, Ended(pipe[p], "unscripted"))
  <2>1. PICK s : s = Ended(pipe[p], "unscripted")
    OBVIOUS
  <2>2. Reads(pipe[p], s) /\ s.at = "open" /\ s.outcome = "unscripted"
    BY <1>1, <2>1, EndsWith
  <2>3. Accounted(p)'
    BY <1>0, <1>1, <1>5, <2>1, <2>2, WorkIsAccounted DEF Reads, Places, Busy
  <2>4. OthersStay(p)
    BY <1>1, <1>4, <1>5, StepsAside
  <2> QED
    BY <1>3, <2>3, <2>4
<1>6. CASE /\ Proceed(p, "called", [pipe[p] EXCEPT !.response = Generate(cell.script, pipe[p].request)])
           /\ UNCHANGED lease
  <2> DEFINE t == [pipe[p] EXCEPT !["response"] = Generate(cell.script, pipe[p].request)]
  <2>1. /\ FieldsKept(t) /\ \A g \in PipeFields \ {"response"} : t[g] = pipe[p][g]
    BY <1>1, SetOne DEF PipeFields
  <2>2. {"outcome", "news", "read", "reconcile"} \subseteq PipeFields \ {"response"}
    BY DEF PipeFields
  <2>3. Wrote(p, [t EXCEPT !.at = "called"])
    BY <1>6 DEF Proceed
  <2> HIDE DEF t
  <2>4. PICK s : s = [t EXCEPT !.at = "called"]
    OBVIOUS
  <2>5. Reads(t, s) /\ s.at = "called" /\ s.outcome = t.outcome
    BY <2>1, <2>4, MovesOn
  <2>6. /\ FieldsKept(s) /\ s.at = "called" /\ s.outcome = None /\ s.news = pipe[p].news /\ s.read = pipe[p].read
        /\ s.reconcile = pipe[p].reconcile
    BY <1>1, <2>1, <2>2, <2>5 DEF Reads
  <2>7. Accounted(p)'
    BY <1>0, <1>1, <1>2, <1>6, <2>3, <2>4, <2>6, WorkIsAccounted DEF Places, Busy, MockRunValid
  <2>8. OthersStay(p)
    BY <1>1, <1>4, <2>3, StepsAside
  <2> QED
    BY <1>3, <2>7, <2>8
<1> QED
  BY <1>5, <1>6 DEF Start

LEMMA PersistIsAccounted ==
  ASSUME MockRunValid, RefusalInv, NEW p \in Process, UNCHANGED job, Persist(p)
  PROVE  Accounted(p)' /\ OpenInv' /\ OthersStay(p)
<1>0. pipe[p].at = "called" /\ lease = p /\ UNCHANGED <<cell, log, rows, posts>>
  BY DEF Persist, Holds
<1>1. /\ FieldsKept(pipe[p]) /\ PipeKept /\ OpenInv /\ OpenKept /\ pipe[p].outcome = None /\ pipe[p].reconcile = FALSE
      /\ open.phase = "sent" /\ pipe[p].read # "never" /\ lease \notin Process \ {p}
  BY <1>0, AtWorkIs DEF AtItsPlace
<1>2. Stuck => Stuck'
  BY <1>1 DEF Stuck
<1>3. CASE Step(p, Ended(pipe[p], "inconsistent")) /\ UNCHANGED open
  <2>1. PICK s : s = Ended(pipe[p], "inconsistent")
    OBVIOUS
  <2>2. Reads(pipe[p], s) /\ s.at = "open" /\ s.outcome = "inconsistent"
    BY <1>1, <2>1, EndsWith
  <2>3. Accounted(p)'
    BY <1>0, <1>1, <1>3, <2>1, <2>2, WorkIsAccounted DEF Reads, Places, Busy
  <2>4. OthersStay(p)
    BY <1>0, <1>1, <1>2, <1>3, StepsAside
  <2> QED
    BY <1>0, <1>1, <1>3, <2>3, <2>4, NothingMoved
<1>4. CASE /\ open' = [open EXCEPT !.phase = "answered", !.response = pipe[p].response]
           /\ Proceed(p, "answered", Ticked(pipe[p])) /\ UNCHANGED lease
  <2>1. open'.phase = "answered" /\ open'.input = open.input /\ open'.response = pipe[p].response /\ OpenKept'
    <3> DEFINE a == [open EXCEPT !["phase"] = "answered"]
               b == [a EXCEPT !["response"] = pipe[p].response]
    <3>0. open = [field \in OpenFields |-> open[field]] /\ {"phase", "input", "response"} \subseteq OpenFields
      BY <1>1 DEF OpenKept, OpenFields
    <3>1. open' = b
      BY <1>4
    <3>2. a = [field \in OpenFields |-> a[field]] /\ a.phase = "answered" /\ a.input = open.input
      BY <3>0, OpenSet
    <3> HIDE DEF a
    <3>3. b = [field \in OpenFields |-> b[field]] /\ b.phase = "answered" /\ b.input = open.input /\ b.response = pipe[p].response
      BY <3>0, <3>2, OpenSet
    <3> HIDE DEF b
    <3> QED
      BY <3>1, <3>3 DEF OpenKept
  <2>2. OpenInv'
    BY <1>0, <1>1, <2>1, OpenStays DEF Phases
  <2>3. PICK t : t = Ticked(pipe[p])
    OBVIOUS
  <2>4. PICK s : s = [t EXCEPT !.at = "answered"]
    OBVIOUS
  <2>5. Wrote(p, s)
    BY <1>4, <2>3, <2>4 DEF Proceed
  <2>6. /\ FieldsKept(t) /\ t.outcome = None /\ t.response = pipe[p].response
        /\ t.news = pipe[p].news /\ t.read = pipe[p].read /\ t.reconcile = pipe[p].reconcile
    BY <1>1, <2>3, TicksOn
  <2>7. Reads(t, s) /\ s.at = "answered" /\ s.outcome = t.outcome /\ s.response = t.response
    BY <2>4, <2>6, MovesOn
  <2>8. Accounted(p)'
    BY <1>0, <1>1, <1>4, <2>1, <2>5, <2>6, <2>7, WorkIsAccounted DEF Reads, Places, Busy, MockRunValid
  <2>9. OthersStay(p)
    BY <1>1, <1>2, <2>5, StepsAside
  <2> QED
    BY <2>2, <2>8, <2>9
<1> QED
  BY <1>3, <1>4 DEF Persist

LEMMA FinishIsAccounted ==
  ASSUME MockRunValid, RefusalInv, NEW p \in Process, UNCHANGED job, Finish(p)
  PROVE  Accounted(p)' /\ OpenInv' /\ OthersStay(p)
<1> DEFINE answer == pipe[p].response.answer
           stance == ParsedStance(answer)
           status == IF stance = None THEN "failed" ELSE "succeeded"
           attempts == Append(open.attempts, [status |-> status, stance |-> stance])
<1>0. pipe[p].at = "answered" /\ lease = p /\ UNCHANGED <<cell, log, rows, posts>>
  BY DEF Finish, Holds
<1>1. /\ FieldsKept(pipe[p]) /\ PipeKept /\ OpenInv /\ OpenKept /\ pipe[p].outcome = None /\ pipe[p].reconcile = FALSE
      /\ open.phase = "answered" /\ open.response = pipe[p].response /\ pipe[p].read # "never" /\ lease \notin Process \ {p}
  BY <1>0, AtWorkIs DEF AtItsPlace
<1>2. CASE ~Parses(answer) /\ Step(p, Ended(pipe[p], "unparsable")) /\ UNCHANGED open
  <2>1. PICK s : s = Ended(pipe[p], "unparsable")
    OBVIOUS
  <2>2. Reads(pipe[p], s) /\ s.at = "open" /\ s.outcome = "unparsable"
    BY <1>1, <2>1, EndsWith
  <2>3. Stuck /\ Stuck'
    BY <1>1, <1>2 DEF Stuck, Parses
  <2>4. Accounted(p)'
    BY <1>0, <1>1, <1>2, <2>1, <2>2, <2>3, WorkIsAccounted DEF Reads, Places, Busy
  <2>5. OthersStay(p)
    BY <1>0, <1>1, <1>2, <2>3, StepsAside
  <2> QED
    BY <1>0, <1>1, <1>2, <2>4, <2>5, NothingMoved
<1>3. CASE /\ Parses(answer)
           /\ open' = [open EXCEPT !.phase = status, !.attempts = attempts]
           /\ \/ stance = None /\ Wrote(p, Ended(Ticked(pipe[p]), "failed"))
              \/ stance # None /\ Proceed(p, "landed", pipe[p]) /\ UNCHANGED lease
  <2>0. status \in {"failed", "succeeded"} /\ (stance # None => status = "succeeded")
    OBVIOUS
  <2> HIDE DEF status, attempts, stance
  <2>1. open'.phase = status /\ open'.input = open.input /\ OpenKept'
    <3> DEFINE a == [open EXCEPT !["phase"] = status]
               b == [a EXCEPT !["attempts"] = attempts]
    <3>0. open = [field \in OpenFields |-> open[field]] /\ {"phase", "input", "attempts"} \subseteq OpenFields
      BY <1>1 DEF OpenKept, OpenFields
    <3>1. PICK x : x = attempts
      OBVIOUS
    <3>2. open' = [[open EXCEPT !["phase"] = status] EXCEPT !["attempts"] = x]
      BY <1>3, <3>1
    <3>3. a = [field \in OpenFields |-> a[field]] /\ a.phase = status /\ a.input = open.input
      BY <3>0, OpenSet
    <3>4. open' = [a EXCEPT !["attempts"] = x]
      BY <3>2
    <3> HIDE DEF a
    <3>5. /\ [a EXCEPT !["attempts"] = x] = [field \in OpenFields |-> [a EXCEPT !["attempts"] = x][field]]
          /\ [a EXCEPT !["attempts"] = x].phase = status /\ [a EXCEPT !["attempts"] = x].input = open.input
      BY <3>0, <3>3, OpenSet
    <3> QED
      BY <3>4, <3>5 DEF OpenKept
  <2>2. OpenInv'
    BY <1>0, <1>1, <2>0, <2>1, OpenStays DEF Phases
  <2>3. ~Stuck
    BY <1>1, <1>3 DEF Stuck, Parses
  <2>4. CASE stance = None /\ Wrote(p, Ended(Ticked(pipe[p]), "failed"))
    <3>1. PICK t : t = Ticked(pipe[p])
      OBVIOUS
    <3>2. PICK s : s = Ended(t, "failed")
      OBVIOUS
    <3>3. /\ FieldsKept(t) /\ t.news = pipe[p].news /\ t.read = pipe[p].read /\ t.reconcile = pipe[p].reconcile
      BY <1>1, <3>1, TicksOn
    <3>4. Reads(t, s) /\ s.at = "open" /\ s.outcome = "failed"
      BY <3>2, <3>3, EndsWith
    <3>5. Wrote(p, s)
      BY <2>4, <3>1, <3>2
    <3>6. Accounted(p)'
      BY <1>0, <1>1, <3>3, <3>4, <3>5, WorkIsAccounted DEF Reads, Places, Busy
    <3>7. OthersStay(p)
      BY <1>1, <2>3, <3>5, StepsAside
    <3> QED
      BY <2>2, <3>6, <3>7
  <2>5. CASE stance # None /\ Proceed(p, "landed", pipe[p]) /\ UNCHANGED lease
    <3>1. PICK s : s = [pipe[p] EXCEPT !.at = "landed"]
      OBVIOUS
    <3>2. Reads(pipe[p], s) /\ s.at = "landed" /\ s.outcome = pipe[p].outcome
      BY <1>1, <3>1, MovesOn
    <3>3. Wrote(p, s)
      BY <2>5, <3>1 DEF Proceed
    <3>4. Accounted(p)'
      BY <1>0, <1>1, <2>0, <2>1, <2>5, <3>2, <3>3, WorkIsAccounted DEF Reads, Places, Busy, MockRunValid
    <3>5. OthersStay(p)
      BY <1>1, <2>3, <3>3, StepsAside
    <3> QED
      BY <2>2, <3>4, <3>5
  <2> QED
    BY <1>3, <2>4, <2>5
<1> QED
  BY <1>2, <1>3 DEF Finish

LEMMA CommitIsAccounted ==
  ASSUME MockRunValid, RefusalInv, NEW p \in Process, UNCHANGED job, Commit(p)
  PROVE  Accounted(p)' /\ OpenInv' /\ OthersStay(p)
<1>0. pipe[p].at = "landed" /\ lease = p /\ UNCHANGED cell
  BY DEF Commit, Holds
<1>1. /\ FieldsKept(pipe[p]) /\ PipeKept /\ OpenInv /\ OpenKept /\ pipe[p].outcome = None /\ pipe[p].reconcile = FALSE
      /\ open.phase = "succeeded" /\ lease \notin Process \ {p}
  BY <1>0, AtWorkIs DEF AtItsPlace
<1>2. ~pipe[p].news => (pipe[p].read = "never" => pipe[p].replay = <<>>)
  BY <1>0, <1>1, AtWorkIs DEF UpToDate, InProgress
<1>3. ~Stuck
  BY <1>1 DEF Stuck
<1>4. CASE Step(p, Ended(pipe[p], "inconsistent")) /\ UNCHANGED <<log, rows, posts, open>>
  <2>1. PICK s : s = Ended(pipe[p], "inconsistent")
    OBVIOUS
  <2>2. Reads(pipe[p], s) /\ s.at = "open" /\ s.outcome = "inconsistent"
    BY <1>1, <2>1, EndsWith
  <2>3. ~InProgress'
    BY <1>1, <1>4 DEF InProgress
  <2>4. Accounted(p)'
    BY <1>0, <1>1, <1>2, <1>4, <2>1, <2>2, <2>3, WorkIsAccounted DEF Reads, Places, Busy
  <2>5. OthersStay(p)
    BY <1>1, <1>3, <1>4, StepsAside
  <2> QED
    BY <1>0, <1>1, <1>4, <2>4, <2>5, NothingMoved
<1>5. CASE /\ open' = NoEvent
           /\ Wrote(p, [pipe[p] EXCEPT !.at = "committed", !.own = Len(log'), !.request = None, !.started = 0, !.response = None])
  <2>1. open'.phase = "none" /\ open'.input = None /\ OpenKept' /\ ~InProgress'
    BY <1>5 DEF NoEvent, OpenKept, OpenFields, InProgress
  <2>2. OpenInv'
    BY <2>1 DEF OpenInv, Phases
  <2>0. PICK n : n = Len(log')
    OBVIOUS
  <2> DEFINE r1 == [pipe[p] EXCEPT !.at = "committed"]
             r2 == [r1 EXCEPT !["own"] = n]
             r3 == [r2 EXCEPT !["request"] = None]
             r4 == [r3 EXCEPT !["started"] = 0]
             r5 == [r4 EXCEPT !["response"] = None]
             Fields == {"at", "own", "outcome", "news", "read", "reconcile", "replay"}
  <2>3. Wrote(p, r5)
    BY <1>5, <2>0
  <2>4. Fields \subseteq PipeFields /\ {"request", "started", "response"} \subseteq PipeFields \ Fields
    BY DEF PipeFields
  <2>5. Reads(pipe[p], r1) /\ r1.at = "committed" /\ r1.outcome = None
    BY <1>1, MovesOn
  <2> HIDE DEF r1
  <2>6. /\ FieldsKept(r2) /\ r2["own"] = n /\ \A g \in PipeFields \ {"own"} : r2[g] = r1[g]
    <3>1. FieldsKept(r1) /\ "own" \in PipeFields
      BY <2>4, <2>5 DEF Reads
    <3> QED
      BY <3>1, SetOne
  <2> HIDE DEF r2
  <2>7. FieldsKept(r3) /\ \A g \in PipeFields \ {"request"} : r3[g] = r2[g]
    BY <2>4, <2>6, SetOne
  <2> HIDE DEF r3
  <2>8. FieldsKept(r4) /\ \A g \in PipeFields \ {"started"} : r4[g] = r3[g]
    BY <2>4, <2>7, SetOne
  <2> HIDE DEF r4
  <2>9. FieldsKept(r5) /\ \A g \in PipeFields \ {"response"} : r5[g] = r4[g]
    BY <2>4, <2>8, SetOne
  <2> HIDE DEF r5
  <2>10. \A g \in Fields : r5[g] = r2[g]
    BY <2>4, <2>7, <2>8, <2>9
  <2>11. /\ r5.at = "committed" /\ r5.own = n /\ r5.outcome = None /\ r5.news = pipe[p].news /\ r5.read = pipe[p].read
         /\ r5.reconcile = pipe[p].reconcile /\ r5.replay = pipe[p].replay
    BY <2>4, <2>5, <2>6, <2>10 DEF Reads
  <2>12. Accounted(p)'
    BY <1>0, <1>1, <1>2, <2>0, <2>1, <2>3, <2>9, <2>11, WorkIsAccounted DEF Places, Busy, MockRunValid
  <2>13. OthersStay(p)
    BY <1>1, <1>3, <2>3, StepsAside
  <2> QED
    BY <2>2, <2>12, <2>13
<1> QED
  BY <1>4, <1>5 DEF Commit

LEMMA AdvanceIsAccounted ==
  ASSUME MockRunValid, RefusalInv, NEW p \in Process, UNCHANGED job, AdvanceContext(p)
  PROVE  Accounted(p)' /\ OpenInv' /\ OthersStay(p)
<1>0. pipe[p].at = "committed" /\ UNCHANGED <<cell, log, rows, posts, open, stamp, lease>>
  BY DEF AdvanceContext, store
<1>1. /\ FieldsKept(pipe[p]) /\ PipeKept /\ OpenInv /\ pipe[p].outcome = None /\ pipe[p].reconcile = FALSE
      /\ pipe[p].news \/ UpToDate(p)
  BY <1>0, AtWorkIs
<1>2. ~pipe[p].news =>
        /\ pipe[p].read = "never" => pipe[p].replay = IF InProgress' THEN <<open'.started>> ELSE <<>>
        /\ pipe[p].own = NextOrdinal
  BY <1>0, <1>1 DEF UpToDate, InProgress, NextOrdinal
<1>3. ASSUME NEW r, FieldsKept(r), r.news = pipe[p].news, r.read = pipe[p].read, r.reconcile = pipe[p].reconcile,
             r.replay = pipe[p].replay, NEW why \in {"overtaken", "inconsistent", "committed"},
             why = "overtaken" => pipe[p].own # NextOrdinal, Step(p, Ended(r, why))
      PROVE  Accounted(p)' /\ OpenInv' /\ OthersStay(p)
  <2>1. PICK s : s = Ended(r, why)
    OBVIOUS
  <2>2. Reads(r, s) /\ s.at = "open" /\ s.outcome = why
    BY <1>3, <2>1, EndsWith
  <2>3. Accounted(p)'
    BY <1>0, <1>1, <1>2, <1>3, <2>1, <2>2, WorkIsAccounted DEF Reads, Places, Busy
  <2>4. OthersStay(p)
    BY <1>0, <1>1, <1>3, StepsAside DEF Stuck
  <2> QED
    BY <1>0, <1>1, <2>3, <2>4, NothingMoved
<1> DEFINE r1 == [pipe[p] EXCEPT !["index"] = NextOrdinal]
           c == IF r1.context = NoContext THEN r1.context ELSE NextOrdinal
           r2 == [r1 EXCEPT !["context"] = c]
<1>4. {"index", "context", "news", "read", "reconcile", "replay"} \subseteq PipeFields
  BY DEF PipeFields
<1>5. Extended(pipe[p]) = r2
  BY DEF Extended
<1>6. FieldsKept(r1) /\ \A g \in PipeFields \ {"index"} : r1[g] = pipe[p][g]
  BY <1>1, <1>4, SetOne
<1>7. FieldsKept(r2) /\ \A g \in PipeFields \ {"context"} : r2[g] = r1[g]
  <2> HIDE DEF r1, c
  <2> QED
    BY <1>4, <1>6, SetOne
<1>8. CASE pipe[p].own # NextOrdinal /\ Step(p, Ended(r1, "overtaken"))
  <2> HIDE DEF r1
  <2> QED
    BY <1>3, <1>4, <1>6, <1>8
<1>9. CASE Step(p, Ended(pipe[p], "inconsistent"))
  BY <1>1, <1>3, <1>9
<1>10. CASE Step(p, Ended(r2, "committed"))
  <2> HIDE DEF r1, r2, c
  <2> QED
    BY <1>3, <1>4, <1>6, <1>7, <1>10
<1> QED
  BY <1>5, <1>8, <1>9, <1>10 DEF AdvanceContext

(* The caller's own steps: p is between two calls of execute().              *)
LEMMA CallerIsAccounted ==
  ASSUME MockRunValid, RefusalInv, NEW p \in Process, UNCHANGED <<cell, log, rows, posts, open, lease>>,
         NEW s, Reads(pipe[p], s), pipe[p].at = "open", s.at = "open", s.outcome \in {None, pipe[p].outcome},
         pipe'[p] = s, \A q \in Process \ {p} : pipe'[q] = pipe[q] /\ job'[q] = job[q],
         job'[p].at \in {"none", "between", "mark", "end"},
         job'[p].at # "none" => pipe[p].news \/ Len(log) = ReachedBy(p)'
  PROVE  Accounted(p)' /\ OpenInv' /\ OthersStay(p)
<1>1. OpenInv /\ AtItsPlace(p) /\ (pipe[p].news \/ UpToDate(p)) /\ (pipe[p].outcome = "unparsable" => Stuck)
  BY DEF RefusalInv, Accounted
<1>2. AtItsPlace(p)'
  BY <1>1 DEF AtItsPlace, Reads, Busy
<1>3. ~s.news => UpToDate(p)'
  BY <1>1 DEF UpToDate, Reads, InProgress, MockRunValid
<1>4. s.outcome = "unparsable" => Stuck'
  BY <1>1 DEF Stuck, MockRunValid
<1>5. OthersStay(p)
  BY DEF OthersStay, StaysWith, Stuck
<1> QED
  BY <1>1, <1>2, <1>3, <1>4, <1>5, NothingMoved DEF Accounted

LEMMA OutcomeGone ==
  ASSUME PipeKept, NEW p \in Process, Step(p, [pipe[p] EXCEPT !.outcome = None])
  PROVE  /\ Reads(pipe[p], pipe'[p]) /\ pipe'[p].at = pipe[p].at /\ pipe'[p].outcome = None
         /\ \A q \in Process \ {p} : pipe'[q] = pipe[q]
<1>1. PICK r : r = pipe[p]
  OBVIOUS
<1>2. PICK s : s = [r EXCEPT !.outcome = None]
  OBVIOUS
<1>3. Reads(r, s) /\ s.at = r.at /\ s.outcome = None
  BY <1>1, <1>2, SMT DEF PipeKept, Reads, FieldsKept, PipeFields
<1>4. pipe'[p] = s
  BY <1>1, <1>2, <1>3, Stepped DEF Reads
<1> QED
  BY <1>1, <1>3, <1>4, <1>2, OthersDoNotHear

LEMMA BeginIsAccounted ==
  ASSUME MockRunValid, RefusalInv, NEW p \in Process, NEW length \in Lengths, NEW marks \in Marks,
         NEW capacity \in cell.capacities, Begin(p, length, marks, capacity)
  PROVE  Accounted(p)' /\ OpenInv' /\ OthersStay(p)
<1> DEFINE at == IF length = 0 THEN "end" ELSE "between"
           asked == {NextOrdinal + k : k \in marks}
           j == NewJob(at, NextOrdinal, length, capacity, asked)
<1>1. /\ pipe[p].at = "open" /\ marks \subseteq 1 .. length
      /\ UNCHANGED <<cell, log, rows, posts, open, lease>> /\ job' = [job EXCEPT ![p] = j]
      /\ Step(p, [pipe[p] EXCEPT !.outcome = None]) /\ ReportInv /\ PipeKept
  BY DEF Begin, store, NewJob, RefusalInv, ReportInv
<1>2. length \in Nat /\ NextOrdinal \in Nat /\ Len(log) \in Nat /\ NextOrdinal = Len(log)
  BY <1>1, JobIs DEF MockRunValid, NextOrdinal
<1>3. asked \in SUBSET Nat
  BY <1>1, <1>2
<1>4. capacity \in Capacities
  BY <1>1 DEF ReportInv, Capacities
<1> HIDE DEF at, asked
<1>5. at \in {"end", "between"}
  BY DEF at
<1>6. j \in Jobs /\ j.at = at /\ j.start = NextOrdinal /\ j.done = 0
  <2> HIDE DEF j
  <2>1. PICK n \in Nat : n = NextOrdinal
    BY <1>2
  <2>2. j = NewJob(at, n, length, capacity, asked)
    BY <2>1 DEF j
  <2>3. LET x == NewJob(at, n, length, capacity, asked)
        IN x \in Jobs /\ x.at = at /\ x.start = n /\ x.target = n + length /\ x.done = 0 /\ x.taken = {}
    BY <1>2, <1>3, <1>4, <1>5, NewJobIs
  <2> QED
    BY <2>1, <2>2, <2>3
<1> HIDE DEF j
<1>7. job'[p] = j /\ \A q \in Process \ {p} : job'[q] = job[q]
  BY <1>1, <1>6, JobIsSet
<1>8. Len(log) = ReachedBy(p)'
  BY <1>2, <1>6, <1>7 DEF ReachedBy
<1> QED
  BY <1>1, <1>5, <1>6, <1>7, <1>8, OutcomeGone, CallerIsAccounted

LEMMA InvokeIsAccounted ==
  ASSUME MockRunValid, RefusalInv, NEW p \in Process, Invoke(p)
  PROVE  Accounted(p)' /\ OpenInv' /\ OthersStay(p)
<1>1. PICK j : j = [job[p] EXCEPT !.at = "invoked"]
  OBVIOUS
<1>2. job[p].at = "between" /\ Execute(p, job[p].capacity) /\ job' = [job EXCEPT ![p] = j] /\ ReportInv
  BY <1>1 DEF Invoke, Doing, Then, RefusalInv
<1>3. j \in Jobs /\ j.at = "invoked" /\ j.capacity = job[p].capacity
  BY <1>1, <1>2, JobIs DEF Jobs
<1>4. job'[p] = j /\ \A q \in Process \ {p} : job'[q] = job[q]
  BY <1>2, <1>3, JobIsSet
<1>5. pipe[p].at = "open" /\ pipe[p].outcome = None /\ lease = None
  BY <1>2 DEF ReportInv, CallInv, Execute
<1>6. Called(p, job[p].capacity)
  BY <1>2, <1>3, <1>4, <1>5 DEF Called
<1> QED
  BY <1>2, <1>6, ExecuteIsAccounted

LEMMA AfterInvocationIsAccounted ==
  ASSUME MockRunValid, RefusalInv, NEW p \in Process, AfterInvocation(p)
  PROVE  Accounted(p)' /\ OpenInv' /\ OthersStay(p)
<1> DEFINE at == IF NextOrdinal \in job[p].marks THEN "mark"
                 ELSE IF NextOrdinal = job[p].target THEN "end" ELSE "between"
<1>1. /\ pipe[p].at = "open" /\ UNCHANGED <<cell, log, rows, posts, open, lease>> /\ ReportInv /\ PipeKept
      /\ NextOrdinal = Len(log)
  BY DEF AfterInvocation, store, RefusalInv, ReportInv, NextOrdinal
<1>2. CASE Raised(p) /\ UNCHANGED pipe
  <2>1. job'[p].at = "none" /\ \A q \in Process \ {p} : job'[q] = job[q]
    BY <1>1, <1>2, NoJobIs, JobIsSet DEF Raised
  <2>2. Reads(pipe[p], pipe'[p])
    BY <1>1, <1>2 DEF Reads, PipeKept
  <2> QED
    BY <1>1, <1>2, <2>1, <2>2, CallerIsAccounted
<1>3. CASE /\ NextOrdinal = job[p].start + job[p].done + 1
           /\ job' = [job EXCEPT ![p].done = @ + 1, ![p].at = at]
           /\ Step(p, [pipe[p] EXCEPT !.outcome = None])
  <2>1. at \in {"mark", "end", "between"}
    OBVIOUS
  <2> HIDE DEF at
  <2>2. PICK j : j = [job[p] EXCEPT !.done = @ + 1, !.at = at]
    OBVIOUS
  <2>3. job[p] \in Jobs /\ job[p].done \in Nat /\ job[p].done + 1 \in Nat /\ job[p].start \in Nat
    BY <1>1, JobIs
  <2>4. j \in Jobs /\ j.at = at /\ j.done = job[p].done + 1 /\ j.start = job[p].start
    BY <2>1, <2>2, <2>3 DEF Jobs
  <2>5. job' = [job EXCEPT ![p] = j]
    BY <1>3, <2>2
  <2>6. job'[p] = j /\ \A q \in Process \ {p} : job'[q] = job[q]
    BY <1>1, <2>4, <2>5, JobIsSet
  <2>7. Len(log) = ReachedBy(p)'
    BY <1>1, <1>3, <2>3, <2>4, <2>6 DEF ReachedBy
  <2> QED
    BY <1>1, <1>3, <2>1, <2>4, <2>6, <2>7, OutcomeGone, CallerIsAccounted
<1> QED
  BY <1>2, <1>3 DEF AfterInvocation

LEMMA MarkIsAccounted ==
  ASSUME MockRunValid, RefusalInv, NEW p \in Process, Mark(p)
  PROVE  Accounted(p)' /\ OpenInv' /\ OthersStay(p)
<1> DEFINE name == job[p].start + job[p].done
           at == IF name = job[p].target THEN "end" ELSE "between"
           taken == job[p].taken \union {[name |-> name, of |-> NextOrdinal]}
<1>1. /\ job[p].at = "mark" /\ UNCHANGED <<cell, log, rows, posts, open, lease, pipe>> /\ ReportInv /\ PipeKept
      /\ job' = [job EXCEPT ![p].taken = @ \union {[name |-> name, of |-> NextOrdinal]}, ![p].at = at]
      /\ NextOrdinal = Len(log)
  BY DEF Mark, Doing, pipelineVars, store, RefusalInv, ReportInv, NextOrdinal
<1>2. PICK j : j = [job[p] EXCEPT !.taken = taken, !.at = at]
  OBVIOUS
<1>3. job[p] \in Jobs /\ name \in Nat /\ taken \in SUBSET [name : Nat, of : Nat]
  BY <1>1, JobIs DEF ReachedBy
<1>4. job' = [job EXCEPT ![p] = j]
  BY <1>1, <1>2
<1>5. at \in {"end", "between"}
  OBVIOUS
<1> HIDE DEF at, taken, name
<1>6. j \in Jobs /\ j.at = at /\ j.done = job[p].done /\ j.start = job[p].start
  BY <1>2, <1>3, <1>5 DEF Jobs
<1>7. job'[p] = j /\ \A q \in Process \ {p} : job'[q] = job[q]
  BY <1>1, <1>4, <1>6, JobIsSet
<1>8. pipe[p].at = "open"
  BY <1>1 DEF ReportInv, CallInv
<1>9. pipe[p].news \/ Len(log) = ReachedBy(p)
  BY <1>1, <1>8 DEF RefusalInv, Accounted, UpToDate
<1>10. pipe[p].news \/ Len(log) = ReachedBy(p)'
  BY <1>6, <1>7, <1>9 DEF ReachedBy
<1>11. Reads(pipe[p], pipe'[p])
  BY <1>1 DEF Reads, PipeKept
<1> QED
  BY <1>1, <1>5, <1>6, <1>7, <1>8, <1>10, <1>11, CallerIsAccounted

LEMMA EndIsAccounted ==
  ASSUME MockRunValid, RefusalInv, NEW p \in Process, End(p)
  PROVE  Accounted(p)' /\ OpenInv' /\ OthersStay(p)
<1>1. /\ job[p].at = "end" /\ UNCHANGED <<cell, log, rows, posts, open, lease, pipe>> /\ ReportInv /\ PipeKept /\ Raised(p)
  BY DEF End, Doing, pipelineVars, store, RefusalInv, ReportInv
<1>2. job'[p].at = "none" /\ \A q \in Process \ {p} : job'[q] = job[q]
  BY <1>1, NoJobIs, JobIsSet DEF Raised
<1>3. pipe[p].at = "open"
  BY <1>1 DEF ReportInv, CallInv
<1>4. Reads(pipe[p], pipe'[p])
  BY <1>1 DEF Reads, PipeKept
<1> QED
  BY <1>1, <1>2, <1>3, <1>4, CallerIsAccounted

LEMMA DieIsAccounted ==
  ASSUME MockRunValid, RefusalInv, NEW p \in Process, Die(p)
  PROVE  Accounted(p)' /\ OpenInv' /\ OthersStay(p)
<1>1. /\ Raised(p) /\ UNCHANGED <<cell, log, rows, posts, open>> /\ Step(p, Closed) /\ Free(p) /\ ReportInv /\ PipeKept /\ OpenInv
  BY DEF Die, Crash, RefusalInv, ReportInv
<1>2. \A q \in Process \ {p} : job'[q] = job[q]
  BY <1>1, NoJobIs, JobIsSet DEF Raised
<1>3. pipe'[p] = Closed
  BY <1>1, ClosedIsKept, Stepped
<1>4. /\ Closed.at = "closed" /\ Closed.outcome = None /\ Closed.news = FALSE /\ Closed.reconcile = FALSE
      /\ Closed.read = "never"
  BY DEF Closed
<1>5. Accounted(p)'
  BY <1>3, <1>4 DEF Accounted, AtItsPlace, Places, Busy, MockRunValid
<1>6. OthersStay(p)
  BY <1>1, <1>2, StepsAside DEF Free, Stuck
<1> QED
  BY <1>1, <1>5, <1>6, NothingMoved

LEMMA RestartIsAccounted ==
  ASSUME MockRunValid, RefusalInv, NEW p \in Process, Restart(p)
  PROVE  Accounted(p)' /\ OpenInv' /\ OthersStay(p)
<1>1. PICK reconcile \in BOOLEAN : Reopen(p, reconcile) /\ UNCHANGED <<job, reports, runs>>
  BY DEF Restart
<1> DEFINE replay == IF InProgress THEN <<open.started>> ELSE <<>>
           tick == stamp + IF reconcile THEN 2 ELSE 1
           opened == [Closed EXCEPT !["at"] = "open"]
           a == [opened EXCEPT !["reconcile"] = reconcile]
           b == [a EXCEPT !["replay"] = replay]
           s == [b EXCEPT !["tick"] = tick]
<1>2. /\ pipe[p].at = "closed" /\ Step(p, s) /\ UNCHANGED <<cell, log, rows, posts, open, lease>> /\ PipeKept /\ ReportInv
      /\ OpenInv /\ (reconcile => open.phase = "sent")
  BY <1>1 DEF Reopen, store, RefusalInv, ReportInv
<1>3. {"at", "outcome", "news", "read", "reconcile", "replay", "tick"} \subseteq PipeFields
  BY DEF PipeFields
<1>4. /\ FieldsKept(s) /\ s.at = "open" /\ s.outcome = None /\ s.news = FALSE /\ s.read = "never" /\ s.reconcile = reconcile
      /\ s.replay = replay
  <2> HIDE DEF replay, tick
  <2>1. FieldsKept(Closed) /\ Closed.outcome = None /\ Closed.news = FALSE /\ Closed.read = "never"
    BY ClosedIsKept DEF Closed
  <2>2. FieldsKept(opened) /\ opened["at"] = "open" /\ \A g \in PipeFields \ {"at"} : opened[g] = Closed[g]
    BY <1>3, <2>1, SetOne
  <2> HIDE DEF opened
  <2>3. FieldsKept(a) /\ a["reconcile"] = reconcile /\ \A g \in PipeFields \ {"reconcile"} : a[g] = opened[g]
    BY <1>3, <2>2, SetOne
  <2> HIDE DEF a
  <2>4. FieldsKept(b) /\ b["replay"] = replay /\ \A g \in PipeFields \ {"replay"} : b[g] = a[g]
    BY <1>3, <2>3, SetOne
  <2> HIDE DEF b
  <2>5. FieldsKept(s) /\ \A g \in PipeFields \ {"tick"} : s[g] = b[g]
    BY <1>3, <2>4, SetOne
  <2> HIDE DEF s
  <2> QED
    BY <1>3, <2>1, <2>2, <2>3, <2>4, <2>5
<1> HIDE DEF s
<1>5. pipe'[p] = s
  BY <1>2, <1>4, Stepped
<1>6. job'[p].at = "none"
  <2>1. job[p].at \in {"none", "between", "invoked", "mark", "end"}
    BY <1>2, JobIs DEF Jobs
  <2>2. job[p].at # "none" => CallInv(p)
    BY <1>2 DEF ReportInv
  <2> QED
    BY <1>1, <1>2, <2>1, <2>2 DEF CallInv
<1>7. AtItsPlace(p)'
  BY <1>4, <1>5 DEF AtItsPlace, Places, Busy
<1>8. UpToDate(p)'
  BY <1>2, <1>4, <1>5, <1>6 DEF UpToDate, InProgress, MockRunValid
<1>9. OthersStay(p)
  BY <1>1, <1>2, StepsAside DEF Stuck
<1> QED
  BY <1>2, <1>4, <1>5, <1>7, <1>8, <1>9, NothingMoved DEF Accounted, MockRunValid

(* An operator lets the failed event be tried again.                         *)
LEMMA AuthorizeIsAccounted ==
  ASSUME MockRunValid, RefusalInv, AuthorizeRetry
  PROVE  OpenInv' /\ \A q \in Process : Accounted(q)'
<1>1. /\ lease = None /\ open.phase = "failed" /\ UNCHANGED <<cell, log, rows, posts, lease, job>>
      /\ open' = [open EXCEPT !.phase = "authorized", !.request = None, !.started = 0, !.response = None]
      /\ pipe' = [q \in Process |-> IF pipe[q].at = "closed" THEN pipe[q] ELSE [pipe[q] EXCEPT !.news = TRUE]]
      /\ OpenInv /\ OpenKept /\ PipeKept
  BY DEF AuthorizeRetry, Authorize, RefusalInv, ReportInv, OpenInv
<1>2. open'.phase = "authorized" /\ open'.input = open.input /\ OpenKept'
  <2> DEFINE a == [open EXCEPT !["phase"] = "authorized"]
             b == [a EXCEPT !["request"] = None]
             c == [b EXCEPT !["started"] = 0]
             d == [c EXCEPT !["response"] = None]
  <2>0. open = [field \in OpenFields |-> open[field]] /\ {"phase", "input", "request", "started", "response"} \subseteq OpenFields
    BY <1>1 DEF OpenKept, OpenFields
  <2>1. open' = d
    BY <1>1
  <2>2. a = [field \in OpenFields |-> a[field]] /\ a.phase = "authorized" /\ a.input = open.input
    BY <2>0, OpenSet
  <2> HIDE DEF a
  <2>3. b = [field \in OpenFields |-> b[field]] /\ b.phase = "authorized" /\ b.input = open.input
    BY <2>0, <2>2, OpenSet
  <2> HIDE DEF b
  <2>4. c = [field \in OpenFields |-> c[field]] /\ c.phase = "authorized" /\ c.input = open.input
    BY <2>0, <2>3, OpenSet
  <2> HIDE DEF c
  <2>5. d = [field \in OpenFields |-> d[field]] /\ d.phase = "authorized" /\ d.input = open.input
    BY <2>0, <2>4, OpenSet
  <2> HIDE DEF d
  <2> QED
    BY <2>1, <2>5 DEF OpenKept
<1>3. OpenInv'
  BY <1>1, <1>2, OpenStays DEF Phases
<1>4. ASSUME NEW q \in Process PROVE Accounted(q)'
  <2>1. Heard(q)
    BY <1>1, Hears
  <2>2. StaysWith(q)
    BY <1>1, <2>1 DEF StaysWith, Stuck, MockRunValid
  <2> QED
    BY <2>2, OthersAreAccounted DEF RefusalInv
<1> QED
  BY <1>3, <1>4

LEMMA RefusalsBegin == ASSUME MockRunValid, MockRunInit PROVE RefusalInv
<1>1. ReportInv
  BY ReportsBegin
<1>2. open = NoEvent /\ pipe = [p \in Process |-> Closed]
  BY DEF MockRunInit, PipelineInit, StoreInit
<1>3. OpenInv
  BY <1>2 DEF OpenInv, OpenKept, OpenFields, NoEvent, Phases
<1>4. /\ Closed.at = "closed" /\ Closed.outcome = None /\ Closed.news = FALSE /\ Closed.reconcile = FALSE
      /\ Closed.read = "never"
  BY DEF Closed
<1>5. \A p \in Process : Accounted(p)
  BY <1>2, <1>4 DEF Accounted, AtItsPlace, Places, Busy, MockRunValid
<1> QED
  BY <1>1, <1>3, <1>5 DEF RefusalInv

LEMMA RefusalsGoOn == ASSUME MockRunValid, RefusalInv, [MockRunNext]_mockRunVars PROVE RefusalInv'
<1>0. ReportInv'
  BY ReportsGoOn DEF RefusalInv
<1>1. CASE AuthorizeRetry
  BY <1>0, <1>1, AuthorizeIsAccounted DEF RefusalInv
<1>2. ASSUME NEW p \in Process, MockRunStep(p) PROVE RefusalInv'
  <2>1. Work(p) => Accounted(p)' /\ OpenInv' /\ OthersStay(p)
    BY StartIsAccounted, PersistIsAccounted, FinishIsAccounted, CommitIsAccounted, AdvanceIsAccounted DEF Work, PipelineStep
  <2>2. Accounted(p)' /\ OpenInv' /\ OthersStay(p)
    BY <1>2, <2>1, RestartIsAccounted, BeginIsAccounted, InvokeIsAccounted, AfterInvocationIsAccounted, MarkIsAccounted,
       EndIsAccounted, DieIsAccounted DEF MockRunStep
  <2>3. ASSUME NEW q \in Process, q # p PROVE Accounted(q)'
    BY <2>2, <2>3, OthersAreAccounted DEF RefusalInv, OthersStay
  <2> QED
    BY <1>0, <2>2, <2>3 DEF RefusalInv
<1>3. CASE UNCHANGED mockRunVars
  <2>1. UNCHANGED <<cell, log, rows, posts, open, lease, pipe, job>>
    BY <1>3 DEF mockRunVars, pipelineVars, store
  <2>2. ASSUME NEW q \in Process PROVE Accounted(q)'
    BY <2>1, OthersAreAccounted DEF RefusalInv, StaysWith, Stuck
  <2> QED
    BY <1>0, <2>1, <2>2, NothingMoved DEF RefusalInv
<1> QED
  BY <1>1, <1>2, <1>3 DEF MockRunNext

LEMMA RefusalsAreExplained == ASSUME MockRunValid, RefusalInv PROVE RefusedWithReason
<1>1. ASSUME NEW p \in Process
      PROVE  LET r == pipe[p]
             IN /\ r.outcome = "start" => r.news \/ r.read = "more"
                /\ r.outcome \in {"overtaken", "complete"} => r.news
                /\ r.outcome = "reconciliation" => r.news \/ open.phase = "sent"
                /\ r.outcome = "input" /\ job[p].at = "invoked" =>
                     r.news \/ job[p].capacity # open.input.exposure.capacity
                /\ r.outcome = "unparsable" => open.response.answer = "oversized"
  <2>1. Accounted(p) /\ AtItsPlace(p)
    BY DEF RefusalInv, Accounted
  <2>2. pipe[p].outcome = "unparsable" => open.response.answer = "oversized"
    BY <2>1 DEF Accounted, Stuck
  <2>3. pipe[p].outcome # None => pipe[p].at = "open"
    BY <2>1 DEF AtItsPlace
  <2>4. pipe[p].outcome \in {"start", "overtaken", "complete", "reconciliation", "input"} => pipe[p].news \/ UpToDate(p)
    BY <2>1, <2>3 DEF Accounted, MockRunValid
  <2> QED
    BY <2>2, <2>4 DEF UpToDate
<1> QED
  BY <1>1 DEF RefusedWithReason, Doing

(* A pipeline (pipeline.py, engine.py) refuses to go on with an event only   *)
(* for a reason, however the processes are interleaved, die, are opened again*)
(* and retried: another process wrote since this one was opened, an attempt  *)
(* of its own has read the clock before, a request is on its way that nobody *)
(* brought the answer to, the caller asks for another feed capacity than the *)
(* stored input has, or the answer is beyond the parser.                     *)
THEOREM RefusalsHaveReasons ==
  ASSUME MockRunValid
  PROVE  MockRunSpec => []RefusedWithReason
<1>1. MockRunInit => RefusalInv
  BY RefusalsBegin
<1>2. RefusalInv /\ [MockRunNext]_mockRunVars => RefusalInv'
  BY RefusalsGoOn
<1>3. RefusalInv => RefusedWithReason
  BY RefusalsAreExplained
<1> QED
  BY <1>1, <1>2, <1>3, PTL DEF MockRunSpec

=============================================================================
