--------------------------- MODULE ServiceProofs ---------------------------
(***************************************************************************)
(* What serves requests.                                                   *)
(*                                                                         *)
(* A call is delivered at most once and its answer is that of the guest it *)
(* was delivered to, for every number of calls, runs and replicas.  The    *)
(* request of a call is in one place at a time: in the mailbox of the run  *)
(* it was written for, in the hands of that run's worker, or delivered;    *)
(* and the right to answer it is used up by the first response.  No        *)
(* mailbox holds more requests than its limit.                             *)
(*                                                                         *)
(* A request of the HTTP listener reaches the guest whole or not at all,   *)
(* for every number of connections and every limit: where a connection is  *)
(* says how much of its request was read.                                  *)
(***************************************************************************)
EXTENDS ServiceInvocation, HttpIngress, FiniteSetTheorems, WellFoundedInduction, TLAPS
-----------------------------------------------------------------------------
(* Calls                                                                   *)

Results == {"none", "refused", "busy", "stopping", "answered", "invalid", "timeout", "moved"}

CallState == [pc : {"new", "waiting", "polled", "rmRequest", "rmActive", "rmResponse", "ended"},
              run : Nat, ready : Nat, result : Results]

WorkerState == [pc : {"idle", "opening", "writing", "closing"}, opening : Calls \cup {NoCall},
                holding : Calls \cup {NoCall}, claimed : SUBSET Calls]

Delivery == [call : Calls, run : Runs, nth : Nat]

CallTypes ==
    /\ call \in [Calls -> CallState]
    /\ files \subseteq Envelope
    /\ worker \in [Runs -> WorkerState]
    /\ readiness \in [Runs -> Nat] /\ signals \in [Runs -> Nat]
    /\ late \in [Calls -> 0 .. 2]
    /\ delivered \subseteq Delivery

Delivered(c) == \E d \in delivered : d.call = c

\* Where the request of a call is.
RequestInv ==
    /\ \A f \in files : call[f.call].pc # "new" /\ f.run = call[f.call].run
    /\ \A f \in files : f.kind = "request" => ~Delivered(f.call)
    /\ \A n \in Runs : worker[n].pc = "opening" =>
          /\ worker[n].opening \in Calls
          /\ call[worker[n].opening].pc # "new" /\ call[worker[n].opening].run = n
          /\ ~Delivered(worker[n].opening)
          /\ \A f \in files : f.kind = "request" => f.call # worker[n].opening
    /\ \A d \in delivered : call[d.call].pc # "new" /\ d.run = call[d.call].run /\ d.nth = 1

\* Who may still answer it.
AnswerInv ==
    /\ \A n \in Runs : \A c \in worker[n].claimed : \E d \in delivered : d.call = c /\ d.run = n
    /\ \A n \in Runs : worker[n].pc = "writing" => worker[n].holding \in worker[n].claimed
    /\ \A f \in files : f.kind = "response" =>
          /\ Delivered(f.call)
          /\ \A n \in Runs : f.call \notin worker[n].claimed
    /\ \A f, g \in files : f.kind = "response" /\ g.kind = "response" /\ f.call = g.call => f = g
    /\ \A c \in Calls : call[c].result = "answered" =>
          /\ Delivered(c)
          /\ \A n \in Runs : c \notin worker[n].claimed
          /\ \A f \in files : f.call = c /\ f.kind = "response" => f.inTime

LEMMA TypesInit == InvocationInit => CallTypes /\ RequestInv /\ AnswerInv
  <1> SUFFICES ASSUME InvocationInit PROVE CallTypes /\ RequestInv /\ AnswerInv
    BY Zenon
  <1>1. [pc |-> "new", run |-> 0, ready |-> 0, result |-> "none"] \in CallState /\ IdleWorker \in WorkerState
    BY Zenon DEF CallState, WorkerState, IdleWorker, Results
  <1>2. CallTypes
    BY <1>1 DEF InvocationInit, CallTypes
  <1>3. RequestInv
    BY Zenon DEF InvocationInit, RequestInv, IdleWorker
  <1>4. AnswerInv
    BY Zenon DEF InvocationInit, AnswerInv, IdleWorker
  <1> QED
    BY Zenon, <1>2, <1>3, <1>4

\* A thread moves on, and may note a result.
Moved(c, pc, result) == call' = [call EXCEPT ![c].pc = pc] \/ call' = [call EXCEPT ![c].pc = pc, ![c].result = result]

LEMMA CallMoves ==
    ASSUME CallTypes, NEW c \in Calls, NEW result \in Results,
           NEW pc \in {"waiting", "polled", "rmRequest", "rmActive", "rmResponse", "ended"},
           Moved(c, pc, result)
    PROVE  /\ call' \in [Calls -> CallState]
           /\ \A b \in Calls : b # c => call'[b] = call[b]
           /\ call'[c].run = call[c].run /\ call'[c].pc = pc
           /\ call'[c].result = call[c].result \/ call'[c].result = result
  <1>1. [call[c] EXCEPT !.pc = pc] \in CallState /\ [[call[c] EXCEPT !.pc = pc] EXCEPT !.result = result] \in CallState
    BY ZenonT(60) DEF CallTypes, CallState
  <1>2. call'[c] = [call[c] EXCEPT !.pc = pc] \/ call'[c] = [[call[c] EXCEPT !.pc = pc] EXCEPT !.result = result]
    BY Zenon DEF CallTypes, Moved
  <1>3. call' \in [Calls -> CallState] /\ \A b \in Calls : b # c => call'[b] = call[b]
    BY Zenon, <1>1 DEF CallTypes, Moved
  <1>4. call[c] \in CallState
    BY Zenon DEF CallTypes
  <1> QED
    BY Zenon, <1>2, <1>3, <1>4 DEF CallState

\* What a step of a thread does to its call and to the files: it only removes
\* files and takes a response that is in time for an answer, or it is the one
\* that writes the request.
ThreadEffect(c) ==
    /\ UNCHANGED <<worker, delivered, readiness, signals>>
    /\ call' \in [Calls -> CallState] /\ \A b \in Calls : b # c => call'[b] = call[b]
    /\ files' \subseteq Envelope
    /\ late' \in [Calls -> 0 .. 2]
    /\ \/ /\ files' \subseteq files
          /\ call'[c].run = call[c].run
          /\ call[c].pc # "new" => call'[c].pc # "new"
          /\ \/ call'[c].result = call[c].result \/ call'[c].result # "answered"
             \/ \E f \in files : f.kind = "response" /\ f.call = c /\ f.inTime
       \/ /\ call[c].pc = "new" /\ call'[c].pc # "new" /\ call'[c].result = "none"
          /\ \E n \in Runs : call'[c].run = n /\ files' = files \cup {Letter(n, c, "request")}

LEMMA ThreadEffects ==
    ASSUME CallTypes, NEW c \in Calls, ThreadNext(c)
    PROVE  ThreadEffect(c)
  <1>0. ASSUME UNCHANGED <<worker, delivered, readiness, signals, late>>, files' \subseteq files,
               NEW result \in Results,
               NEW pc \in {"waiting", "polled", "rmRequest", "rmActive", "rmResponse", "ended"},
               Moved(c, pc, result),
               result = "answered" => \E f \in files : f.kind = "response" /\ f.call = c /\ f.inTime
        PROVE  ThreadEffect(c)
    <2>1. /\ call' \in [Calls -> CallState] /\ \A b \in Calls : b # c => call'[b] = call[b]
          /\ call'[c].run = call[c].run /\ call'[c].pc = pc
          /\ call'[c].result = call[c].result \/ call'[c].result = result
      BY <1>0, CallMoves
    <2>2. files' \subseteq Envelope /\ late' \in [Calls -> 0 .. 2]
      BY Zenon, <1>0 DEF CallTypes
    <2> QED
      BY Zenon, <1>0, <2>1, <2>2 DEF ThreadEffect
  <1>1. CASE Invoke(c)
    <2>0. UNCHANGED <<worker, delivered, readiness, signals, late>> /\ call[c].pc = "new"
      BY Zenon, <1>1 DEF Invoke
    <2>1. ASSUME NEW result \in {"refused", "busy"}, Ended(c, result), UNCHANGED files
          PROVE  ThreadEffect(c)
      <3>1. Moved(c, "ended", result) /\ result \in Results /\ result # "answered"
        BY Zenon, <2>1 DEF Moved, Ended, Results
      <3> QED
        BY Zenon, <1>0, <2>0, <2>1, <3>1
    <2>2. ASSUME NEW n \in Runs, files' = files \cup {Letter(n, c, "request")},
                 call' = [call EXCEPT ![c] = [pc |-> "waiting", run |-> n,
                                              ready |-> readiness[n], result |-> "none"]]
          PROVE  ThreadEffect(c)
      <3>1. Letter(n, c, "request") \in Envelope
        BY Zenon DEF Letter, Envelope
      <3>2. [pc |-> "waiting", run |-> n, ready |-> readiness[n], result |-> "none"] \in CallState
        <4>1. n \in Nat /\ readiness[n] \in Nat
          BY DEF CallTypes, Runs
        <4> QED
          BY Zenon, <4>1 DEF CallState, Results
      <3>3. call' \in [Calls -> CallState]
        BY Zenon, <2>2, <3>2 DEF CallTypes
      <3>4. call'[c] = [pc |-> "waiting", run |-> n, ready |-> readiness[n], result |-> "none"]
        BY Zenon, <2>2 DEF CallTypes
      <3>5. \A b \in Calls : b # c => call'[b] = call[b]
        BY Zenon, <2>2 DEF CallTypes
      <3>6. files' \subseteq Envelope /\ late' \in [Calls -> 0 .. 2]
        BY Zenon, <2>0, <2>2, <3>1 DEF CallTypes
      <3>7. call'[c].pc # "new" /\ call'[c].result = "none" /\ call'[c].run = n
        BY <3>4
      <3> QED
        BY Zenon, <2>0, <2>2, <3>3, <3>5, <3>6, <3>7 DEF ThreadEffect
    <2> QED
      BY Zenon, <1>1, <2>1, <2>2 DEF Invoke, ReadyRuns
  <1>2. CASE PollResponse(c)
    <2>0. UNCHANGED <<worker, delivered, readiness, signals, late, files>>
      BY Zenon, <1>2 DEF PollResponse
    <2>1. CASE Concluded(c, "stopping") \/ Concluded(c, "invalid")
      BY Zenon, <1>0, <2>0, <2>1 DEF Concluded, Moved, Results
    <2>2. CASE call' = [call EXCEPT ![c].pc = "polled"]
      BY Zenon, <1>0, <2>0, <2>2 DEF Moved, Results
    <2>3. ASSUME NEW f \in Answers(c), f.inTime, Concluded(c, "answered") PROVE ThreadEffect(c)
      <3>1. f \in files /\ f.kind = "response" /\ f.call = c
        BY Zenon DEF Answers, Mailbox
      <3> QED
        BY Zenon, <1>0, <2>0, <2>3, <3>1 DEF Concluded, Moved, Results
    <2> QED
      BY Zenon, <1>2, <2>1, <2>2, <2>3 DEF PollResponse, AcceptsAnswer
  <1>3. CASE PollDeadline(c)
    <2>0. UNCHANGED <<worker, delivered, readiness, signals, late, files>>
      BY Zenon, <1>3 DEF PollDeadline
    <2>1. CASE Concluded(c, "timeout") \/ Concluded(c, "moved")
      BY Zenon, <1>0, <2>0, <2>1 DEF Concluded, Moved, Results
    <2>2. CASE call' = [call EXCEPT ![c].pc = "waiting"]
      BY Zenon, <1>0, <2>0, <2>2 DEF Moved, Results
    <2> QED
      BY Zenon, <1>3, <2>1, <2>2 DEF PollDeadline
  <1>4. CASE CleanUp(c)
    <2>0. UNCHANGED <<worker, delivered, readiness, signals, late>> /\ files' \subseteq files
      BY Zenon, <1>4 DEF CleanUp, Without
    <2>1. CASE call' = [call EXCEPT ![c].pc = "rmActive"] \/ call' = [call EXCEPT ![c].pc = "rmResponse"]
      BY Zenon, <1>0, <2>0, <2>1 DEF Moved, Results
    <2>2. CASE Ended(c, call[c].result)
      <3>1. call' = [call EXCEPT ![c].pc = "ended"]
        BY Zenon, <2>2 DEF Ended, CallTypes, CallState
      <3> QED
        BY Zenon, <1>0, <2>0, <3>1 DEF Moved, Results
    <2> QED
      BY Zenon, <1>4, <2>1, <2>2 DEF CleanUp
  <1>5. CASE TimePasses(c)
    <2>1. late' \in [Calls -> 0 .. 2]
      BY <1>5 DEF TimePasses, CallTypes
    <2> QED
      BY Zenon, <1>5, <2>1 DEF TimePasses, ThreadEffect, CallTypes
  <1> QED
    BY Zenon, <1>1, <1>2, <1>3, <1>4, <1>5 DEF ThreadNext

CallInv == CallTypes /\ RequestInv /\ AnswerInv

\* A step of a daemon thread.
LEMMA ThreadKeeps ==
    ASSUME CallInv, NEW c \in Calls, ThreadNext(c)
    PROVE  CallInv'
  <1> USE DEF CallInv
  <1>0. ThreadEffect(c)
    BY Zenon, ThreadEffects
  <1>1. CallTypes'
    <2>1. CallState' = CallState /\ WorkerState' = WorkerState /\ Envelope' = Envelope /\ Delivery' = Delivery /\ Runs' = Runs
      BY Zenon DEF CallState, Results, WorkerState, Envelope, Delivery, Runs
    <2> QED
      BY Zenon, <1>0, <2>1 DEF CallTypes, ThreadEffect
  <1>2. \A b \in Calls : Delivered(b)' <=> Delivered(b)
    BY Zenon, <1>0 DEF ThreadEffect, Delivered
  <1>t. /\ \A f \in files : f.call \in Calls /\ f.run \in Runs
        /\ \A d \in delivered : d.call \in Calls
        /\ \A n \in Runs : worker[n].claimed \subseteq Calls
    BY Zenon DEF CallTypes, Envelope, Delivery, WorkerState
  <1>3. CASE files' \subseteq files /\ call'[c].run = call[c].run /\ (call[c].pc # "new" => call'[c].pc # "new")
    <2>0. UNCHANGED <<worker, delivered>> /\ \A b \in Calls : b # c => call'[b] = call[b]
      BY Zenon, <1>0 DEF ThreadEffect
    <2>1. \A b \in Calls : call'[b].run = call[b].run /\ (call[b].pc # "new" => call'[b].pc # "new")
      BY Zenon, <1>3, <2>0
    <2>2. RequestInv'
      <3>1. \A f \in files' : call'[f.call].pc # "new" /\ f.run = call'[f.call].run
        BY Zenon, <1>3, <1>t, <2>1 DEF RequestInv
      <3>2. \A f \in files' : f.kind = "request" => ~Delivered(f.call)'
        BY Zenon, <1>2, <1>3, <1>t DEF RequestInv
      <3>3. ASSUME NEW n \in Runs, worker'[n].pc = "opening"
            PROVE  /\ worker'[n].opening \in Calls
                   /\ call'[worker'[n].opening].pc # "new" /\ call'[worker'[n].opening].run = n
                   /\ ~Delivered(worker[n].opening)'
                   /\ \A f \in files' : f.kind = "request" => f.call # worker'[n].opening
        BY SMTT(60), <1>3, <2>0, <2>1, <3>3 DEF RequestInv, Delivered
      <3>4. \A d \in delivered' : call'[d.call].pc # "new" /\ d.run = call'[d.call].run /\ d.nth = 1
        BY SMTT(60), <1>t, <2>0, <2>1 DEF RequestInv
      <3> QED
        BY Zenon, <3>1, <3>2, <3>3, <3>4 DEF RequestInv
    <2>3. AnswerInv'
      <3>1. \A b \in Calls : call'[b].result = "answered" =>
               /\ Delivered(b)
               /\ \A n \in Runs : b \notin worker[n].claimed
               /\ \A f \in files : f.call = b /\ f.kind = "response" => f.inTime
        BY <1>0, <1>3, <2>0, <1>t DEF AnswerInv, ThreadEffect, RequestInv, Letter
      <3> QED
        BY SMTT(60), <1>2, <1>3, <1>t, <2>0, <3>1 DEF AnswerInv
    <2> QED
      BY Zenon, <1>1, <2>2, <2>3
  <1>4. ASSUME NEW n \in Runs, call[c].pc = "new", call'[c].pc # "new", call'[c].result = "none",
               call'[c].run = n, files' = files \cup {Letter(n, c, "request")}
        PROVE  CallInv'
    <2>0. UNCHANGED <<worker, delivered>> /\ \A b \in Calls : b # c => call'[b] = call[b]
      BY Zenon, <1>0 DEF ThreadEffect
    <2>1. /\ \A f \in files : f.call # c
          /\ ~Delivered(c)
          /\ \A m \in Runs : worker[m].pc = "opening" => worker[m].opening # c
      BY <1>4 DEF RequestInv, Delivered
    <2>2. Letter(n, c, "request").kind = "request" /\ Letter(n, c, "request").call = c /\ Letter(n, c, "request").run = n
      BY Zenon DEF Letter
    <2>3. RequestInv'
      <3>1. \A f \in files' : call'[f.call].pc # "new" /\ f.run = call'[f.call].run
        BY SMTT(60), <1>4, <1>t, <2>0, <2>1, <2>2 DEF RequestInv
      <3>2. \A f \in files' : f.kind = "request" => ~Delivered(f.call)'
        BY SMTT(60), <1>2, <1>4, <1>t, <2>1, <2>2 DEF RequestInv
      <3>3. ASSUME NEW m \in Runs, worker'[m].pc = "opening"
            PROVE  /\ worker'[m].opening \in Calls
                   /\ call'[worker'[m].opening].pc # "new" /\ call'[worker'[m].opening].run = m
                   /\ ~Delivered(worker[m].opening)'
                   /\ \A f \in files' : f.kind = "request" => f.call # worker'[m].opening
        BY SMTT(60), <1>4, <2>0, <2>1, <2>2, <3>3 DEF RequestInv, Delivered
      <3>4. \A d \in delivered' : call'[d.call].pc # "new" /\ d.run = call'[d.call].run /\ d.nth = 1
        BY SMTT(60), <1>t, <2>0, <2>1 DEF RequestInv, Delivered
      <3> QED
        BY Zenon, <3>1, <3>2, <3>3, <3>4 DEF RequestInv
    <2>4. AnswerInv'
      <3>1. \A f \in files' : f.kind = "response" => f \in files
        BY Zenon, <1>4, <2>2
      <3> QED
        BY SMTT(60), <1>2, <1>4, <1>t, <2>0, <3>1 DEF AnswerInv
    <2> QED
      BY Zenon, <1>1, <2>3, <2>4
  <1> QED
    BY Zenon, <1>0, <1>3, <1>4 DEF ThreadEffect

\* A step that changes one worker and the files of its run.
WorkerChange(n, w) ==
    /\ w \in WorkerState
    /\ worker' \in [Runs -> WorkerState] /\ worker'[n] = w
    /\ \A m \in Runs : m # n => worker'[m] = worker[m]
    /\ UNCHANGED <<call, late, readiness, signals>>

LEMMA ChangeTypes ==
    ASSUME CallTypes, NEW n \in Runs, NEW w, WorkerChange(n, w),
           files' \subseteq Envelope, delivered' \subseteq Delivery
    PROVE  CallTypes'
  <1>1. CallState' = CallState /\ WorkerState' = WorkerState /\ Envelope' = Envelope /\ Delivery' = Delivery /\ Runs' = Runs
    BY Zenon DEF CallState, Results, WorkerState, Envelope, Delivery, Runs
  <1> QED
    BY Zenon, <1>1 DEF CallTypes, WorkerChange

\* A worker that is given no new request and no right to answer, and that at
\* most removes files.
LEMMA WorkerLosesNothing ==
    ASSUME CallInv, NEW n \in Runs, NEW w, WorkerChange(n, w), UNCHANGED delivered, files' \subseteq files,
           w.pc # "opening", w.claimed \subseteq worker[n].claimed, w.pc = "writing" => w.holding \in w.claimed
    PROVE  CallInv'
  <1> USE DEF CallInv
  <1>1. CallTypes'
    BY Zenon, ChangeTypes DEF CallTypes
  <1>2. \A b : Delivered(b)' <=> Delivered(b)
    BY Zenon DEF Delivered
  <1>3. call' = call /\ \A m \in Runs : worker'[m].claimed \subseteq worker[m].claimed
    BY Zenon DEF WorkerChange
  <1>4. RequestInv'
    <2>1. ASSUME NEW m \in Runs, worker'[m].pc = "opening"
          PROVE  /\ worker'[m].opening \in Calls
                 /\ call'[worker'[m].opening].pc # "new" /\ call'[worker'[m].opening].run = m
                 /\ ~Delivered(worker[m].opening)'
                 /\ \A f \in files' : f.kind = "request" => f.call # worker'[m].opening
      BY SMTT(60), <2>1 DEF RequestInv, WorkerChange, Delivered
    <2> QED
      BY Zenon, <1>2, <1>3, <2>1 DEF RequestInv
  <1>5. AnswerInv'
    <2>1. \A m \in Runs : worker'[m].pc = "writing" => worker'[m].holding \in worker'[m].claimed
      BY DEF AnswerInv, WorkerChange
    <2> QED
      BY SMTT(60), <1>2, <1>3, <2>1 DEF AnswerInv
  <1> QED
    BY Zenon, <1>1, <1>4, <1>5

\* take_request
LEMMA ClaimKeeps ==
    ASSUME CallInv, NEW n \in Runs, NEW c \in Calls, Claim(n, c)
    PROVE  CallInv'
  <1> USE DEF CallInv
  <1> DEFINE w == [worker[n] EXCEPT !.pc = "opening", !.opening = c]
             letter == Letter(n, c, "active")
  <1>0. worker[n] \in WorkerState /\ UNCHANGED delivered
    BY Zenon DEF CallTypes, Claim
  <1>1. w \in WorkerState /\ w.claimed = worker[n].claimed /\ w.pc = "opening" /\ w.opening = c
    BY ZenonT(60), <1>0 DEF WorkerState
  <1>2. WorkerChange(n, w)
    BY Zenon, <1>1 DEF Claim, CallTypes, WorkerChange
  <1>3. letter \in Envelope /\ letter.kind = "active" /\ letter.call = c /\ letter.run = n
    BY Zenon DEF Letter, Envelope
  <1>4. /\ \A f \in files' : f \in files \/ f = letter
        /\ \A f \in files' : f.kind = "request" => f \in files /\ (f.run # n \/ f.call # c)
    BY Zenon, <1>3 DEF Claim, Without
  <1>5. PICK r \in files : r.run = n /\ r.call = c /\ r.kind = "request"
    BY Zenon DEF Claim, HasLetter
  <1>6. call[c].pc # "new" /\ call[c].run = n /\ ~Delivered(c)
    BY Zenon, <1>5 DEF RequestInv
  <1> HIDE DEF w, letter
  <1>7. CallTypes'
    BY Zenon, <1>0, <1>2, <1>3, <1>4, ChangeTypes DEF CallTypes
  <1>8. \A b : Delivered(b)' <=> Delivered(b)
    BY Zenon, <1>0 DEF Delivered
  <1>9. call' = call /\ \A m \in Runs : worker'[m].claimed = worker[m].claimed
    BY Zenon, <1>1, <1>2 DEF WorkerChange
  <1>10. RequestInv'
    <2>1. \A f \in files' : f.kind = "request" => f.call # c
      BY SMTT(60), <1>4, <1>6 DEF RequestInv
    <2>2. ASSUME NEW m \in Runs, worker'[m].pc = "opening"
          PROVE  /\ worker'[m].opening \in Calls
                 /\ call'[worker'[m].opening].pc # "new" /\ call'[worker'[m].opening].run = m
                 /\ ~Delivered(worker[m].opening)'
                 /\ \A f \in files' : f.kind = "request" => f.call # worker'[m].opening
      BY SMTT(60), <1>0, <1>1, <1>2, <1>4, <1>6, <1>9, <2>1, <2>2 DEF RequestInv, WorkerChange, Delivered
    <2>3. \A f \in files' : call'[f.call].pc # "new" /\ f.run = call'[f.call].run
      BY Zenon, <1>3, <1>4, <1>6, <1>9 DEF RequestInv
    <2>4. \A f \in files' : f.kind = "request" => ~Delivered(f.call)'
      BY Zenon, <1>4, <1>8 DEF RequestInv
    <2> QED
      BY Zenon, <1>0, <1>9, <2>2, <2>3, <2>4 DEF RequestInv
  <1>11. AnswerInv'
    <2>1. \A m \in Runs : worker'[m].pc = "writing" => worker'[m].holding \in worker'[m].claimed
      BY Zenon, <1>1, <1>2 DEF AnswerInv, WorkerChange
    <2>2. \A f \in files' : f.kind = "response" => f \in files
      BY Zenon, <1>3, <1>4
    <2> QED
      BY SMTT(60), <1>0, <1>8, <1>9, <2>1, <2>2 DEF AnswerInv
  <1> QED
    BY Zenon, <1>7, <1>10, <1>11

\* open_claimed, when the guest gets the request.
LEMMA DeliveryKeeps ==
    ASSUME CallInv, NEW n \in Runs, NEW c, c = worker[n].opening,
           phase[n] = "live", worker[n].pc = "opening", UNCHANGED files,
           worker' = [worker EXCEPT ![n] = [pc |-> "idle", opening |-> NoCall, holding |-> c,
                                            claimed |-> worker[n].claimed \cup {c}]],
           delivered' = delivered \cup
               {[call |-> c, run |-> n, nth |-> Cardinality({d \in delivered : d.call = c}) + 1]},
           UNCHANGED <<call, late, readiness, signals>>
    PROVE  CallInv'
  <1> USE DEF CallInv
  <1> DEFINE w == [pc |-> "idle", opening |-> NoCall, holding |-> c, claimed |-> worker[n].claimed \cup {c}]
             new == [call |-> c, run |-> n, nth |-> 1]
  <1>0. c \in Calls /\ call[c].pc # "new" /\ call[c].run = n /\ ~Delivered(c)
    BY Zenon DEF RequestInv
  <1>1. delivered' = delivered \cup {new}
    <2>1. {d \in delivered : d.call = c} = {}
      BY Zenon, <1>0 DEF Delivered
    <2> QED
      BY SMTT(60), <2>1, FS_EmptySet
  <1>2. new \in Delivery /\ new.call = c /\ new.run = n /\ new.nth = 1
    BY Zenon, <1>0 DEF Delivery
  <1>3. /\ w \in WorkerState /\ w.pc = "idle" /\ w.claimed = worker[n].claimed \cup {c}
    BY Zenon, <1>0 DEF CallTypes, WorkerState
  <1>4. WorkerChange(n, w)
    BY Zenon, <1>3 DEF CallTypes, WorkerChange
  <1> HIDE DEF w, new
  <1>5. CallTypes'
    BY Zenon, <1>1, <1>2, <1>4, ChangeTypes DEF CallTypes
  <1>6. \A b : Delivered(b)' <=> Delivered(b) \/ b = c
    BY ZenonT(60), <1>1, <1>2 DEF Delivered
  <1>7. RequestInv'
    <2>1. \A f \in files' : f.kind = "request" => ~Delivered(f.call)'
      BY ZenonT(40), <1>6 DEF RequestInv
    <2>2. ASSUME NEW m \in Runs, worker'[m].pc = "opening"
          PROVE  /\ worker'[m].opening \in Calls
                 /\ call'[worker'[m].opening].pc # "new" /\ call'[worker'[m].opening].run = m
                 /\ ~Delivered(worker[m].opening)'
                 /\ \A f \in files' : f.kind = "request" => f.call # worker'[m].opening
      <3>1. m # n /\ worker'[m] = worker[m]
        BY Zenon, <1>3, <1>4, <2>2 DEF WorkerChange
      <3>2. worker[m].opening \in Calls /\ call[worker[m].opening].run = m /\ worker[m].opening # c
        BY Zenon, <1>0, <2>2, <3>1 DEF RequestInv
      <3>3. \A b : b = worker'[m].opening => ~Delivered(b)'
        BY Zenon, <1>6, <2>2, <3>1, <3>2 DEF RequestInv
      <3> QED
        BY SMTT(60), <2>2, <3>1, <3>2, <3>3 DEF RequestInv, Delivered
    <2>3. \A d \in delivered' : call'[d.call].pc # "new" /\ d.run = call'[d.call].run /\ d.nth = 1
      BY SMTT(60), <1>0, <1>1, <1>2 DEF RequestInv
    <2> QED
      BY Zenon, <2>1, <2>2, <2>3 DEF RequestInv
  <1>8. AnswerInv'
    <2>1. ASSUME NEW m \in Runs, NEW b \in worker'[m].claimed
          PROVE  \E d \in delivered' : d.call = b /\ d.run = m
      <3>1. b \in worker[m].claimed \/ (b = c /\ m = n)
        BY Zenon, <1>3, <1>4 DEF WorkerChange
      <3>2. new \in delivered' /\ delivered \subseteq delivered'
        BY ZenonT(60), <1>1
      <3> QED
        BY <1>2, <3>1, <3>2 DEF AnswerInv
    <2>2. \A m \in Runs : worker'[m].pc = "writing" => worker'[m].holding \in worker'[m].claimed
      BY <1>3, <1>4 DEF AnswerInv, WorkerChange
    <2>3. \A m \in Runs : \A b : b \in worker'[m].claimed => b \in worker[m].claimed \/ b = c
      BY Zenon, <1>3, <1>4 DEF WorkerChange
    <2>4. \A f \in files' : f.kind = "response" => Delivered(f.call)' /\ \A m \in Runs : f.call \notin worker'[m].claimed
      BY <1>0, <1>6, <2>3, SMTT(30) DEF AnswerInv
    <2>5. \A b \in Calls : call'[b].result = "answered" =>
             /\ Delivered(b)'
             /\ \A m \in Runs : b \notin worker'[m].claimed
             /\ \A f \in files' : f.call = b /\ f.kind = "response" => f.inTime
      BY SMTT(60), <1>0, <1>6, <2>3 DEF AnswerInv
    <2>6. \A f, g \in files' : f.kind = "response" /\ g.kind = "response" /\ f.call = g.call => f = g
      BY Zenon DEF AnswerInv
    <2> QED
      BY ZenonT(40), <2>1, <2>2, <2>4, <2>5, <2>6 DEF AnswerInv
  <1> QED
    BY Zenon, <1>5, <1>7, <1>8

\* respond, when the response is written.
LEMMA ResponseKeeps ==
    ASSUME CallInv, NEW n \in Runs, WriteResponse(n)
    PROVE  CallInv'
  <1> USE DEF CallInv
  <1> DEFINE c == worker[n].holding
             w == [worker[n] EXCEPT !.pc = "closing", !.claimed = @ \ {c}]
             letter == Answer(n, c)
  <1>0. worker[n] \in WorkerState /\ UNCHANGED delivered /\ c \in worker[n].claimed
    BY Zenon DEF CallTypes, WriteResponse, AnswerInv
  <1>1. PICK d \in delivered : d.call = c /\ d.run = n
    BY Zenon, <1>0 DEF AnswerInv
  <1>2. c \in Calls /\ call[c].pc # "new" /\ call[c].run = n /\ Delivered(c)
    BY SMTT(60), <1>1 DEF RequestInv, CallTypes, Delivery, Delivered
  <1>3. ~HasLetter(n, c, "response") /\ \A f \in files : f.kind = "response" => f.call # c
    BY Zenon, <1>0 DEF AnswerInv, HasLetter
  <1>4. w \in WorkerState /\ w.pc = "closing" /\ w.claimed = worker[n].claimed \ {c}
    BY Zenon, <1>0 DEF WorkerState
  <1>5. WorkerChange(n, w) /\ files' = files \cup {letter}
    BY Zenon, <1>3, <1>4 DEF WriteResponse, CallTypes, WorkerChange
  <1>6. letter \in Envelope /\ letter.kind = "response" /\ letter.call = c /\ letter.run = n
    BY ZenonT(60), <1>2 DEF Answer, Letter, Envelope
  <1> HIDE DEF w, letter, c
  <1>7. CallTypes'
    BY Zenon, <1>0, <1>5, <1>6, ChangeTypes DEF CallTypes
  <1>8. \A b : Delivered(b)' <=> Delivered(b)
    BY Zenon, <1>0 DEF Delivered
  <1>9. call' = call /\ \A m \in Runs : worker'[m].claimed \subseteq worker[m].claimed
    BY Zenon, <1>4, <1>5 DEF WorkerChange
  <1>10. RequestInv'
    <2>1. ASSUME NEW m \in Runs, worker'[m].pc = "opening"
          PROVE  /\ worker'[m].opening \in Calls
                 /\ call'[worker'[m].opening].pc # "new" /\ call'[worker'[m].opening].run = m
                 /\ ~Delivered(worker[m].opening)'
                 /\ \A f \in files' : f.kind = "request" => f.call # worker'[m].opening
      BY SMTT(60), <1>0, <1>4, <1>5, <1>6, <1>9, <2>1 DEF RequestInv, WorkerChange, Delivered
    <2> QED
      BY SMTT(60), <1>0, <1>2, <1>5, <1>6, <1>8, <1>9, <2>1 DEF RequestInv
  <1>11. AnswerInv'
    <2>1. \A m \in Runs : worker'[m].pc = "writing" => worker'[m].holding \in worker'[m].claimed
      BY Zenon, <1>4, <1>5 DEF AnswerInv, WorkerChange
    <2>2. \A m \in Runs : c \notin worker'[m].claimed
      <3>1. \A m \in Runs : c \in worker[m].claimed => m = n
        BY SMTT(60), <1>2 DEF AnswerInv, RequestInv
      <3> QED
        BY Zenon, <1>4, <1>5, <3>1 DEF WorkerChange
    <2>3. call[c].result # "answered"
      BY SMTT(60), <1>0, <1>2 DEF AnswerInv
    <2>4. \A f \in files' : f.kind = "response" => Delivered(f.call)' /\ \A m \in Runs : f.call \notin worker'[m].claimed
      BY SMTT(60), <1>2, <1>5, <1>6, <1>8, <1>9, <2>2 DEF AnswerInv
    <2>5. \A f, g \in files' : f.kind = "response" /\ g.kind = "response" /\ f.call = g.call => f = g
      BY SMTT(60), <1>3, <1>5, <1>6 DEF AnswerInv
    <2>6. \A b \in Calls : call'[b].result = "answered" =>
             /\ Delivered(b)'
             /\ \A m \in Runs : b \notin worker'[m].claimed
             /\ \A f \in files' : f.call = b /\ f.kind = "response" => f.inTime
      BY SMTT(60), <1>5, <1>6, <1>8, <1>9, <2>3 DEF AnswerInv
    <2> QED
      BY SMTT(60), <1>0, <1>9, <2>1, <2>4, <2>5, <2>6 DEF AnswerInv
  <1> QED
    BY Zenon, <1>7, <1>10, <1>11

\* A step of a worker.
LEMMA WorkerKeeps ==
    ASSUME CallInv, NEW n \in Runs, WorkerNext(n)
    PROVE  CallInv'
  <1>0. worker[n] \in WorkerState /\ worker \in [Runs -> WorkerState]
    BY Zenon DEF CallInv, CallTypes
  <1>1. CASE \E c \in Calls : Claim(n, c)
    BY Zenon, <1>1, ClaimKeeps
  <1>2. CASE OpenClaimed(n)
    <2> DEFINE c == worker[n].opening
    <2>1. CASE Deliverable(n, c)
      BY Zenon, <1>2, <2>1, DeliveryKeeps DEF OpenClaimed
    <2>2. CASE ~Deliverable(n, c)
      <3> DEFINE w == [worker[n] EXCEPT !.pc = "idle", !.opening = NoCall]
      <3>1. w \in WorkerState /\ w.pc = "idle" /\ w.claimed = worker[n].claimed
        BY Zenon, <1>0 DEF WorkerState
      <3>2. WorkerChange(n, w) /\ UNCHANGED delivered /\ files' \subseteq files
        BY ZenonT(60), <1>0, <1>2, <2>2, <3>1 DEF OpenClaimed, WorkerChange, Without
      <3> HIDE DEF w
      <3> QED
        BY Zenon, <3>1, <3>2, WorkerLosesNothing
    <2> QED
      BY Zenon, <2>1, <2>2
  <1>3. CASE Respond(n)
    <2>0. worker[n].holding \in worker[n].claimed
      BY Zenon, <1>3 DEF Respond, MayAnswer
    <2>1. CASE late[worker[n].holding] > 0
      <3> DEFINE w == [worker[n] EXCEPT !.claimed = @ \ {worker[n].holding}]
      <3>1. w \in WorkerState /\ w.pc = "idle" /\ w.claimed \subseteq worker[n].claimed
        BY Zenon, <1>0, <1>3 DEF WorkerState, Respond, MayAnswer
      <3>2. WorkerChange(n, w) /\ UNCHANGED <<delivered, files>>
        BY Zenon, <1>0, <1>3, <2>1, <3>1 DEF Respond, WorkerChange
      <3> HIDE DEF w
      <3> QED
        BY Zenon, <3>1, <3>2, WorkerLosesNothing
    <2>2. CASE ~(late[worker[n].holding] > 0)
      <3> DEFINE w == [worker[n] EXCEPT !.pc = "writing"]
      <3>1. w \in WorkerState /\ w.pc = "writing" /\ w.claimed = worker[n].claimed /\ w.holding = worker[n].holding
        BY Zenon, <1>0 DEF WorkerState
      <3>2. WorkerChange(n, w) /\ UNCHANGED <<delivered, files>>
        BY Zenon, <1>0, <1>3, <2>2, <3>1 DEF Respond, WorkerChange
      <3> HIDE DEF w
      <3> QED
        BY Zenon, <2>0, <3>1, <3>2, WorkerLosesNothing
    <2> QED
      BY Zenon, <2>1, <2>2
  <1>4. CASE WriteResponse(n)
    BY Zenon, <1>4, ResponseKeeps
  <1>5. CASE CloseRequest(n)
    <2> DEFINE w == [worker[n] EXCEPT !.pc = "idle", !.holding = NoCall]
    <2>1. w \in WorkerState /\ w.pc = "idle" /\ w.claimed = worker[n].claimed
      BY Zenon, <1>0 DEF WorkerState
    <2>2. WorkerChange(n, w) /\ UNCHANGED delivered /\ files' \subseteq files
      BY Zenon, <1>0, <1>5, <2>1 DEF CloseRequest, WorkerChange, Without
    <2> HIDE DEF w
    <2> QED
      BY Zenon, <2>1, <2>2, WorkerLosesNothing
  <1> QED
    BY Zenon, <1>1, <1>2, <1>3, <1>4, <1>5 DEF WorkerNext

\* A step that changes none of what the invariant is about, readiness apart.
LEMMA OthersKeep ==
    ASSUME CallInv, UNCHANGED <<call, late, worker, delivered>>, files' \subseteq files,
           readiness' \in [Runs -> Nat], signals' \in [Runs -> Nat]
    PROVE  CallInv'
  <1>1. CallState' = CallState /\ WorkerState' = WorkerState /\ Envelope' = Envelope /\ Delivery' = Delivery /\ Runs' = Runs
    BY Zenon DEF CallState, Results, WorkerState, Envelope, Delivery, Runs
  <1>2. CallTypes'
    BY Zenon, <1>1 DEF CallInv, CallTypes
  <1>3. \A b : Delivered(b)' <=> Delivered(b)
    BY Zenon DEF Delivered
  <1>4. RequestInv'
    BY <1>3 DEF CallInv, RequestInv, Delivered
  <1>5. AnswerInv'
    BY <1>3 DEF CallInv, AnswerInv
  <1> QED
    BY Zenon, <1>2, <1>4, <1>5 DEF CallInv

\* A run starts, signals, ends or is cleaned up.
LEMMA RunKeeps ==
    ASSUME CallInv, NEW n \in Runs, RunNext(n)
    PROVE  CallInv'
  <1>0. readiness \in [Runs -> Nat] /\ signals \in [Runs -> Nat] /\ worker \in [Runs -> WorkerState]
    BY Zenon DEF CallInv, CallTypes
  <1>1. CASE StartRun(n) \/ CleanMailbox(n)
    BY Zenon, <1>0, <1>1, OthersKeep DEF StartRun, CleanMailbox, Swept
  <1>2. CASE SignalReady(n)
    <2>1. readiness' \in [Runs -> Nat] /\ signals' \in [Runs -> Nat]
      BY SMTT(60), <1>0, <1>2 DEF SignalReady
    <2> QED
      BY Zenon, <1>2, <2>1, OthersKeep DEF SignalReady
  <1>3. CASE LoseRoute(n) \/ SaveExit(n) \/ RecoverInterrupted(n)
    <2>1. readiness' \in [Runs -> Nat] /\ signals' \in [Runs -> Nat]
      BY SMTT(60), <1>0, <1>3 DEF LoseRoute, SaveExit, RecoverInterrupted
    <2> QED
      BY Zenon, <1>3, <2>1, OthersKeep DEF LoseRoute, SaveExit, RecoverInterrupted
  <1>4. CASE WorkerEnds(n) \/ SupervisorKilled(n)
    <2>1. IdleWorker \in WorkerState /\ IdleWorker.pc = "idle" /\ IdleWorker.claimed = {}
      BY Zenon DEF IdleWorker, WorkerState
    <2>2. WorkerChange(n, IdleWorker) /\ UNCHANGED <<files, delivered>>
      BY Zenon, <1>0, <1>4, <2>1 DEF WorkerEnds, SupervisorKilled, WorkerChange
    <2> QED
      BY Zenon, <2>1, <2>2, WorkerLosesNothing
  <1> QED
    BY Zenon, <1>1, <1>2, <1>3, <1>4 DEF RunNext

LEMMA CallInvariant == InvocationSpec => []CallInv
  <1>1. InvocationInit => CallInv
    BY Zenon, TypesInit DEF CallInv
  <1>2. CallInv /\ [InvocationNext(Calls, Runs)]_invocationVars => CallInv'
    <2>1. ASSUME CallInv, Shutdown \/ UNCHANGED invocationVars PROVE CallInv'
      BY Zenon, <2>1, OthersKeep DEF Shutdown, invocationVars, CallInv, CallTypes
    <2> QED
      BY Zenon, <2>1, ThreadKeeps, WorkerKeeps, RunKeeps DEF InvocationNext
  <1> QED
    BY <1>1, <1>2, PTL DEF InvocationSpec

\* execute_invocation, take_request and open_claimed: a call reaches one guest,
\* that of the run it was written for, at most once.
THEOREM DeliveryIsAtMostOnce == InvocationSpec => []DeliveredAtMostOnce
  <1>1. CallInv => DeliveredAtMostOnce
    BY Zenon DEF CallInv, RequestInv, DeliveredAtMostOnce
  <1> QED
    BY CallInvariant, <1>1, PTL

\* respond and the waiting loop: an answer comes from the guest the call was
\* delivered to, and it was written in time.
THEOREM AnswersComeFromTheGuest == InvocationSpec => []AnswersAreReal
  <1>1. CallInv => AnswersAreReal
    BY DEF CallInv, RequestInv, AnswerInv, AnswersAreReal, Delivered
  <1> QED
    BY CallInvariant, <1>1, PTL
-----------------------------------------------------------------------------
(* The bounds of the mailboxes.                                            *)

\* The requests of a mailbox, queued or claimed.
Letters(n) == {f \in Mailbox(n) : f.kind \in {"request", "active"}}

\* How long the request of a call may still be there, queued or claimed.
QueueInv ==
    /\ IsFiniteSet(files) /\ phase \in [Runs -> {"none", "live", "dead", "cleaned", "gone"}]
    /\ \A n \in Runs : Queued(n) <= MaxQueued
    /\ \A f \in files : f.kind = "request" => call[f.call].pc \in {"waiting", "polled", "rmRequest"}
    /\ \A f \in files : f.kind = "active" => call[f.call].pc \in {"waiting", "polled", "rmRequest", "rmActive"}

\* What is left of a call that ended is the business of its run.
LeftoverInv ==
    \A f \in files : phase[f.run] \in {"live", "dead"} \/ f.run \in abandoned \/ call[f.call].pc # "ended"

\* Removing files makes no mailbox longer.
LEMMA RemovalKeepsQueues ==
    ASSUME IsFiniteSet(files), NEW n, Queued(n) <= MaxQueued, Letters(n)' \subseteq Letters(n)
    PROVE  Queued(n)' <= MaxQueued
  <1>1. IsFiniteSet(Letters(n))
    <2>1. Letters(n) \in SUBSET files
      BY Zenon DEF Letters, Mailbox
    <2> QED
      BY Zenon, <2>1, FS_Subset
  <1>2. IsFiniteSet(Letters(n)') /\ Cardinality(Letters(n)') <= Cardinality(Letters(n))
    BY Zenon, <1>1, FS_Subset
  <1>3. Cardinality(Letters(n)') \in Nat /\ Cardinality(Letters(n)) \in Nat
    BY Zenon, <1>1, <1>2, FS_CardinalityType
  <1>4. Queued(n) = Cardinality(Letters(n)) /\ Queued(n)' = Cardinality(Letters(n)')
    BY Zenon DEF Queued, Letters
  <1> QED
    BY <1>2, <1>3, <1>4, InvocationAssumption

\* One more request fits where there was room.
LEMMA RequestFits ==
    ASSUME IsFiniteSet(files), NEW n, NEW letter, HasRoom(n), Letters(n)' \subseteq Letters(n) \cup {letter}
    PROVE  Queued(n)' <= MaxQueued
  <1>1. IsFiniteSet(Letters(n))
    <2>1. Letters(n) \in SUBSET files
      BY Zenon DEF Letters, Mailbox
    <2> QED
      BY Zenon, <2>1, FS_Subset
  <1>2. IsFiniteSet(Letters(n) \cup {letter})
        /\ Cardinality(Letters(n) \cup {letter}) \in {Cardinality(Letters(n)), Cardinality(Letters(n)) + 1}
    BY Zenon, <1>1, FS_AddElement
  <1>3. IsFiniteSet(Letters(n)') /\ Cardinality(Letters(n)') <= Cardinality(Letters(n) \cup {letter})
    BY Zenon, <1>2, FS_Subset
  <1>4. Cardinality(Letters(n)') \in Nat /\ Cardinality(Letters(n)) \in Nat
    BY Zenon, <1>1, <1>3, FS_CardinalityType
  <1>5. Queued(n) = Cardinality(Letters(n)) /\ Queued(n)' = Cardinality(Letters(n)')
    BY Zenon DEF Queued, Letters
  <1> QED
    BY <1>2, <1>3, <1>4, <1>5, InvocationAssumption DEF HasRoom

\* A request that is renamed takes the place it had.
LEMMA RenamingFits ==
    ASSUME IsFiniteSet(files), NEW n, Queued(n) <= MaxQueued, NEW letter, NEW r \in Letters(n),
           Letters(n)' \subseteq (Letters(n) \ {r}) \cup {letter}
    PROVE  Queued(n)' <= MaxQueued
  <1> DEFINE others == Letters(n) \ {r}
  <1>1. IsFiniteSet(Letters(n))
    <2>1. Letters(n) \in SUBSET files
      BY Zenon DEF Letters, Mailbox
    <2> QED
      BY Zenon, <2>1, FS_Subset
  <1>2. IsFiniteSet(others) /\ Cardinality(others) = Cardinality(Letters(n)) - 1
    BY Zenon, <1>1, FS_RemoveElement
  <1>3. Cardinality(others) \in Nat /\ Cardinality(Letters(n)) \in Nat
    BY Zenon, <1>1, <1>2, FS_CardinalityType
  <1> HIDE DEF others
  <1>4. IsFiniteSet(others \cup {letter})
        /\ Cardinality(others \cup {letter}) \in {Cardinality(others), Cardinality(others) + 1}
    BY Zenon, <1>2, FS_AddElement
  <1>5. IsFiniteSet(Letters(n)') /\ Cardinality(Letters(n)') <= Cardinality(others \cup {letter})
    BY Zenon, <1>4, FS_Subset DEF others
  <1>6. Cardinality(Letters(n)') \in Nat
    BY Zenon, <1>5, FS_CardinalityType
  <1>7. Queued(n) = Cardinality(Letters(n)) /\ Queued(n)' = Cardinality(Letters(n)')
    BY Zenon DEF Queued, Letters
  <1> QED
    BY <1>2, <1>3, <1>4, <1>5, <1>6, <1>7, InvocationAssumption

\* A step that leaves the calls alone and writes no file.
LEMMA FilesShrink ==
    ASSUME QueueInv, UNCHANGED call, files' \subseteq files, Runs' = Runs,
           phase' \in [Runs -> {"none", "live", "dead", "cleaned", "gone"}]
    PROVE  QueueInv' /\ (UNCHANGED <<phase, abandoned>> => (LeftoverInv => LeftoverInv'))
  <1>1. IsFiniteSet(files')
    BY Zenon, FS_Subset DEF QueueInv
  <1>2. \A n \in Runs : Queued(n)' <= MaxQueued
    <2> SUFFICES ASSUME NEW n \in Runs PROVE Queued(n)' <= MaxQueued
      BY Zenon
    <2>1. Letters(n)' \subseteq Letters(n)
      BY Zenon DEF Letters, Mailbox
    <2> QED
      BY Zenon, <2>1, RemovalKeepsQueues DEF QueueInv
  <1> QED
    BY Zenon, <1>1, <1>2 DEF QueueInv, LeftoverInv

\* A step of the thread of c that writes no request.
LEMMA ThreadMoveKeepsQueues ==
    ASSUME CallTypes, QueueInv, UNCHANGED <<phase, abandoned>>, NEW c \in Calls,
           files' \subseteq files, \A b \in Calls : b # c => call'[b] = call[b],
           \A f \in files' : f.call = c =>
              /\ f.kind = "request" => call'[c].pc \in {"waiting", "polled", "rmRequest"}
              /\ f.kind = "active" => call'[c].pc \in {"waiting", "polled", "rmRequest", "rmActive"}
              /\ call'[c].pc # "ended"
    PROVE  QueueInv' /\ (LeftoverInv => LeftoverInv')
  <1>1. \A f \in files : f.call \in Calls
    BY Zenon DEF CallTypes, Envelope
  <1>2. IsFiniteSet(files')
    BY Zenon, FS_Subset DEF QueueInv
  <1>3. \A n \in Runs : Queued(n)' <= MaxQueued
    <2> SUFFICES ASSUME NEW n \in Runs PROVE Queued(n)' <= MaxQueued
      BY Zenon
    <2>1. Letters(n)' \subseteq Letters(n)
      BY Zenon DEF Letters, Mailbox
    <2> QED
      BY Zenon, <2>1, RemovalKeepsQueues DEF QueueInv
  <1>4. \A f \in files' : f.kind = "request" => call'[f.call].pc \in {"waiting", "polled", "rmRequest"}
    BY Zenon, <1>1 DEF QueueInv
  <1>5. \A f \in files' : f.kind = "active" => call'[f.call].pc \in {"waiting", "polled", "rmRequest", "rmActive"}
    BY Zenon, <1>1 DEF QueueInv
  <1>6. LeftoverInv => LeftoverInv'
    BY Zenon, <1>1 DEF LeftoverInv
  <1>7. Runs' = Runs
    BY Zenon DEF Runs
  <1> QED
    BY Zenon, <1>2, <1>3, <1>4, <1>5, <1>6, <1>7 DEF QueueInv

\* execute_invocation: the thread writes, polls and cleans up.
LEMMA ThreadKeepsQueues ==
    ASSUME CallInv, QueueInv, NEW c \in Calls, ThreadNext(c)
    PROVE  QueueInv' /\ (LeftoverInv => LeftoverInv')
  <1>0. CallTypes /\ call[c] \in CallState /\ \A f \in files : f.call \in Calls /\ f.run \in Runs
    BY Zenon DEF CallInv, CallTypes, Envelope
  <1>1. \A f \in files : f.call = c => call[c].pc # "new" /\ f.run = call[c].run
    BY Zenon DEF CallInv, RequestInv
  <1>2. CASE Invoke(c)
    <2>0. UNCHANGED <<phase, abandoned>> /\ call[c].pc = "new" /\ \A f \in files : f.call # c
      BY Zenon, <1>1, <1>2 DEF Invoke
    <2>1. ASSUME NEW result \in {"refused", "busy"}, Ended(c, result), UNCHANGED files
          PROVE  QueueInv' /\ (LeftoverInv => LeftoverInv')
      <3>1. \A b \in Calls : b # c => call'[b] = call[b]
        BY Zenon, <1>0, <2>1 DEF Ended, CallTypes
      <3> QED
        BY Zenon, <1>0, <2>0, <2>1, <3>1, ThreadMoveKeepsQueues
    <2>2. ASSUME NEW n \in Runs, HasRoom(n), files' = files \cup {Letter(n, c, "request")},
                 call' = [call EXCEPT ![c] = [pc |-> "waiting", run |-> n,
                                              ready |-> readiness[n], result |-> "none"]]
          PROVE  QueueInv' /\ (LeftoverInv => LeftoverInv')
      <3> DEFINE letter == Letter(n, c, "request")
      <3>1. letter.kind = "request" /\ letter.call = c /\ letter.run = n
        BY Zenon DEF Letter
      <3>2. call'[c].pc = "waiting" /\ \A b \in Calls : b # c => call'[b] = call[b]
        BY Zenon, <1>0, <2>2 DEF CallTypes
      <3>3. files' = files \cup {letter}
        BY Zenon, <2>2
      <3> HIDE DEF letter
      <3>4. IsFiniteSet(files')
        BY Zenon, <3>3, FS_AddElement DEF QueueInv
      <3>5. \A m \in Runs : Queued(m)' <= MaxQueued
        <4> SUFFICES ASSUME NEW m \in Runs PROVE Queued(m)' <= MaxQueued
          BY Zenon
        <4>1. CASE m = n
          <5>1. Letters(m)' \subseteq Letters(m) \cup {letter}
            BY Zenon, <3>3 DEF Letters, Mailbox
          <5> QED
            BY Zenon, <2>2, <4>1, <5>1, RequestFits DEF QueueInv
        <4>2. CASE m # n
          <5>1. Letters(m)' \subseteq Letters(m)
            BY Zenon, <3>1, <3>3, <4>2 DEF Letters, Mailbox
          <5> QED
            BY Zenon, <5>1, RemovalKeepsQueues DEF QueueInv
        <4> QED
          BY Zenon, <4>1, <4>2
      <3>6. \A f \in files' : f.kind = "request" => call'[f.call].pc \in {"waiting", "polled", "rmRequest"}
        BY Zenon, <1>0, <3>1, <3>2, <3>3 DEF QueueInv
      <3>7. \A f \in files' : f.kind = "active" => call'[f.call].pc \in {"waiting", "polled", "rmRequest", "rmActive"}
        BY Zenon, <1>0, <3>1, <3>2, <3>3 DEF QueueInv
      <3>8. LeftoverInv => LeftoverInv'
        BY Zenon, <1>0, <2>0, <3>1, <3>2, <3>3 DEF LeftoverInv
      <3>9. Runs' = Runs
        BY Zenon DEF Runs
      <3> QED
        BY Zenon, <2>0, <3>4, <3>5, <3>6, <3>7, <3>8, <3>9 DEF QueueInv
    <2> QED
      BY Zenon, <1>2, <2>1, <2>2 DEF Invoke, ReadyRuns
  <1>3. CASE PollResponse(c) \/ PollDeadline(c)
    <2>1. UNCHANGED <<files, phase, abandoned>>
      BY Zenon, <1>3 DEF PollResponse, PollDeadline
    <2>2. call'[c].pc \in {"waiting", "polled", "rmRequest"} /\ \A b \in Calls : b # c => call'[b] = call[b]
      BY <1>0, <1>3 DEF PollResponse, PollDeadline, Concluded, CallTypes, CallState
    <2> QED
      BY Zenon, <1>0, <2>1, <2>2, ThreadMoveKeepsQueues
  <1>4. CASE CleanUp(c)
    <2>1. UNCHANGED <<phase, abandoned>>
      BY Zenon, <1>4 DEF CleanUp
    <2>2. ASSUME NEW kind, NEW pc, files' = Without(call[c].run, c, kind),
                 call'[c].pc = pc, \A b \in Calls : b # c => call'[b] = call[b],
                 \/ call[c].pc = "rmRequest" /\ kind = "request" /\ pc = "rmActive"
                 \/ call[c].pc = "rmActive" /\ kind = "active" /\ pc = "rmResponse"
                 \/ call[c].pc = "rmResponse" /\ kind = "response" /\ pc = "ended"
          PROVE  QueueInv' /\ (LeftoverInv => LeftoverInv')
      <3>1. files' \subseteq files /\ \A f \in files' : f.call = c => f.kind # kind
        BY Zenon, <1>1, <2>2 DEF Without
      <3>2. \A f \in files : f.kind \in {"request", "active", "response"}
        BY Zenon, <1>0 DEF CallTypes, Envelope
      <3>3. \A f \in files' : f.call = c =>
              /\ f.kind = "request" => call'[c].pc \in {"waiting", "polled", "rmRequest"}
              /\ f.kind = "active" => call'[c].pc \in {"waiting", "polled", "rmRequest", "rmActive"}
              /\ call'[c].pc # "ended"
        BY <2>2, <3>1, <3>2 DEF QueueInv
      <3> QED
        BY Zenon, <1>0, <2>1, <2>2, <3>1, <3>3, ThreadMoveKeepsQueues
    <2>3. \A b \in Calls : b # c => call'[b] = call[b]
      BY Zenon, <1>0, <1>4 DEF CleanUp, Ended, CallTypes
    <2>4. \/ call[c].pc = "rmRequest" /\ call'[c].pc = "rmActive" /\ files' = Without(call[c].run, c, "request")
          \/ call[c].pc = "rmActive" /\ call'[c].pc = "rmResponse" /\ files' = Without(call[c].run, c, "active")
          \/ call[c].pc = "rmResponse" /\ call'[c].pc = "ended" /\ files' = Without(call[c].run, c, "response")
      BY <1>0, <1>4 DEF CleanUp, Ended, CallTypes, CallState
    <2> QED
      BY Zenon, <2>2, <2>3, <2>4
  <1>5. CASE TimePasses(c)
    BY Zenon, <1>0, <1>5, ThreadMoveKeepsQueues DEF TimePasses, QueueInv, LeftoverInv
  <1> QED
    BY Zenon, <1>2, <1>3, <1>4, <1>5 DEF ThreadNext

\* take_request, open_claimed and respond.
LEMMA WorkerKeepsQueues ==
    ASSUME CallInv, QueueInv, NEW n \in Runs, WorkerNext(n)
    PROVE  QueueInv' /\ (LeftoverInv => LeftoverInv')
  <1>0. /\ UNCHANGED <<call, phase, abandoned>> /\ phase[n] = "live" /\ worker[n] \in WorkerState
        /\ Runs' = Runs
    BY Zenon DEF WorkerNext, Claim, MayReceive, OpenClaimed, Respond, MayAnswer, WriteResponse, CloseRequest,
           CallInv, CallTypes, Runs
  <1>1. CASE \E c \in Calls : Claim(n, c)
    <2> PICK c \in Calls : Claim(n, c)
      BY Zenon, <1>1
    <2> DEFINE letter == Letter(n, c, "active")
    <2>1. letter.kind = "active" /\ letter.call = c /\ letter.run = n
      BY Zenon DEF Letter
    <2>2. PICK r \in files : r.run = n /\ r.call = c /\ r.kind = "request"
      BY Zenon DEF Claim, HasLetter
    <2>3. files' = Without(n, c, "request") \cup {letter}
      BY Zenon DEF Claim
    <2> HIDE DEF letter
    <2>4. files' \subseteq (files \ {r}) \cup {letter}
      BY Zenon, <2>2, <2>3 DEF Without
    <2>5. IsFiniteSet(files')
      <3>1. IsFiniteSet(files \cup {letter}) /\ files' \subseteq files \cup {letter}
        BY Zenon, <2>4, FS_AddElement DEF QueueInv
      <3> QED
        BY Zenon, <3>1, FS_Subset
    <2>6. \A m \in Runs : Queued(m)' <= MaxQueued
      <3> SUFFICES ASSUME NEW m \in Runs PROVE Queued(m)' <= MaxQueued
        BY Zenon
      <3>1. CASE m = n
        <4>1. r \in Letters(m) /\ Letters(m)' \subseteq (Letters(m) \ {r}) \cup {letter}
          BY Zenon, <2>2, <2>4, <3>1 DEF Letters, Mailbox
        <4> QED
          BY Zenon, <4>1, RenamingFits DEF QueueInv
      <3>2. CASE m # n
        <4>1. Letters(m)' \subseteq Letters(m)
          BY Zenon, <2>1, <2>4, <3>2 DEF Letters, Mailbox
        <4> QED
          BY Zenon, <4>1, RemovalKeepsQueues DEF QueueInv
      <3> QED
        BY Zenon, <3>1, <3>2
    <2>7. \A f \in files' : f.kind = "request" => call'[f.call].pc \in {"waiting", "polled", "rmRequest"}
      BY Zenon, <1>0, <2>1, <2>4 DEF QueueInv
    <2>8. \A f \in files' : f.kind = "active" => call'[f.call].pc \in {"waiting", "polled", "rmRequest", "rmActive"}
      BY <1>0, <2>1, <2>2, <2>4 DEF QueueInv
    <2>9. LeftoverInv => LeftoverInv'
      BY Zenon, <1>0, <2>1, <2>4 DEF LeftoverInv
    <2> QED
      BY Zenon, <1>0, <2>5, <2>6, <2>7, <2>8, <2>9 DEF QueueInv
  <1>2. CASE files' \subseteq files
    BY Zenon, <1>0, <1>2, FilesShrink DEF QueueInv
  <1>3. ASSUME NEW letter, letter.kind = "response", letter.run = n, files' = files \cup {letter}
        PROVE  QueueInv' /\ (LeftoverInv => LeftoverInv')
    <2>1. IsFiniteSet(files')
      BY Zenon, <1>3, FS_AddElement DEF QueueInv
    <2>2. \A m \in Runs : Queued(m)' <= MaxQueued
      <3> SUFFICES ASSUME NEW m \in Runs PROVE Queued(m)' <= MaxQueued
        BY Zenon
      <3>1. Letters(m)' \subseteq Letters(m)
        BY Zenon, <1>3 DEF Letters, Mailbox
      <3> QED
        BY Zenon, <3>1, RemovalKeepsQueues DEF QueueInv
    <2>3. \A f \in files' : f.kind # "response" => f \in files
      BY Zenon, <1>3
    <2>4. LeftoverInv => LeftoverInv'
      BY Zenon, <1>0, <1>3 DEF LeftoverInv
    <2> QED
      BY Zenon, <1>0, <2>1, <2>2, <2>3, <2>4 DEF QueueInv
  <1>4. CASE WriteResponse(n)
    <2> DEFINE letter == Answer(n, worker[n].holding)
    <2>1. letter.kind = "response" /\ letter.run = n
      BY Zenon DEF Answer, Letter
    <2>2. UNCHANGED files \/ files' = files \cup {letter}
      BY Zenon, <1>4 DEF WriteResponse
    <2> HIDE DEF letter
    <2> QED
      BY Zenon, <1>2, <1>3, <2>1, <2>2
  <1>5. CASE OpenClaimed(n) \/ Respond(n) \/ CloseRequest(n)
    <2>1. files' \subseteq files
      BY Zenon, <1>5 DEF OpenClaimed, Respond, CloseRequest, Without
    <2> QED
      BY Zenon, <1>2, <2>1
  <1> QED
    BY Zenon, <1>1, <1>4, <1>5 DEF WorkerNext

\* Runs come and go; a mailbox that can be read is emptied.
LEMMA RunKeepsQueues ==
    ASSUME CallInv, QueueInv, NEW n \in Runs, RunNext(n)
    PROVE  /\ QueueInv'
           /\ LeftoverInv /\ MailboxReadable(n) => LeftoverInv'
  <1>0. /\ UNCHANGED call /\ Runs' = Runs
        /\ phase' \in [Runs -> {"none", "live", "dead", "cleaned", "gone"}]
        /\ \A m \in Runs : m # n => phase'[m] = phase[m]
    BY Zenon DEF RunNext, StartRun, SignalReady, LoseRoute, WorkerEnds, CleanMailbox, SaveExit, SupervisorKilled,
           RecoverInterrupted, QueueInv, Runs
  <1>1. files' \subseteq files
    BY Zenon DEF RunNext, StartRun, SignalReady, LoseRoute, WorkerEnds, CleanMailbox, Swept, SaveExit, SupervisorKilled,
           RecoverInterrupted
  <1>2. QueueInv'
    BY Zenon, <1>0, <1>1, FilesShrink
  <1>3. ASSUME LeftoverInv, MailboxReadable(n) PROVE LeftoverInv'
    <2>0. \A f \in files : f.run \in Runs
      BY Zenon DEF CallInv, CallTypes, Envelope
    <2>1. abandoned \subseteq abandoned'
      BY Zenon DEF RunNext, StartRun, SignalReady, LoseRoute, WorkerEnds, CleanMailbox, SaveExit, SupervisorKilled,
           RecoverInterrupted
    <2>2. \/ phase'[n] \in {"live", "dead"} \/ phase'[n] = phase[n] \/ n \in abandoned'
          \/ \A f \in files' : f.run # n
          \/ phase[n] = "cleaned"
      BY Zenon, <1>3 DEF RunNext, StartRun, SignalReady, LoseRoute, WorkerEnds, CleanMailbox, Swept, Mailbox, SaveExit,
           SupervisorKilled, RecoverInterrupted, QueueInv
    <2> QED
      BY Zenon, <1>0, <1>1, <1>3, <2>0, <2>1, <2>2 DEF LeftoverInv
  <1> QED
    BY Zenon, <1>2, <1>3

LEMMA QueueInit == InvocationInit => QueueInv /\ LeftoverInv
  <1> SUFFICES ASSUME InvocationInit PROVE QueueInv /\ LeftoverInv
    BY Zenon
  <1>1. files = {} /\ phase \in [Runs -> {"none", "live", "dead", "cleaned", "gone"}]
    BY Zenon DEF InvocationInit
  <1>2. IsFiniteSet(files) /\ Cardinality({}) = 0
    BY Zenon, <1>1, FS_EmptySet
  <1>3. \A n \in Runs : Queued(n) = Cardinality({})
    BY Zenon, <1>1 DEF Queued, Mailbox
  <1> QED
    BY <1>1, <1>2, <1>3, InvocationAssumption DEF QueueInv, LeftoverInv

LEMMA QueueStep ==
    ASSUME CallInv, QueueInv, [InvocationNext(Calls, Runs)]_invocationVars
    PROVE  QueueInv' /\ (LeftoverInv /\ (\A n \in Runs : MailboxReadable(n)) => LeftoverInv')
  <1>1. CASE Shutdown \/ UNCHANGED invocationVars
    <2>1. UNCHANGED <<call, files, phase, abandoned>> /\ Runs' = Runs
      BY Zenon, <1>1 DEF Shutdown, invocationVars, Runs
    <2> QED
      BY Zenon, <2>1, FilesShrink DEF QueueInv
  <1> QED
    BY Zenon, <1>1, ThreadKeepsQueues, WorkerKeepsQueues, RunKeepsQueues DEF InvocationNext

\* execute_invocation and take_request: whatever the threads, the workers and
\* the runs do, a mailbox holds at most MaxQueued requests, queued or claimed,
\* and no request is left when its call ends.
THEOREM RequestsStayBounded == InvocationSpec => []RequestsAreBounded
  <1>1. CallInv /\ QueueInv /\ [InvocationNext(Calls, Runs)]_invocationVars => QueueInv'
    BY Zenon, QueueStep
  <1>2. InvocationInit => QueueInv
    BY Zenon, QueueInit
  <1>3. QueueInv => RequestsAreBounded
    BY Zenon DEF QueueInv, RequestsAreBounded
  <1> QED
    BY <1>1, <1>2, <1>3, CallInvariant, PTL DEF InvocationSpec

\* cleanup_worker_channels and remove_invocation_file: as long as no mailbox
\* grows beyond the entries that are read, no envelope outlives both its call
\* and its run.
THEOREM MailboxesStayBounded ==
    InvocationSpec /\ [](\A n \in Runs : MailboxReadable(n)) => []MailboxesAreBounded
  <1> DEFINE Readable == \A n \in Runs : MailboxReadable(n)
  <1>1. CallInv /\ QueueInv /\ LeftoverInv /\ Readable /\ [InvocationNext(Calls, Runs)]_invocationVars
           => QueueInv' /\ LeftoverInv'
    BY Zenon, QueueStep
  <1>2. InvocationInit => QueueInv /\ LeftoverInv
    BY Zenon, QueueInit
  <1>3. QueueInv /\ LeftoverInv => MailboxesAreBounded
    BY Zenon DEF QueueInv, LeftoverInv, MailboxesAreBounded, RequestsAreBounded
  <1> HIDE DEF Readable
  <1>4. InvocationSpec /\ []Readable => []MailboxesAreBounded
    BY <1>1, <1>2, <1>3, CallInvariant, PTL DEF InvocationSpec
  <1> QED
    BY Zenon, <1>4 DEF Readable

-----------------------------------------------------------------------------
(* The HTTP listener                                                       *)

Responses == [status : Nat, body : Nat, valid : BOOLEAN]

Wire == [length : Nat, body : Nat, announced : BOOLEAN]

Opened ==
    [pc : {"queued", "head", "body", "invoked", "done", "dropped"}, request : Requests,
     got : Nat, body : Nat, forwarded : BOOLEAN, head : BOOLEAN, late : BOOLEAN,
     status : Nat, reply : Wire]

\* The head passed every test.
Passed(r) == r.flaws = {} /\ r.head <= MaxHead /\ r.declared <= MaxBody

\* Where a connection is says how much of its request was read: less than the
\* head, then the head and no more of the body than was declared, then all.
Progress(k) ==
    /\ k \in Opened
    /\ k.got <= k.request.head + k.request.actual
    /\ k.pc \in {"queued", "head"} => k.got < k.request.head
    /\ k.pc \in {"queued", "head", "body", "dropped"} => ~k.forwarded
    /\ k.pc \in {"queued", "head", "body", "invoked"} => ~k.late
    /\ k.pc \in {"queued", "head", "body"} => ~k.head
    /\ k.pc \in {"body", "invoked"} =>
          /\ Passed(k.request)
          /\ k.got = k.request.head + k.body
          /\ k.body <= k.request.declared
    /\ k.pc = "invoked" => k.forwarded
    /\ ForwardedIsComplete(k) /\ GoodIsForwarded(k) /\ WireLengthIsTrue(k)

InService == {"head", "body", "invoked"}

IngressInv ==
    /\ \A c \in Connections : connections[c] = Unopened \/ Progress(connections[c])
    /\ connections = [c \in Connections |-> connections[c]]
    /\ IsFiniteSet(threads) /\ threads \subseteq Connections
    /\ Cardinality(threads) <= MaxClients
    /\ \A c \in Connections : connections[c].pc \in InService => c \in threads

LEMMA UnopenedPc == Unopened.pc = "unopened"
  BY Zenon DEF Unopened

\* What Min returns.
LEMMA MinIsOne ==
    ASSUME NEW T \in SUBSET Nat, T # {}
    PROVE  Min(T) \in T /\ \A y \in T : Min(T) <= y
  <1>1. PICK x \in T : \A y \in T : ~(<<y, x>> \in OpToRel(<, Nat))
    BY Zenon, WFMin, NatLessThanWellFounded
  <1>2. ASSUME NEW y \in T PROVE x <= y
    <2>1. ~(y < x)
      BY Zenon, <1>1, <1>2 DEF OpToRel
    <2> QED
      BY <2>1
  <1> QED
    BY Zenon, <1>2 DEF Min

\* parse_head answers 200 to the heads that pass, and an error to the others.
LEMMA ParseHeadPasses ==
    ASSUME NEW r \in Requests
    PROVE  /\ ParseHead(r) = 200 <=> r.flaws = {} /\ r.declared <= MaxBody
           /\ ParseHead(r) \in Nat
  <1> DEFINE failed == {i \in DOMAIN HeadTests : HeadTests[i].flaw \in r.flaws}
  <1>1. DOMAIN HeadTests = 1 .. 9
    BY DEF HeadTests
  <1>2. \A i \in 1 .. 9 : HeadTests[i].status \in {400, 401, 403, 405, 421}
    BY DEF HeadTests
  <1>3. \A flaw \in Flaws \ {"request"} : \E i \in 1 .. 9 : HeadTests[i].flaw = flaw
    BY DEF HeadTests, Flaws
  <1>4. \A i \in 1 .. 9 : HeadTests[i].flaw # "request"
    BY DEF HeadTests
  <1>5. r.flaws \subseteq Flaws
    BY Zenon, IngressAssumption
  <1>6. CASE failed # {}
    <2>1. failed \in SUBSET Nat
      BY <1>1
    <2>2. Min(failed) \in failed
      BY Zenon, <1>6, <2>1, MinIsOne
    <2>3. HeadTests[Min(failed)].status \in {400, 401, 403, 405, 421}
      <3>1. Min(failed) \in 1 .. 9
        BY Zenon, <1>1, <2>2
      <3> HIDE DEF failed
      <3> QED
        BY <1>2, <3>1
    <2>4. ParseHead(r) = HeadTests[Min(failed)].status
      BY Zenon, <1>6 DEF ParseHead
    <2>5. r.flaws # {}
      BY Zenon, <2>2
    <2> HIDE DEF failed
    <2> QED
      BY <2>3, <2>4, <2>5
  <1>7. CASE failed = {}
    <2>1. r.flaws \subseteq {"request"}
      <3>1. ASSUME NEW flaw \in r.flaws, flaw # "request" PROVE FALSE
        <4>1. PICK i \in 1 .. 9 : HeadTests[i].flaw = flaw
          BY Zenon, <1>3, <1>5, <3>1
        <4> QED
          BY Zenon, <1>1, <1>7, <4>1
      <3> QED
        BY Zenon, <3>1
    <2>2. ParseHead(r) = IF r.declared > MaxBody THEN 413
                         ELSE IF "request" \in r.flaws THEN 400 ELSE 200
      BY Zenon, <1>7 DEF ParseHead
    <2>3. r.declared \in Nat /\ MaxBody \in Nat
      BY Zenon, IngressAssumption
    <2>4. r.flaws = {} <=> "request" \notin r.flaws
      BY Zenon, <2>1
    <2> HIDE DEF failed
    <2> QED
      BY <2>2, <2>3, <2>4
  <1> QED
    BY Zenon, <1>6, <1>7

\* What is written has the length that is announced.
Encoded(e, head) ==
    /\ e.status \in Nat /\ e.status >= 200 /\ e.reply \in Wire
    /\ e.reply.body = IF head THEN 0 ELSE e.reply.length
    /\ ~e.reply.announced => e.reply.body = 0

\* encode_response writes as many bytes as it announces.
LEMMA EncodedIsTrue ==
    ASSUME NEW response \in Responses, NEW head \in BOOLEAN
    PROVE  Encoded(EncodeResponse(response, head), head)
  <1> DEFINE r == IF response.valid /\ response.status >= 200 THEN response ELSE ErrorResponse(502)
             silent == r.status \in {204, 205, 304}
             announced == r.status \notin {204, 304}
             length == IF silent THEN 0 ELSE r.body
             body == IF head \/ silent THEN 0 ELSE r.body
             e == EncodeResponse(response, head)
  <1>1. r.status \in Nat /\ r.status >= 200 /\ r.body \in Nat
    BY DEF ErrorResponse, Responses
  <1>2. e = [status |-> r.status,
             reply |-> [announced |-> announced, length |-> length, body |-> body]]
    BY Zenon DEF EncodeResponse
  <1> HIDE DEF r
  <1>3. length \in Nat /\ body \in Nat /\ body = IF head THEN 0 ELSE length
    BY <1>1
  <1>4. announced \in BOOLEAN /\ (~announced => body = 0)
    <2>1. announced \in BOOLEAN /\ (~announced => silent)
      BY ZenonT(40)
    <2> HIDE DEF silent, announced
    <2> QED
      BY Zenon, <2>1
  <1> HIDE DEF e, announced, length, body
  <1>5. e.status = r.status /\ e.reply.length = length /\ e.reply.body = body
    BY Zenon, <1>2
  <1>6. e.reply.announced = announced
    BY Zenon, <1>2
  <1>7. e.reply \in Wire
    BY Zenon, <1>2, <1>3, <1>4 DEF Wire
  <1> QED
    BY Zenon, <1>1, <1>3, <1>4, <1>5, <1>6, <1>7 DEF e, Encoded

\* A connection k ends as e.
Replied(k, e) ==
    /\ e \in Opened /\ e.pc = "done" /\ WireLengthIsTrue(e)
    /\ e.request = k.request /\ e.got = k.got /\ e.body = k.body
    /\ e.forwarded = k.forwarded /\ e.head = k.head /\ e.late = k.late

LEMMA ReplyEnds ==
    ASSUME NEW c \in Connections, Progress(connections[c]), NEW response \in Responses
    PROVE  Replied(connections[c], Reply(c, response, connections[c].head))
  <1> DEFINE head == connections[c].head
             e == EncodeResponse(response, head)
             k == Reply(c, response, head)
  <1>1. connections[c] \in Opened
    BY Zenon DEF Progress
  <1>2. head \in BOOLEAN
    BY Zenon, <1>1 DEF Opened
  <1>3. Encoded(e, head)
    BY Zenon, <1>2, EncodedIsTrue
  <1>4. k = [connections[c] EXCEPT !.pc = "done", !.status = e.status, !.reply = e.reply]
    BY Zenon DEF Reply
  <1> HIDE DEF e, k
  <1>5. /\ k \in Opened /\ k.pc = "done" /\ k.status = e.status /\ k.reply = e.reply
        /\ k.request = connections[c].request /\ k.got = connections[c].got
        /\ k.body = connections[c].body /\ k.forwarded = connections[c].forwarded
        /\ k.head = connections[c].head /\ k.late = connections[c].late
    BY Zenon, <1>1, <1>3, <1>4 DEF Opened, Encoded
  <1>6. WireLengthIsTrue(k)
    BY Zenon, <1>3, <1>5 DEF WireLengthIsTrue, Encoded
  <1> QED
    BY Zenon, <1>5, <1>6 DEF k, Replied

LEMMA ErrorIsResponse == ASSUME NEW code \in Nat PROVE ErrorResponse(code) \in Responses
  BY Zenon DEF ErrorResponse, Responses

\* read_request answers an error before it knows the method.
LEMMA ErrorEnds ==
    ASSUME NEW c \in Connections, Progress(connections[c]),
           connections[c].pc \in {"head", "body"}, NEW code \in Nat
    PROVE  Replied(connections[c], Reply(c, ErrorResponse(code), FALSE))
  <1>1. ~connections[c].head /\ connections[c] \in Opened
    BY Zenon DEF Progress
  <1>2. connections[c].head = FALSE
    BY Zenon, <1>1 DEF Opened
  <1> QED
    BY Zenon, <1>2, ErrorIsResponse, ReplyEnds

\* An error ends it rightly when the client was late or sent something wrong.
LEMMA RefusalIsRight ==
    ASSUME NEW c \in Connections, Progress(connections[c]),
           connections[c].pc \in {"head", "body"}, NEW code \in Nat,
           \/ ~Passed(connections[c].request)
           \/ connections[c].request.actual # connections[c].request.declared
    PROVE  Progress(Reply(c, ErrorResponse(code), FALSE))
  <1> DEFINE k == Reply(c, ErrorResponse(code), FALSE)
  <1>2. ~connections[c].forwarded
    BY Zenon DEF Progress
  <1>4. /\ k \in Opened /\ k.pc = "done" /\ WireLengthIsTrue(k)
        /\ k.request = connections[c].request /\ k.got = connections[c].got
        /\ k.forwarded = connections[c].forwarded
    BY Zenon, ErrorEnds DEF Replied
  <1> HIDE DEF k
  <1>5. ForwardedIsComplete(k)
    BY Zenon, <1>2, <1>4 DEF ForwardedIsComplete
  <1>6. GoodIsForwarded(k)
    BY Zenon, <1>4 DEF GoodIsForwarded, Passed
  <1>7. k.got <= k.request.head + k.request.actual
    BY Zenon, <1>4 DEF Progress
  <1>8. k.pc \notin {"queued", "head", "body", "dropped", "invoked"}
    BY Zenon, <1>4
  <1>9. Progress(k)
    BY Zenon, <1>4, <1>5, <1>6, <1>7, <1>8 DEF Progress
  <1> QED
    BY Zenon, <1>9 DEF k

\* A step of one connection that leaves the threads alone.
LEMMA OneChanges ==
    ASSUME IngressInv, NEW c \in Connections, NEW k, Progress(k),
           connections' = [connections EXCEPT ![c] = k], threads' = threads,
           k.pc \in InService => connections[c].pc \in InService
    PROVE  IngressInv'
  <1>1. connections = [d \in Connections |-> connections[d]]
    BY Zenon DEF IngressInv
  <1>2. connections' = [d \in Connections |-> IF d = c THEN k ELSE connections[d]]
    BY Zenon, <1>1
  <1>3. \A d \in Connections : connections'[d] = IF d = c THEN k ELSE connections[d]
    BY Zenon, <1>2
  <1>4. connections' = [d \in Connections |-> connections'[d]]
    BY Zenon, <1>2
  <1> QED
    BY Zenon, <1>3, <1>4 DEF IngressInv

LEMMA ConnectKeeps ==
    ASSUME IngressInv, NEW c \in Connections, Connect(c) PROVE IngressInv'
  <1>1. PICK r \in Requests :
          connections' = [connections EXCEPT ![c] =
              [pc |-> "queued", request |-> r, got |-> 0, body |-> 0,
               forwarded |-> FALSE, head |-> FALSE, late |-> FALSE,
               status |-> 0, reply |-> [length |-> 0, body |-> 0, announced |-> FALSE]]]
    BY Zenon DEF Connect
  <1>2. r.head \in Nat \ {0} /\ r.declared \in Nat /\ r.actual \in Nat
    BY Zenon, IngressAssumption
  <1> DEFINE k == [pc |-> "queued", request |-> r, got |-> 0, body |-> 0,
                   forwarded |-> FALSE, head |-> FALSE, late |-> FALSE,
                   status |-> 0, reply |-> [length |-> 0, body |-> 0, announced |-> FALSE]]
  <1>3. k \in Opened /\ k.got < k.request.head /\ k.got <= k.request.head + k.request.actual
    BY <1>2 DEF Opened, Wire
  <1>4. k.pc = "queued" /\ ~k.forwarded /\ ~k.late /\ ~k.head
    BY Zenon
  <1> HIDE DEF k
  <1>5. Progress(k) /\ k.pc \notin InService
    BY Zenon, <1>3, <1>4 DEF Progress, ForwardedIsComplete, GoodIsForwarded, WireLengthIsTrue, InService
  <1>6. connections' = [connections EXCEPT ![c] = k] /\ threads' = threads
    BY Zenon, <1>1 DEF k, Connect
  <1> QED
    BY ZenonT(40), <1>5, <1>6, OneChanges

\* A connection that is refused.
LEMMA RefuseKeeps ==
    ASSUME IngressInv, NEW c \in Connections, connections[c].pc \in {"head", "body"},
           NEW code \in Nat, Refuse(c, code), threads' = threads,
           \/ ~Passed(connections[c].request)
           \/ connections[c].request.actual # connections[c].request.declared
    PROVE  IngressInv'
  <1> DEFINE k == Reply(c, ErrorResponse(code), FALSE)
  <1>1. Progress(connections[c])
    BY Zenon, UnopenedPc DEF IngressInv
  <1>2. Progress(k)
    BY Zenon, <1>1, RefusalIsRight
  <1>3. connections' = [connections EXCEPT ![c] = k]
    BY Zenon DEF Refuse
  <1>4. connections[c].pc \in InService
    BY Zenon DEF InService
  <1> HIDE DEF k
  <1> QED
    BY Zenon, <1>2, <1>3, <1>4, OneChanges

\* The head is read in any number of pieces.
LEMMA ReadHeadKeeps ==
    ASSUME IngressInv, NEW c \in Connections, ReadHead(c) PROVE IngressInv'
  <1> DEFINE k == connections[c]
             r == k.request
             left == r.head + r.actual - k.got
  <1>1. k.pc = "head" /\ threads' = threads
    BY Zenon DEF ReadHead
  <1>2. Progress(k) /\ k.pc \in {"head", "body"} /\ k.pc \in InService
    BY Zenon, <1>1, UnopenedPc DEF IngressInv, InService
  <1>3. k \in Opened /\ k.got < r.head
    BY Zenon, <1>1, <1>2 DEF Progress
  <1>4. r \in Requests /\ k.got \in Nat
    BY Zenon, <1>3 DEF Opened
  <1>5. r.head \in Nat \ {0} /\ r.declared \in Nat /\ r.actual \in Nat /\ MaxHead \in Nat
    BY Zenon, <1>4, IngressAssumption
  <1>6. left # 0 /\ left \in Nat
    BY <1>3, <1>4, <1>5
  <1>7. CASE k.got >= MaxHead
    <2>1. Refuse(c, 431)
      BY Zenon, <1>7 DEF ReadHead
    <2>2. ~Passed(r) /\ 431 \in Nat
      BY <1>3, <1>4, <1>5, <1>7 DEF Passed
    <2> QED
      BY ZenonT(40), <1>1, <1>2, <2>1, <2>2, RefuseKeeps
  <1>8. CASE ~(k.got >= MaxHead)
    <2>1. PICK n \in 1 .. Min({HeadChunk, left}) :
             IF k.got + n >= r.head THEN HeadComplete(c, k.got + n)
             ELSE connections' = [connections EXCEPT ![c].got = k.got + n]
      BY Zenon, <1>6, <1>8 DEF ReadHead
    <2> DEFINE got == k.got + n
    <2>2. n \in Nat /\ n >= 1 /\ n <= left
      <3>1. {HeadChunk, left} \in SUBSET Nat /\ {HeadChunk, left} # {}
        BY Zenon, <1>6, IngressAssumption
      <3>2. Min({HeadChunk, left}) \in Nat /\ Min({HeadChunk, left}) <= left
        BY Zenon, <3>1, MinIsOne
      <3> HIDE DEF left
      <3> QED
        BY <1>6, <3>2
    <2>3. got \in Nat /\ got <= r.head + r.actual
      BY <1>4, <1>5, <2>2
    <2>4. CASE got >= r.head
      <3>0. HeadComplete(c, got)
        BY Zenon, <2>1, <2>4
      <3> HIDE DEF got
      <3>1. CASE r.head > MaxHead
        <4>1. Refuse(c, 431)
          BY Zenon, <3>0, <3>1 DEF HeadComplete
        <4>2. ~Passed(r) /\ 431 \in Nat
          BY <1>5, <3>1 DEF Passed
        <4> QED
          BY ZenonT(40), <1>1, <1>2, <4>1, <4>2, RefuseKeeps
      <3>2. CASE ~(r.head > MaxHead) /\ ParseHead(r) # 200
        <4>1. Refuse(c, ParseHead(r))
          BY Zenon, <3>0, <3>2 DEF HeadComplete
        <4>2. ParseHead(r) \in Nat
          BY <1>4, ParseHeadPasses
        <4>3. ~Passed(r)
          BY Zenon, <1>4, <3>2, ParseHeadPasses DEF Passed
        <4> QED
          BY Zenon, <1>1, <1>2, <4>1, <4>2, <4>3, RefuseKeeps
      <3>3. CASE ~(r.head > MaxHead) /\ ParseHead(r) = 200 /\ Surplus(got, r)
        <4>1. Refuse(c, 400)
          BY Zenon, <3>0, <3>3 DEF HeadComplete
        <4>2. r.actual # r.declared /\ 400 \in Nat
          BY <1>5, <2>3, <3>3 DEF Surplus
        <4> QED
          BY ZenonT(40), <1>1, <1>2, <4>1, <4>2, RefuseKeeps
      <3>4. CASE ~(r.head > MaxHead) /\ ParseHead(r) = 200 /\ ~Surplus(got, r)
        <4> DEFINE next == [k EXCEPT !.pc = "body", !.got = got, !.body = got - r.head]
        <4>1. connections' = [connections EXCEPT ![c].pc = "body", ![c].got = got,
                                                 ![c].body = got - r.head]
          BY Zenon, <3>0, <3>4 DEF HeadComplete
        <4>2. connections' = [connections EXCEPT ![c] = next]
          BY Zenon, <4>1
        <4>3. Passed(r)
          <5>1. r.head <= MaxHead
            BY <1>5, <3>4
          <5> QED
            BY Zenon, <1>4, <3>4, <5>1, ParseHeadPasses DEF Passed
        <4>4. got - r.head \in Nat /\ got - r.head <= r.declared /\ got = r.head + (got - r.head)
          BY <1>5, <2>3, <2>4, <3>4 DEF Surplus
        <4>5. /\ next \in Opened /\ next.pc = "body" /\ next.got = got /\ next.body = got - r.head
              /\ next.request = r /\ next.forwarded = k.forwarded /\ next.late = k.late
              /\ next.head = k.head
          BY Zenon, <1>3, <2>3, <4>4 DEF Opened
        <4> HIDE DEF next
        <4>6. ~k.forwarded /\ ~k.late /\ ~k.head
          BY Zenon, <1>1, <1>2 DEF Progress
        <4>7. Progress(next)
          BY Zenon, <2>3, <4>3, <4>4, <4>5, <4>6
             DEF Progress, ForwardedIsComplete, GoodIsForwarded, WireLengthIsTrue
        <4> QED
          BY Zenon, <1>1, <1>2, <4>2, <4>7, OneChanges
      <3> QED
        BY Zenon, <3>1, <3>2, <3>3, <3>4
    <2>5. CASE ~(got >= r.head)
      <3> DEFINE next == [k EXCEPT !.got = got]
      <3>1. connections' = [connections EXCEPT ![c].got = got]
        BY Zenon, <2>1, <2>5
      <3>2. connections' = [connections EXCEPT ![c] = next]
        BY Zenon, <3>1
      <3>3. /\ next \in Opened /\ next.pc = "head" /\ next.got = got
            /\ next.request = r /\ next.forwarded = k.forwarded /\ next.late = k.late
            /\ next.head = k.head
        BY Zenon, <1>1, <1>3, <2>3 DEF Opened
      <3>4. got < r.head
        BY <1>5, <2>3, <2>5, SMTT(30)
      <3> HIDE DEF next, got
      <3>5. ~k.forwarded /\ ~k.late /\ ~k.head
        BY Zenon, <1>1, <1>2 DEF Progress
      <3>6. Progress(next)
        BY Zenon, <2>3, <3>3, <3>4, <3>5
           DEF Progress, ForwardedIsComplete, GoodIsForwarded, WireLengthIsTrue
      <3> QED
        BY Zenon, <1>1, <1>2, <3>2, <3>6, OneChanges
    <2> QED
      BY Zenon, <2>4, <2>5
  <1> QED
    BY Zenon, <1>7, <1>8

\* The body is read up to its declared length.
LEMMA ReadBodyKeeps ==
    ASSUME IngressInv, NEW c \in Connections, ReadBody(c) PROVE IngressInv'
  <1> DEFINE k == connections[c]
             r == k.request
             left == r.head + r.actual - k.got
             limit == BodyLimit(c)
  <1>1. k.pc = "body" /\ threads' = threads /\ k.body < r.declared
    BY Zenon DEF ReadBody
  <1>2. Progress(k) /\ k.pc \in {"head", "body"} /\ k.pc \in InService
    BY Zenon, <1>1, UnopenedPc DEF IngressInv, InService
  <1>3. /\ k \in Opened /\ k.got = r.head + k.body /\ k.body <= r.declared
        /\ k.got <= r.head + r.actual
    BY Zenon, <1>1, <1>2 DEF Progress
  <1>4. r \in Requests /\ k.got \in Nat /\ k.body \in Nat
    BY Zenon, <1>3 DEF Opened
  <1>5. r.head \in Nat \ {0} /\ r.declared \in Nat /\ r.actual \in Nat
    BY Zenon, <1>4, IngressAssumption
  <1>6. CASE left = 0
    <2>1. Refuse(c, 400)
      BY Zenon, <1>6 DEF ReadBody
    <2>2. r.actual # r.declared /\ 400 \in Nat
      BY <1>1, <1>3, <1>4, <1>5, <1>6
    <2> QED
      BY ZenonT(40), <1>1, <1>2, <2>1, <2>2, RefuseKeeps
  <1>7. CASE left # 0
    <2>1. PICK n \in 1 .. Min({limit, left}) :
             connections' = [connections EXCEPT ![c].got = @ + n, ![c].body = @ + n]
      BY Zenon, <1>7 DEF ReadBody
    <2>2. n \in Nat /\ n <= left /\ n <= r.declared - k.body
      <3>1. {HeadChunk, r.declared - k.body} \in SUBSET Nat /\ {HeadChunk, r.declared - k.body} # {}
        BY <1>3, <1>4, <1>5, IngressAssumption
      <3>2. limit \in Nat /\ limit <= r.declared - k.body
        BY Zenon, <3>1, MinIsOne DEF BodyLimit
      <3>3. left \in Nat /\ r.declared - k.body \in Nat
        BY <1>3, <1>4, <1>5
      <3> HIDE DEF left, limit
      <3>4. {limit, left} \in SUBSET Nat /\ {limit, left} # {}
        BY Zenon, <3>2, <3>3
      <3>5. Min({limit, left}) \in Nat /\ Min({limit, left}) <= left /\ Min({limit, left}) <= limit
        BY Zenon, <3>4, MinIsOne
      <3> QED
        BY <3>2, <3>3, <3>5, SMTT(30)
    <2> DEFINE next == [k EXCEPT !.got = @ + n, !.body = @ + n]
    <2>3. connections' = [connections EXCEPT ![c] = next]
      BY Zenon, <2>1
    <2>4. /\ next \in Opened /\ next.pc = "body" /\ next.got = k.got + n /\ next.body = k.body + n
          /\ next.request = r /\ next.forwarded = k.forwarded /\ next.late = k.late
          /\ next.head = k.head
      <3>1. k.got + n \in Nat /\ k.body + n \in Nat
        BY <1>4, <2>2
      <3>2. ASSUME NEW got \in Nat, NEW body \in Nat
            PROVE  LET o == [k EXCEPT !.got = got, !.body = body]
                   IN  /\ o \in Opened /\ o.pc = "body" /\ o.got = got /\ o.body = body
                       /\ o.request = r /\ o.forwarded = k.forwarded /\ o.late = k.late
                       /\ o.head = k.head
        BY Zenon, <1>1, <1>3 DEF Opened
      <3>3. next = [k EXCEPT !.got = k.got + n, !.body = k.body + n]
        BY Zenon
      <3> HIDE DEF next
      <3> QED
        BY ZenonT(40), <3>1, <3>2, <3>3
    <2>5. /\ next.got <= r.head + r.actual /\ next.got = r.head + next.body
          /\ next.body <= r.declared
      BY <1>3, <1>4, <1>5, <2>2, <2>4
    <2> HIDE DEF next
    <2>6. ~k.forwarded /\ ~k.late /\ ~k.head /\ Passed(r)
      BY Zenon, <1>1, <1>2 DEF Progress
    <2>7. Progress(next)
      BY Zenon, <2>4, <2>5, <2>6
         DEF Progress, ForwardedIsComplete, GoodIsForwarded, WireLengthIsTrue
    <2> QED
      BY Zenon, <1>1, <1>2, <2>3, <2>7, OneChanges
  <1> QED
    BY Zenon, <1>6, <1>7

\* The deadline refuses a request that is late.
LEMMA PastDeadlineKeeps ==
    ASSUME IngressInv, NEW c \in Connections, PastDeadline(c) PROVE IngressInv'
  <1> DEFINE k == connections[c]
             e == Reply(c, ErrorResponse(408), FALSE)
             next == [e EXCEPT !.late = TRUE]
  <1>1. k.pc \in {"head", "body"} /\ threads' = threads /\ connections' = [connections EXCEPT ![c] = next]
    BY Zenon DEF PastDeadline
  <1>2. Progress(k) /\ k.pc \in InService
    BY Zenon, <1>1, UnopenedPc DEF IngressInv, InService
  <1>3. ~k.head /\ ~k.forwarded /\ k \in Opened /\ k.got <= k.request.head + k.request.actual
    BY Zenon, <1>1, <1>2 DEF Progress
  <1>6. /\ e \in Opened /\ e.pc = "done" /\ WireLengthIsTrue(e)
        /\ e.request = k.request /\ e.got = k.got /\ e.forwarded = k.forwarded
    <2>1. Replied(k, e)
      <3>1. 408 \in Nat
        OBVIOUS
      <3>2. k.pc \in {"head", "body"} /\ Progress(k)
        BY Zenon, <1>1, <1>2
      <3> QED
        BY ZenonT(40), <3>1, <3>2, ErrorEnds
    <2> HIDE DEF e, k
    <2> QED
      BY Zenon, <2>1 DEF Replied
  <1> HIDE DEF e
  <1>7. /\ next \in Opened /\ next.pc = "done" /\ next.late = TRUE
        /\ next.request = k.request /\ next.got = k.got /\ next.forwarded = k.forwarded
        /\ next.head = e.head /\ next.reply = e.reply /\ next.status = e.status
    BY Zenon, <1>6 DEF Opened
  <1> HIDE DEF next
  <1>8. Progress(next)
    BY Zenon, <1>3, <1>6, <1>7
       DEF Progress, ForwardedIsComplete, GoodIsForwarded, WireLengthIsTrue
  <1>9. next.pc \notin InService
    BY Zenon, <1>7 DEF InService
  <1> QED
    BY Zenon, <1>1, <1>8, <1>9, OneChanges

\* Only a complete request is forwarded.
LEMMA ForwardKeeps ==
    ASSUME IngressInv, NEW c \in Connections, Forward(c) PROVE IngressInv'
  <1> DEFINE k == connections[c]
             r == k.request
             isHead == (r.method = "HEAD")
             next == [k EXCEPT !.pc = "invoked", !.forwarded = TRUE, !.head = isHead]
  <1>1. k.pc = "body" /\ threads' = threads /\ k.body >= r.declared
    BY Zenon DEF Forward
  <1>2. connections' = [connections EXCEPT ![c] = next]
    BY Zenon DEF Forward
  <1>3. Progress(k) /\ k.pc \in InService
    BY Zenon, <1>1, UnopenedPc DEF IngressInv, InService
  <1>4. /\ k \in Opened /\ k.got = r.head + k.body /\ k.body <= r.declared
        /\ k.got <= r.head + r.actual /\ ~k.late /\ Passed(r)
    BY Zenon, <1>1, <1>3 DEF Progress
  <1>5. isHead \in BOOLEAN
    BY Zenon
  <1> HIDE DEF isHead
  <1>6. /\ next \in Opened /\ next.pc = "invoked" /\ next.got = k.got /\ next.body = k.body
        /\ next.request = r /\ next.forwarded = TRUE /\ next.late = k.late
    BY Zenon, <1>4, <1>5 DEF Opened
  <1> HIDE DEF next
  <1>7. k.body = r.declared
    <2>1. r \in Requests /\ k.body \in Nat
      BY Zenon, <1>4 DEF Opened
    <2>2. r.declared \in Nat
      BY Zenon, <2>1, IngressAssumption
    <2> QED
      BY <1>1, <1>4, <2>1, <2>2
  <1>8. Progress(next)
    BY Zenon, <1>4, <1>6, <1>7
       DEF Progress, ForwardedIsComplete, GoodIsForwarded, WireLengthIsTrue, Passed
  <1> QED
    BY Zenon, <1>1, <1>2, <1>3, <1>8, OneChanges

\* The reply to what the daemon answered.
LEMMA RespondKeeps ==
    ASSUME IngressInv, NEW c \in Connections, ReturnResponse(c) PROVE IngressInv'
  <1> DEFINE k == connections[c]
  <1>1. k.pc = "invoked" /\ threads' = threads
    BY Zenon DEF ReturnResponse
  <1>2. Progress(k)
    BY Zenon, <1>1, UnopenedPc DEF IngressInv
  <1>3. ErrorResponse(503) \in Responses
    BY ErrorIsResponse
  <1>4. DaemonAnswers \subseteq Responses
    BY DEF DaemonAnswers, Responses
  <1>5. PICK response \in Responses :
          connections' = [connections EXCEPT ![c] = Reply(c, response, k.head)]
    BY ZenonT(40), <1>3, <1>4 DEF ReturnResponse
  <1>6. k \in Opened /\ k.got <= k.request.head + k.request.actual /\ k.forwarded
        /\ ForwardedIsComplete(k)
    BY Zenon, <1>1, <1>2 DEF Progress
  <1> DEFINE next == Reply(c, response, k.head)
  <1>8. Replied(k, next)
    BY Zenon, <1>2, ReplyEnds
  <1> HIDE DEF next
  <1>9. next.pc \notin InService
    BY Zenon, <1>8 DEF InService, Replied
  <1>10. Progress(next)
    BY Zenon, <1>6, <1>8
       DEF Progress, ForwardedIsComplete, GoodIsForwarded, Replied
  <1> QED
    BY Zenon, <1>1, <1>5, <1>9, <1>10, OneChanges DEF next

\* The accept loop: joined threads are over, and one more is started only
\* below the limit.
LEMMA LoopKeeps ==
    ASSUME IngressInv, Reap \/ Accept \/ Interrupt PROVE IngressInv'
  <1>1. CASE Reap
    <2>1. threads' = Alive /\ connections' = connections
      BY Zenon, <1>1 DEF Reap
    <2>2. Alive \in SUBSET threads /\ \A c \in threads \ Alive : connections[c].pc \in {"done", "dropped"}
      BY Zenon DEF Alive
    <2>3. IsFiniteSet(threads') /\ Cardinality(threads') <= MaxClients
      <3>1. IsFiniteSet(threads) /\ Cardinality(threads) <= MaxClients
        BY Zenon DEF IngressInv
      <3>2. IsFiniteSet(Alive) /\ Cardinality(Alive) <= Cardinality(threads)
        BY Zenon, <2>2, <3>1, FS_Subset
      <3>3. Cardinality(Alive) \in Nat /\ Cardinality(threads) \in Nat
        BY Zenon, <3>1, <3>2, FS_CardinalityType
      <3> QED
        BY <2>1, <3>1, <3>2, <3>3, IngressAssumption
    <2>4. \A pc : pc \in {"done", "dropped"} => pc \notin InService
      BY Zenon DEF InService
    <2> QED
      BY Zenon, <2>1, <2>2, <2>3, <2>4 DEF IngressInv
  <1>2. CASE Interrupt
    BY Zenon, <1>2 DEF Interrupt, IngressInv
  <1>3. CASE Accept /\ UNCHANGED <<connections, threads>>
    BY Zenon, <1>3 DEF IngressInv
  <1>4. ASSUME NEW c \in Connections, connections[c].pc = "queued",
               IF Cardinality(threads) >= MaxClients
               THEN /\ connections' = [connections EXCEPT ![c].pc = "dropped"]
                    /\ UNCHANGED threads
               ELSE /\ connections' = [connections EXCEPT ![c].pc = "head"]
                    /\ threads' = threads \cup {c}
        PROVE  IngressInv'
    <2> DEFINE k == connections[c]
    <2>1. Progress(k)
      BY Zenon, <1>4, UnopenedPc DEF IngressInv
    <2>2. k \in Opened /\ k.got < k.request.head /\ ~k.forwarded /\ ~k.late /\ ~k.head
          /\ k.got <= k.request.head + k.request.actual
      BY Zenon, <1>4, <2>1 DEF Progress
    <2>3. ASSUME NEW pc \in {"head", "dropped"}
          PROVE  Progress([k EXCEPT !.pc = pc]) /\ [k EXCEPT !.pc = pc].pc = pc
      <3> DEFINE next == [k EXCEPT !.pc = pc]
      <3>1. /\ next \in Opened /\ next.pc = pc /\ next.got = k.got
            /\ next.request = k.request /\ next.forwarded = k.forwarded /\ next.late = k.late
            /\ next.head = k.head
        BY Zenon, <2>2 DEF Opened
      <3> HIDE DEF next
      <3>2. pc \notin {"body", "invoked", "done"}
        BY Zenon
      <3>3. Progress(next)
        BY Zenon, <2>2, <3>1, <3>2
           DEF Progress, ForwardedIsComplete, GoodIsForwarded, WireLengthIsTrue
      <3> QED
        BY Zenon, <3>1, <3>3 DEF next
    <2>4. CASE Cardinality(threads) >= MaxClients
      <3>1. connections' = [connections EXCEPT ![c] = [k EXCEPT !.pc = "dropped"]] /\ threads' = threads
        BY Zenon, <1>4, <2>4
      <3>2. Progress([k EXCEPT !.pc = "dropped"]) /\ [k EXCEPT !.pc = "dropped"].pc \notin InService
        BY Zenon, <2>3 DEF InService
      <3> QED
        BY Zenon, <3>1, <3>2, OneChanges
    <2>5. CASE ~(Cardinality(threads) >= MaxClients)
      <3> DEFINE next == [k EXCEPT !.pc = "head"]
      <3>1. connections' = [connections EXCEPT ![c] = next] /\ threads' = threads \cup {c}
        BY Zenon, <1>4, <2>5
      <3>2. Progress(next)
        BY Zenon, <2>3
      <3> HIDE DEF next
      <3>3. connections = [d \in Connections |-> connections[d]]
        BY Zenon DEF IngressInv
      <3>4. connections' = [d \in Connections |-> IF d = c THEN next ELSE connections[d]]
        BY Zenon, <3>1, <3>3
      <3>5. \A d \in Connections : connections'[d] = IF d = c THEN next ELSE connections[d]
        BY Zenon, <3>4
      <3>6. connections' = [d \in Connections |-> connections'[d]]
        BY Zenon, <3>4
      <3>7. IsFiniteSet(threads') /\ Cardinality(threads') <= MaxClients
        <4>1. IsFiniteSet(threads)
          BY Zenon DEF IngressInv
        <4>2. /\ IsFiniteSet(threads \cup {c})
              /\ Cardinality(threads \cup {c}) \in {Cardinality(threads), Cardinality(threads) + 1}
          BY Zenon, <4>1, FS_AddElement
        <4>3. Cardinality(threads) \in Nat
          BY Zenon, <4>1, FS_CardinalityType
        <4> QED
          BY <2>5, <3>1, <4>2, <4>3, IngressAssumption
      <3> QED
        BY Zenon, <3>1, <3>2, <3>5, <3>6, <3>7 DEF IngressInv
    <2> QED
      BY Zenon, <2>4, <2>5
  <1> QED
    BY Zenon, <1>1, <1>2, <1>3, <1>4 DEF Accept

LEMMA IngressInvHolds == IngressSpec => []IngressInv
  <1>1. IngressInit => IngressInv
    <2> SUFFICES ASSUME IngressInit PROVE IngressInv
      BY Zenon
    <2>1. connections = [c \in Connections |-> Unopened] /\ threads = {}
      BY Zenon DEF IngressInit
    <2>2. IsFiniteSet({}) /\ Cardinality({}) = 0
      BY Zenon, FS_EmptySet
    <2>3. Cardinality({}) <= MaxClients
      BY <2>2, IngressAssumption
    <2>4. Unopened.pc \notin InService
      BY Zenon DEF Unopened, InService
    <2>5. \A c \in Connections : connections[c] = Unopened
      BY Zenon, <2>1
    <2>6. connections = [c \in Connections |-> connections[c]]
      BY Zenon, <2>1
    <2> QED
      BY Zenon, <2>1, <2>2, <2>3, <2>4, <2>5, <2>6 DEF IngressInv
  <1>2. IngressInv /\ [IngressNext]_ingressVars => IngressInv'
    <2>1. ASSUME IngressInv, UNCHANGED ingressVars PROVE IngressInv'
      BY Zenon, <2>1 DEF ingressVars, IngressInv
    <2> QED
      BY Zenon, <2>1, LoopKeeps, ConnectKeeps, ReadHeadKeeps, ReadBodyKeeps, PastDeadlineKeeps,
         ForwardKeeps, RespondKeeps DEF IngressNext
  <1> QED
    BY <1>1, <1>2, PTL DEF IngressSpec

\* A forwarded request is whole and passed every test, a good one that came in
\* time is not refused, a reply is as long as it says, and no more threads run
\* than the limit, for every number of connections, every request and every way
\* the network splits it (serve, read_request, encode_response).
THEOREM RequestsStayWhole == IngressSpec => []RequestsAreWhole
  <1>1. IngressInv => RequestsAreWhole
    <2> SUFFICES ASSUME IngressInv PROVE RequestsAreWhole
      BY Zenon
    <2> DEFINE served == {c \in Connections : connections[c].pc \in {"head", "body", "invoked"}}
    <2>1. served \in SUBSET threads /\ IsFiniteSet(threads) /\ Cardinality(threads) <= MaxClients
      BY Zenon DEF IngressInv, InService
    <2>2. IsFiniteSet(served) /\ Cardinality(served) <= Cardinality(threads)
      BY Zenon, <2>1, FS_Subset
    <2>3. Cardinality(served) \in Nat /\ Cardinality(threads) \in Nat
      BY Zenon, <2>1, <2>2, FS_CardinalityType
    <2> HIDE DEF served
    <2>4. Cardinality(served) <= MaxClients
      BY <2>1, <2>2, <2>3, IngressAssumption
    <2> QED
      BY Zenon, <2>4, UnopenedPc DEF IngressInv, Progress, RequestsAreWhole, served
  <1> QED
    BY <1>1, IngressInvHolds, PTL
=============================================================================
