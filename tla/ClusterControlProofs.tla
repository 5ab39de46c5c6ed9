------------------------- MODULE ClusterControlProofs -------------------------
(***************************************************************************)
(* Theorems about ClusterControl, for any nodes, clients, retries, boots   *)
(* and exits: its types, what a returned True means (OkMeansDone), and     *)
(* that a listing drops a broken connection (ListingDropsBrokenProxy).     *)
(*                                                                         *)
(* What makes them inductive: while a method runs, every node that is seen *)
(* stopped is noted at once; a start that is awaited was either accepted   *)
(* of a stopped node or is stuck on one that is still stopping; and the    *)
(* nodes a method acts on are done or still on its list.                   *)
(***************************************************************************)
EXTENDS ClusterControl, FiniteSetTheorems, TLAPS

StartOps == {"start_node", "start_all", "restart_node"}
StopOps == {"stop_node", "stop_all"}

Busy(c) == call[c].pc # "idle"
Sending(c) == call[c].pc \in {"send", "wait"}

\* The nodes client c has yet to send a request of this kind for.
Left(c, kind) ==
    {n \in Nodes : \E i \in DOMAIN call[c].todo : call[c].todo[i] = Request(kind, n)}

\* Early exits are exits, and boots count the instance that runs.
Counted ==
    /\ \A n \in Nodes : failed[n] <= exits
    /\ up => boots >= 1

\* What a client has to do fits the method it is in.
Shaped(c) ==
    /\ Sending(c) => call[c].todo # <<>> /\ call[c].op \in StartOps \cup StopOps
    /\ call[c].pc = "list" => call[c].op \in ListOps /\ call[c].asked = {}

\* A node that is stopped during a call is noted.
Noticed(c) ==
    Busy(c) => \A n \in Nodes : proc[n] \in StoppedStates => n \in since[c].stopped

\* The node whose start is awaited was stopped, or stops before it can run.
Awaited(c) ==
    \A n \in Nodes :
      (call[c].pc = "wait" /\ Head(call[c].todo) = Request("start", n))
        => n \in since[c].stopped \/ proc[n] = "STOPPING"

\* The nodes a method acts on are done or still to be done.
Progress(c) ==
    Sending(c) =>
      /\ call[c].op \in StartOps =>
           call[c].asked \subseteq since[c].started \cup Left(c, "start")
      /\ call[c].op \in StopOps =>
           call[c].asked \subseteq since[c].stopped \cup Left(c, "stop")

\* A method that returned True.
Done(c) ==
    (Idle(c) /\ call[c].result = "ok") =>
      /\ call[c].op \in StartOps => call[c].asked \subseteq since[c].started
      /\ call[c].op \in StopOps => call[c].asked \subseteq since[c].stopped

Listed(c) == Over(c, "status", {"ok", "error"}) => proxy[c] # RequestSent

ClientInv(c) ==
    /\ Shaped(c) /\ Noticed(c) /\ Awaited(c) /\ Progress(c) /\ Done(c) /\ Listed(c)

IInv ==
    /\ TypeOK
    /\ Counted
    /\ \A c \in Clients : ClientInv(c)

-----------------------------------------------------------------------------
(* The order of a listing.  A finite set of integers has a greatest element,  *)
(* and an ascending sequence; the counterexample with the fewest elements     *)
(* would have one with fewer.                                                 *)

LEMMA SmallestSet ==
    ASSUME NEW U, NEW Bad \in SUBSET FiniteSubsetsOf(U), Bad # {}
    PROVE  \E T \in Bad : \A V \in Bad : V \subseteq T => V = T
  <1>1. PICK T \in Bad : \A V \in Bad : ~ (<<V, T>> \in StrictSubsetOrdering(U))
    BY FS_StrictSubsetOrderingWellFounded, WFMin, Zenon
  <1>2. ASSUME NEW V \in Bad, V \subseteq T
        PROVE  V = T
    <2> DEFINE p == <<V, T>>
    <2>1. V \in SUBSET U /\ T \in SUBSET U
      BY DEF FiniteSubsetsOf
    <2>2. p \in (SUBSET U) \X (SUBSET U) /\ p[1] = V /\ p[2] = T
      BY <2>1
    <2> HIDE DEF p
    <2>3. p \notin StrictSubsetOrdering(U)
      BY <1>1 DEF p
    <2>4. QED
      BY <1>2, <2>2, <2>3 DEF StrictSubsetOrdering
  <1>3. QED
    BY <1>2

LEMMA Greatest ==
    ASSUME NEW S \in SUBSET Int, IsFiniteSet(S), S # {}
    PROVE  \E m \in S : \A n \in S : n <= m
  <1> DEFINE HasGreatest(T) == \E m \in T : \A n \in T : n <= m
             Bad == {T \in FiniteSubsetsOf(Int) : T # {} /\ ~HasGreatest(T)}
  <1>1. SUFFICES ASSUME Bad # {}
                 PROVE  FALSE
    BY DEF FiniteSubsetsOf
  <1>2. PICK T \in Bad : \A V \in Bad : V \subseteq T => V = T
    <2> HIDE DEF HasGreatest
    <2>1. Bad \in SUBSET FiniteSubsetsOf(Int)
      OBVIOUS
    <2> HIDE DEF Bad
    <2>2. QED
      BY <1>1, <2>1, SmallestSet
  <1>3. T \subseteq Int /\ IsFiniteSet(T) /\ T # {} /\ ~HasGreatest(T)
    BY DEF FiniteSubsetsOf
  <1>4. PICK x \in T : TRUE
    BY <1>3
  <1> DEFINE V == T \ {x}
  <1>5. V \in FiniteSubsetsOf(Int) /\ V # T /\ V \subseteq T
    BY <1>3, <1>4, FS_RemoveElement DEF FiniteSubsetsOf
  <1>6. V = {} \/ HasGreatest(V)
    BY <1>2, <1>5
  <1>7. CASE V = {}
    BY <1>3, <1>4, <1>7
  <1>8. CASE HasGreatest(V)
    <2>1. PICK m \in V : \A n \in V : n <= m
      BY <1>8
    <2>2. CASE x <= m
      BY <1>3, <1>4, <2>1, <2>2
    <2>3. CASE m <= x
      BY <1>3, <1>4, <2>1, <2>3
    <2>4. QED
      BY <1>3, <1>4, <2>1, <2>2, <2>3
  <1>9. QED
    BY <1>6, <1>7, <1>8

Ascending(s, n) == \A i, k \in 1 .. n : i < k => s[i] < s[k]

\* One more number, greater than all of them, goes to the end.
LEMMA AppendGreatest ==
    ASSUME NEW T \in SUBSET Int, NEW m \in Int, \A k \in T : k < m,
           NEW n \in Nat, NEW s \in [1 .. n -> T], Ascending(s, n)
    PROVE  \E t \in [1 .. n + 1 -> T \cup {m}] : Ascending(t, n + 1)
  <1> DEFINE t == [i \in 1 .. n + 1 |-> IF i <= n THEN s[i] ELSE m]
  <1>1. \A i \in 1 .. n + 1 : i <= n => i \in 1 .. n
    OBVIOUS
  <1>2. t \in [1 .. n + 1 -> T \cup {m}]
    BY <1>1
  <1>3. \A i \in 1 .. n : s[i] \in T /\ t[i] = s[i]
    OBVIOUS
  <1>4. t[n + 1] = m
    OBVIOUS
  <1> HIDE DEF t
  <1>5. ASSUME NEW i \in 1 .. n + 1, NEW k \in 1 .. n + 1, i < k
        PROVE  t[i] < t[k]
    <2>1. i \in 1 .. n
      BY <1>5
    <2>2. CASE k = n + 1
      BY <2>1, <2>2, <1>3, <1>4
    <2>3. CASE k \in 1 .. n
      BY <2>1, <2>3, <1>3, <1>5 DEF Ascending
    <2>4. QED
      BY <2>2, <2>3
  <1>6. QED
    BY <1>2, <1>5 DEF Ascending

LEMMA Sortable ==
    ASSUME NEW S \in SUBSET Int, IsFiniteSet(S)
    PROVE  \E s \in [1 .. Cardinality(S) -> S] : Ascending(s, Cardinality(S))
  <1> DEFINE Sorts(T) ==
               \E s \in [1 .. Cardinality(T) -> T] : Ascending(s, Cardinality(T))
             Bad == {T \in FiniteSubsetsOf(Int) : ~Sorts(T)}
  <1>1. SUFFICES ASSUME Bad # {}
                 PROVE  FALSE
    BY DEF FiniteSubsetsOf
  <1>2. PICK T \in Bad : \A V \in Bad : V \subseteq T => V = T
    <2> HIDE DEF Sorts
    <2>1. Bad \in SUBSET FiniteSubsetsOf(Int)
      OBVIOUS
    <2> HIDE DEF Bad
    <2>2. QED
      BY <1>1, <2>1, SmallestSet
  <1>3. T \subseteq Int /\ IsFiniteSet(T) /\ ~Sorts(T)
    BY DEF FiniteSubsetsOf
  <1>4. T # {}
    <2>1. Cardinality({}) = 0 /\ [i \in 1 .. 0 |-> 0] \in [1 .. 0 -> {}]
      BY FS_EmptySet
    <2>2. Sorts({})
      BY <2>1 DEF Ascending
    <2> HIDE DEF Sorts
    <2>3. QED
      BY <2>2, <1>3
  <1>5. PICK m \in T : \A n \in T : n <= m
    BY <1>3, <1>4, Greatest
  <1> DEFINE V == T \ {m}
             n == Cardinality(V)
  <1>6. /\ V \in FiniteSubsetsOf(Int) /\ V # T /\ V \subseteq T /\ T = V \cup {m}
        /\ n \in Nat /\ Cardinality(T) = n + 1
    <2>1. V # T /\ V \subseteq T /\ T = V \cup {m}
      OBVIOUS
    <2>2. IsFiniteSet(V) /\ n = Cardinality(T) - 1
      BY <1>3, FS_RemoveElement
    <2>3. Cardinality(T) \in Nat /\ n \in Nat
      BY <1>3, <2>2, FS_CardinalityType
    <2>4. V \in FiniteSubsetsOf(Int)
      BY <1>3, <2>2 DEF FiniteSubsetsOf
    <2>5. Cardinality(T) = n + 1
      BY <2>2, <2>3
    <2>6. QED
      BY <2>1, <2>3, <2>4, <2>5, Zenon
  <1>7. Sorts(V)
    <2> HIDE DEF Sorts, V
    <2> QED BY <1>2, <1>6
  <1>8. PICK s \in [1 .. n -> V] : Ascending(s, n)
    BY <1>7
  <1>9. \A k \in V : k < m
    BY <1>3, <1>5
  <1>10. \E t \in [1 .. n + 1 -> V \cup {m}] : Ascending(t, n + 1)
    <2> HIDE DEF V, n
    <2> V \in SUBSET Int /\ m \in Int
      BY <1>3, <1>6
    <2> QED BY <1>6, <1>8, <1>9, AppendGreatest
  <1>11. QED
    BY <1>3, <1>6, <1>10

\* A listing's processes in the order of their names: all of them, each once.
LEMMA InOrderIsListing ==
    ASSUME NEW S \in SUBSET Int, IsFiniteSet(S)
    PROVE  /\ Cardinality(S) \in Nat
           /\ InOrder(S) \in [1 .. Cardinality(S) -> S]
           /\ \A n \in S : \E i \in 1 .. Cardinality(S) : InOrder(S)[i] = n
  <1> DEFINE n == Cardinality(S)
             D == 1 .. n
             s == InOrder(S)
  <1>1. n \in Nat
    BY FS_CardinalityType
  <1>2. s \in [D -> S] /\ Ascending(s, n)
    BY Sortable DEF InOrder, Ascending
  <1>3. \A i \in D : s[i] \in Int
    BY <1>2
  <1> HIDE DEF n, s
  <1>4. ASSUME NEW i \in D, NEW k \in D, s[i] = s[k]
        PROVE  i = k
    BY <1>1, <1>2, <1>3, <1>4 DEF Ascending
  <1>5. s \in Injection(D, S)
    BY <1>2, <1>4 DEF Injection, IsInjective
  <1>6. IsFiniteSet(D) /\ Cardinality(D) = n
    BY <1>1, FS_Interval
  <1>7. s \in Surjection(D, S)
    BY <1>5, <1>6, FS_Injection DEF n
  <1>8. QED
    BY <1>1, <1>2, <1>7 DEF Surjection, n, s
-----------------------------------------------------------------------------
(* supervisord *)

\* A node that is stopping is stopped before anything else becomes of it.
StoppingEnds ==
    \A n \in Nodes :
      proc[n] = "STOPPING" => proc'[n] \in StoppedStates \cup {"STOPPING"}

SupervisordStep ==
    \/ Boot \/ Shutdown
    \/ \E n \in Nodes : ExitEarly(n) \/ Exit(n) \/ Scheduled(n)

SupervisordInv == SupervisordTypeOK /\ Counted

LEMMA SupervisordKeeps ==
    ASSUME SupervisordInv, SupervisordStep
    PROVE  SupervisordInv' /\ StoppingEnds
  <1>1. CASE Boot
    BY <1>1, SupervisordBounds
       DEF SupervisordInv, SupervisordTypeOK, Counted, Boot, StoppingEnds
  <1>2. CASE Shutdown
    BY <1>2 DEF SupervisordInv, SupervisordTypeOK, Counted, Shutdown, StoppingEnds,
       StoppedStates, ProcessStates
  <1>3. ASSUME NEW n \in Nodes, ExitEarly(n)
        PROVE  SupervisordInv' /\ StoppingEnds
    <2>1. /\ exits < MaxExits /\ proc[n] = "STARTING"
          /\ proc' = [proc EXCEPT ![n] = "BACKOFF"]
          /\ failed' = [failed EXCEPT ![n] = failed[n] + 1]
          /\ exits' = exits + 1 /\ pending' = pending /\ up' = up /\ boots' = boots
      BY <1>3 DEF ExitEarly, Move
    <2>2. exits' \in 0 .. MaxExits /\ \A k \in Nodes : failed'[k] <= exits'
      BY <2>1, SupervisordBounds DEF SupervisordInv, SupervisordTypeOK, Counted
    <2>3. \A k \in Nodes : failed'[k] \in 0 .. MaxExits
      BY <2>1, SupervisordBounds DEF SupervisordInv, SupervisordTypeOK, Counted
    <2>4. failed' \in [Nodes -> 0 .. MaxExits]
      BY <2>1, <2>3 DEF SupervisordInv, SupervisordTypeOK
    <2>5. proc' \in [Nodes -> ProcessStates] /\ StoppingEnds
      BY <2>1 DEF SupervisordInv, SupervisordTypeOK, StoppingEnds, ProcessStates,
         RunningStates
    <2>6. QED
      BY <2>1, <2>2, <2>4, <2>5 DEF SupervisordInv, SupervisordTypeOK, Counted
  <1>4. ASSUME NEW n \in Nodes, Exit(n)
        PROVE  SupervisordInv' /\ StoppingEnds
    <2>1. proc' \in [Nodes -> ProcessStates] /\ StoppingEnds
      BY <1>4 DEF Exit, Move, SupervisordInv, SupervisordTypeOK, StoppingEnds,
         ProcessStates, RunningStates, StoppedStates
    <2>2. QED
      BY <1>4, <2>1, SupervisordBounds
         DEF Exit, Move, SupervisordInv, SupervisordTypeOK, Counted
  <1>5. ASSUME NEW n \in Nodes, Scheduled(n)
        PROVE  SupervisordInv' /\ StoppingEnds
    <2>1. proc' \in [Nodes -> ProcessStates] /\ StoppingEnds
      BY <1>5 DEF Scheduled, Autostart, Started, Retry, GiveUp, Respawn, Stopped,
         Move, SupervisordInv, SupervisordTypeOK, StoppingEnds, ProcessStates,
         RunningStates, StoppedStates
    <2>2. /\ up' = up /\ boots' = boots /\ exits' = exits
          /\ pending' \subseteq pending
          /\ failed' = failed \/ failed' = [failed EXCEPT ![n] = 0]
      BY <1>5 DEF Scheduled, Autostart, Started, Retry, GiveUp, Respawn, Stopped,
         Move
    <2>3. QED
      BY <2>1, <2>2, SupervisordBounds
         DEF SupervisordInv, SupervisordTypeOK, Counted
  <1>6. QED
    BY <1>1, <1>2, <1>3, <1>4, <1>5 DEF SupervisordStep

LEMMA AcceptKeeps ==
    ASSUME SupervisordInv, NEW n \in Nodes, NEW kind \in {"start", "stop"},
           Accept(kind, n)
    PROVE  SupervisordInv' /\ StoppingEnds
  <1>1. PICK to \in {"STARTING", "STOPPED", "STOPPING"} :
          /\ proc' = [proc EXCEPT ![n] = to]
          /\ proc[n] = "STOPPING" => to = "STOPPING"
    <2>1. CASE kind = "start" /\ proc[n] = "STOPPING"
      BY <2>1 DEF Accept
    <2>2. CASE kind = "start" /\ proc[n] # "STOPPING"
      BY <2>2 DEF Accept
    <2>3. CASE kind = "stop"
      BY <2>3 DEF Accept, Refuses, RunningStates
    <2>4. QED
      BY <2>1, <2>2, <2>3
  <1>2. /\ up' = up /\ boots' = boots /\ failed' = failed /\ exits' = exits
        /\ pending' \subseteq pending
    BY DEF Accept
  <1>3. proc' \in [Nodes -> ProcessStates] /\ StoppingEnds
    BY <1>1 DEF SupervisordInv, SupervisordTypeOK, StoppingEnds, ProcessStates,
       RunningStates, StoppedStates
  <1>4. QED
    BY <1>2, <1>3 DEF SupervisordInv, SupervisordTypeOK, Counted

-----------------------------------------------------------------------------
(* What was seen *)

LEMMA Observed ==
    ASSUME TypeOK, Observe
    PROVE  /\ since' \in [Clients -> Since]
           /\ \A c \in Clients :
                /\ Idle(c) /\ call'[c].pc = "idle" => since'[c] = since[c]
                /\ Busy(c) \/ call'[c].pc # "idle" =>
                     \A n \in Nodes :
                       proc'[n] \in StoppedStates => n \in since'[c].stopped
                /\ Busy(c) =>
                     /\ since[c].stopped \subseteq since'[c].stopped
                     /\ since[c].started \subseteq since'[c].started
                     /\ \A n \in since[c].stopped :
                          proc'[n] = "RUNNING" => n \in since'[c].started
  <1> DEFINE seen(c) == IF Idle(c) THEN NothingSeen ELSE since[c]
             next(c) ==
               [stopped |-> seen(c).stopped
                              \cup {n \in Nodes : proc'[n] \in StoppedStates},
                started |-> seen(c).started
                              \cup {n \in seen(c).stopped : proc'[n] = "RUNNING"}]
             kept(c) == Idle(c) /\ call'[c].pc = "idle"
  <1>1. since' = [c \in Clients |-> IF kept(c) THEN since[c] ELSE next(c)]
    BY Zenon DEF Observe
  <1>2. ASSUME NEW c \in Clients
        PROVE  seen(c) \in Since /\ (Busy(c) => seen(c) = since[c])
    BY DEF TypeOK, Since, NothingSeen, Busy, Idle
  <1> HIDE DEF seen
  <1>3. ASSUME NEW c \in Clients
        PROVE  next(c) \in Since
    BY <1>2 DEF Since
  <1>4. ASSUME NEW c \in Clients
        PROVE  since[c] \in Since
    BY DEF TypeOK
  <1>5. since' \in [Clients -> Since]
    <2> HIDE DEF next, kept
    <2> QED BY <1>1, <1>3, <1>4
  <1>6. ASSUME NEW c \in Clients, kept(c)
        PROVE  since'[c] = since[c]
    <2> HIDE DEF next
    <2> QED BY <1>1, <1>6
  <1>7. ASSUME NEW c \in Clients, ~kept(c)
        PROVE  since'[c] = next(c)
    <2> HIDE DEF next
    <2> QED BY <1>1, <1>7
  <1>8. ASSUME NEW c \in Clients, ~kept(c)
        PROVE  /\ \A n \in Nodes :
                    proc'[n] \in StoppedStates => n \in since'[c].stopped
               /\ seen(c).stopped \subseteq since'[c].stopped
               /\ seen(c).started \subseteq since'[c].started
               /\ \A n \in seen(c).stopped :
                    proc'[n] = "RUNNING" => n \in since'[c].started
    <2> DEFINE stopped ==
                 seen(c).stopped \cup {n \in Nodes : proc'[n] \in StoppedStates}
               started ==
                 seen(c).started \cup {n \in seen(c).stopped : proc'[n] = "RUNNING"}
    <2>1. since'[c] = [stopped |-> stopped, started |-> started]
      BY <1>7, <1>8, Zenon
    <2> HIDE DEF stopped, started
    <2>2. since'[c].stopped = stopped /\ since'[c].started = started
      BY <2>1
    <2>3. QED
      BY <2>2, Zenon DEF stopped, started
  <1>9. QED
    <2> HIDE DEF next
    <2> QED BY <1>2, <1>5, <1>6, <1>8 DEF Busy, Idle

\* A client whose call and connection a step leaves alone.
LEMMA BystanderKeeps ==
    ASSUME TypeOK, Observe, StoppingEnds, NEW c \in Clients, ClientInv(c),
           call'[c] = call[c], proxy'[c] = proxy[c]
    PROVE  ClientInv(c)'
  <1>1. Left(c, "start")' = Left(c, "start") /\ Left(c, "stop")' = Left(c, "stop")
    BY DEF Left
  <1>2. CASE Idle(c)
    <2>1. since'[c] = since[c]
      BY <1>2, Observed DEF Idle
    <2>2. QED
      BY <1>2, <2>1 DEF ClientInv, Shaped, Noticed, Awaited, Progress, Done, Listed,
         Over, Idle, Busy, Sending
  <1>3. CASE Busy(c)
    <2>1. /\ since[c].stopped \subseteq since'[c].stopped
          /\ since[c].started \subseteq since'[c].started
          /\ \A n \in Nodes :
                proc'[n] \in StoppedStates => n \in since'[c].stopped
      BY <1>3, Observed
    <2>2. Shaped(c)' /\ Noticed(c)' /\ Done(c)' /\ Listed(c)'
      BY <1>3, <2>1 DEF ClientInv, Shaped, Noticed, Done, Listed, Over, Idle, Busy,
         Sending
    <2>3. Awaited(c)'
      BY <1>3, <2>1 DEF ClientInv, Awaited, StoppingEnds
    <2>4. Progress(c)'
      BY <1>1, <2>1 DEF ClientInv, Progress, Sending
    <2>5. QED
      BY <2>2, <2>3, <2>4 DEF ClientInv
  <1>4. QED
    BY <1>2, <1>3 DEF Idle, Busy
\* What is to show of a step of client c.
LEMMA PartsIInv ==
    ASSUME IInv, Observe, StoppingEnds, SupervisordInv', NEW c \in Clients,
           call' \in [Clients -> Calls], proxy' \in [Clients -> ProxyStates],
           \A e \in Clients : e # c => call'[e] = call[e] /\ proxy'[e] = proxy[e],
           ClientInv(c)'
    PROVE  IInv'
  <1>1. TypeOK'
    BY Observed DEF IInv, TypeOK, SupervisordInv
  <1>2. ASSUME NEW e \in Clients, e # c
        PROVE  ClientInv(e)'
    BY <1>2, BystanderKeeps DEF IInv
  <1>3. \A e \in Clients : ClientInv(e)'
    BY <1>2
  <1>4. QED
    BY <1>1, <1>3 DEF IInv, SupervisordInv

LEMMA SupervisordStays ==
    ASSUME IInv, UNCHANGED supervisordVars
    PROVE  SupervisordInv' /\ StoppingEnds
  BY DEF IInv, TypeOK, SupervisordInv, SupervisordTypeOK, Counted, StoppingEnds,
     supervisordVars

-----------------------------------------------------------------------------
(* The steps of a client *)

LEMMA FinishEffect ==
    ASSUME TypeOK, NEW c \in Clients, NEW result \in {"ok", "fault", "error"},
           Finish(c, result)
    PROVE  /\ call' \in [Clients -> Calls]
           /\ call'[c].pc = "idle" /\ call'[c].result = result
           /\ call'[c].op = call[c].op /\ call'[c].asked = call[c].asked
           /\ \A e \in Clients : e # c => call'[e] = call[e]
  <1> DEFINE done(r) == [r EXCEPT !.pc = "idle", !.todo = <<>>, !.result = result]
  <1>1. \A r \in Calls : /\ done(r) \in Calls
                         /\ done(r).pc = "idle" /\ done(r).result = result
                         /\ done(r).op = r.op /\ done(r).asked = r.asked
    <2> DEFINE nothing == <<>>
    <2>1. nothing \in Seq(Requests)
      OBVIOUS
    <2> HIDE DEF nothing
    <2>2. ASSUME NEW r \in Calls
          PROVE  LET d == [r EXCEPT !.pc = "idle", !.todo = nothing, !.result = result]
                 IN  /\ d \in Calls
                     /\ d.pc = "idle" /\ d.result = result
                     /\ d.op = r.op /\ d.asked = r.asked
      BY <2>1 DEF Calls
    <2>3. QED
      BY <2>2, Zenon DEF nothing
  <1>2. call' = [call EXCEPT ![c] = done(call[c])]
    BY DEF Finish, TypeOK
  <1>3. call \in [Clients -> Calls]
    BY DEF TypeOK
  <1> HIDE DEF done
  <1>4. QED
    BY <1>1, <1>2, <1>3

\* A method ends: it is a listing whose connection works, or another method, and
\* if it returns True it is done.
LEMMA FinishKeeps ==
    ASSUME IInv, Observe, UNCHANGED supervisordVars, NEW c \in Clients,
           NEW result \in {"ok", "fault", "error"}, Finish(c, result),
           NEW p \in ProxyStates,
           proxy' = [proxy EXCEPT ![c] = p],
           call[c].op = "status" => p # RequestSent,
           result = "ok" =>
             /\ call[c].op \in StartOps => call[c].asked \subseteq since'[c].started
             /\ call[c].op \in StopOps => call[c].asked \subseteq since'[c].stopped
    PROVE  IInv'
  <1>1. /\ call' \in [Clients -> Calls]
        /\ call'[c].pc = "idle" /\ call'[c].result = result
        /\ call'[c].op = call[c].op /\ call'[c].asked = call[c].asked
        /\ \A e \in Clients : e # c => call'[e] = call[e]
    BY FinishEffect DEF IInv
  <1>2. /\ proxy' \in [Clients -> ProxyStates] /\ proxy'[c] = p
        /\ \A e \in Clients : e # c => proxy'[e] = proxy[e]
    BY DEF IInv, TypeOK
  <1>3. Shaped(c)' /\ Noticed(c)' /\ Awaited(c)' /\ Progress(c)'
    BY <1>1 DEF Shaped, Noticed, Awaited, Progress, Sending, Busy
  <1>4. Done(c)' /\ Listed(c)'
    BY <1>1, <1>2 DEF Done, Listed, Over, Idle
  <1>5. QED
    BY <1>1, <1>2, <1>3, <1>4, PartsIInv, SupervisordStays DEF ClientInv

LEMMA BeginKeeps ==
    ASSUME IInv, NEW c \in Clients, NEW op \in ListOps \cup NodeOps,
           NEW at \in {"list", "send"}, NEW todo \in Seq(Requests),
           NEW asked \in SUBSET Nodes,
           Begin(c, op, at, todo, asked),
           at = "list" => op \in ListOps /\ asked = {},
           at = "send" =>
             /\ todo # <<>> /\ op \in StartOps \cup StopOps
             /\ op \in StartOps => \A n \in asked :
                  \E i \in DOMAIN todo : todo[i] = Request("start", n)
             /\ op \in StopOps => \A n \in asked :
                  \E i \in DOMAIN todo : todo[i] = Request("stop", n)
    PROVE  IInv'
  <1> DEFINE new == [op |-> op, pc |-> at, todo |-> todo, asked |-> asked,
                     result |-> "none"]
  <1>1. new \in Calls
    BY DEF Calls
  <1>2. call' = [call EXCEPT ![c] = new]
    BY DEF Begin
  <1>3. /\ new.op = op /\ new.pc = at /\ new.todo = todo /\ new.asked = asked
    OBVIOUS
  <1> HIDE DEF new
  <1>4. /\ call' \in [Clients -> Calls] /\ call'[c] = new
        /\ \A e \in Clients : e # c => call'[e] = call[e]
    BY <1>1, <1>2 DEF IInv, TypeOK
  <1>5. proxy' = proxy /\ Observe /\ UNCHANGED supervisordVars
    BY DEF Begin
  <1>6. Shaped(c)' /\ Awaited(c)' /\ Done(c)' /\ Listed(c)'
    BY <1>3, <1>4 DEF Shaped, Awaited, Done, Listed, Over, Idle, Sending
  <1>7. Noticed(c)'
    BY <1>3, <1>4, <1>5, Observed DEF Noticed, IInv
  <1>8. Progress(c)'
    BY <1>3, <1>4 DEF Progress, Sending, Left
  <1>9. QED
    BY <1>4, <1>5, <1>6, <1>7, <1>8, PartsIInv, SupervisordStays
       DEF ClientInv, IInv, TypeOK

LEMMA CallMethodKeeps ==
    ASSUME IInv, NEW c \in Clients, CallMethod(c)
    PROVE  IInv'
  <1>1. ASSUME NEW op \in ListOps, CallList(c, op)
        PROVE  IInv'
    <2> DEFINE nothing == <<>>
    <2>1. Begin(c, op, "list", nothing, {}) /\ nothing \in Seq(Requests)
      BY <1>1 DEF CallList
    <2> HIDE DEF nothing
    <2>2. QED
      BY <2>1, BeginKeeps
  <1>2. ASSUME NEW n \in Nodes, StartNode(c, n)
        PROVE  IInv'
    <2> DEFINE todo == <<Request("start", n)>>
    <2>1. todo \in Seq(Requests) /\ todo # <<>> /\ 1 \in DOMAIN todo
          /\ todo[1] = Request("start", n)
      BY DEF Requests, Request
    <2> HIDE DEF todo
    <2>2. Begin(c, "start_node", "send", todo, {n})
      BY <1>2 DEF StartNode, todo
    <2>3. QED
      BY <2>1, <2>2, BeginKeeps DEF NodeOps, StartOps, StopOps
  <1>3. ASSUME NEW n \in Nodes, StopNode(c, n)
        PROVE  IInv'
    <2> DEFINE todo == <<Request("stop", n)>>
    <2>1. todo \in Seq(Requests) /\ todo # <<>> /\ 1 \in DOMAIN todo
          /\ todo[1] = Request("stop", n)
      BY DEF Requests, Request
    <2> HIDE DEF todo
    <2>2. Begin(c, "stop_node", "send", todo, {n})
      BY <1>3 DEF StopNode, todo
    <2>3. QED
      BY <2>1, <2>2, BeginKeeps DEF NodeOps, StartOps, StopOps
  <1>4. ASSUME NEW n \in Nodes, RestartNode(c, n)
        PROVE  IInv'
    <2> DEFINE todo == <<Request("stop", n), Request("start", n)>>
    <2>1. todo \in Seq(Requests) /\ todo # <<>> /\ 2 \in DOMAIN todo
          /\ todo[2] = Request("start", n)
      BY DEF Requests, Request
    <2> HIDE DEF todo
    <2>2. Begin(c, "restart_node", "send", todo, {n})
      BY <1>4 DEF RestartNode, todo
    <2>3. QED
      BY <2>1, <2>2, BeginKeeps DEF NodeOps, StartOps, StopOps
  <1>5. QED
    BY <1>1, <1>2, <1>3, <1>4 DEF CallMethod
\* The requests that follow a listing: one for each node selected.
LEMMA RequestsOfListing ==
    ASSUME NEW S \in SUBSET Nodes, NEW kind \in {"start", "stop"},
           NEW todo, todo = [i \in DOMAIN InOrder(S) |-> Request(kind, InOrder(S)[i])]
    PROVE  /\ todo \in Seq(Requests)
           /\ \A n \in S : \E i \in DOMAIN todo : todo[i] = Request(kind, n)
           /\ InOrder(S) # <<>> <=> S # {}
           /\ todo # <<>> <=> S # {}
  <1>1. S \in SUBSET Int /\ IsFiniteSet(S)
    BY SupervisordBounds, FS_Subset
  <1> DEFINE s == InOrder(S)
             l == Cardinality(S)
  <1>2. /\ l \in Nat /\ s \in [1 .. l -> S]
        /\ \A n \in S : \E i \in 1 .. l : s[i] = n
    BY <1>1, InOrderIsListing
  <1> HIDE DEF s, l
  <1>3. todo = [i \in 1 .. l |-> Request(kind, s[i])]
    BY <1>2 DEF s
  <1>4. todo \in [1 .. l -> Requests]
    BY <1>2, <1>3 DEF Requests, Request
  <1>5. todo \in Seq(Requests) /\ Len(todo) = l
    BY <1>2, <1>4
  <1>6. \A n \in S : \E i \in DOMAIN todo : todo[i] = Request(kind, n)
    BY <1>2, <1>3
  <1>7. s \in Seq(S) /\ Len(s) = l
    BY <1>2
  <1>8. l = 0 <=> S = {}
    BY <1>1, FS_EmptySet DEF l
  <1>9. (s # <<>> <=> S # {}) /\ (todo # <<>> <=> S # {})
    BY <1>2, <1>5, <1>7, <1>8
  <1>10. QED
    BY <1>5, <1>6, <1>9 DEF s

LEMMA ListKeeps ==
    ASSUME IInv, NEW c \in Clients, List(c)
    PROVE  IInv'
  <1> DEFINE op == call[c].op
             S == Selected(op)
             kind == IF op = "start_all" THEN "start" ELSE "stop"
             todo == [i \in DOMAIN InOrder(S) |-> Request(kind, InOrder(S)[i])]
  <1>1. op \in ListOps /\ call[c].asked = {}
    BY DEF List, IInv, ClientInv, Shaped
  <1>2. S \in SUBSET Nodes /\ (op = "status" => S = {})
    BY <1>1 DEF Selected, ListOps
  <1>3. kind \in {"start", "stop"}
    OBVIOUS
  <1>4. /\ proxy' = [proxy EXCEPT ![c] = boots]
        /\ Observe /\ UNCHANGED supervisordVars /\ call[c].pc = "list" /\ up
    BY DEF List, Reachable
  <1>5. boots \in ProxyStates /\ boots # RequestSent
    BY <1>4, SupervisordBounds DEF IInv, TypeOK, SupervisordTypeOK, Counted, ProxyStates,
       RequestSent
  <1>6. CASE InOrder(S) = <<>>
    <2>1. Finish(c, "ok")
      BY <1>6 DEF List
    <2>2. QED
      BY <1>1, <1>4, <1>5, <2>1, FinishKeeps
  <1>7. CASE InOrder(S) # <<>>
    <2>1. call' = [call EXCEPT ![c].pc = "send", ![c].asked = S, ![c].todo = todo]
      BY <1>7, Zenon DEF List
    <2>2. /\ todo \in Seq(Requests) /\ todo # <<>> /\ S # {}
          /\ \A n \in S : \E i \in DOMAIN todo : todo[i] = Request(kind, n)
      <3> HIDE DEF kind, S
      <3>1. QED
        BY <1>2, <1>3, <1>7, RequestsOfListing
    <2> HIDE DEF todo, S
    <2> DEFINE sent(r) == [r EXCEPT !.pc = "send", !.asked = S, !.todo = todo]
    <2>3. \A r \in Calls : /\ sent(r) \in Calls /\ sent(r).pc = "send"
                           /\ sent(r).op = r.op /\ sent(r).asked = S
                           /\ sent(r).todo = todo
      BY <1>2, <2>2 DEF Calls
    <2>4. call' = [call EXCEPT ![c] = sent(call[c])] /\ call \in [Clients -> Calls]
      BY <2>1 DEF IInv, TypeOK
    <2> HIDE DEF sent
    <2>5. /\ call' \in [Clients -> Calls]
          /\ call'[c].pc = "send" /\ call'[c].op = op /\ call'[c].asked = S
          /\ call'[c].todo = todo
          /\ \A e \in Clients : e # c => call'[e] = call[e]
      BY <2>3, <2>4
    <2>6. /\ proxy' \in [Clients -> ProxyStates]
          /\ \A e \in Clients : e # c => proxy'[e] = proxy[e]
      BY <1>4, <1>5 DEF IInv, TypeOK
    <2>7. op \in {"start_all", "stop_all"}
      BY <1>1, <1>2, <2>2 DEF ListOps
    <2>8. Shaped(c)' /\ Awaited(c)' /\ Done(c)' /\ Listed(c)'
      BY <2>2, <2>5, <2>7 DEF Shaped, Awaited, Done, Listed, Over, Idle, Sending,
         StartOps, StopOps
    <2>9. Noticed(c)'
      BY <1>4, <2>5, Observed DEF Noticed, IInv
    <2>10. Progress(c)'
      BY <1>2, <2>2, <2>5, <2>7 DEF Progress, Left, StartOps, StopOps
    <2>11. QED
      BY <1>4, <2>5, <2>6, <2>8, <2>9, <2>10, PartsIInv, SupervisordStays DEF ClientInv
  <1>8. QED
    BY <1>6, <1>7

LEMMA ListFailsKeeps ==
    ASSUME IInv, NEW c \in Clients, ListFails(c)
    PROVE  IInv'
  <1>1. /\ proxy' = [proxy EXCEPT ![c] = NoProxy] /\ Finish(c, "error")
        /\ UNCHANGED supervisordVars /\ Observe
    BY DEF ListFails, ProxyAfterStatusError
  <1>2. NoProxy \in ProxyStates /\ NoProxy # RequestSent
    BY DEF ProxyStates, NoProxy, RequestSent
  <1>3. QED
    BY <1>1, <1>2, FinishKeeps

\* The request a client is at.
LEMMA FirstRequest ==
    ASSUME IInv, NEW c \in Clients, Sending(c)
    PROVE  /\ call[c].todo \in Seq(Requests) /\ call[c].todo # <<>>
           /\ Head(call[c].todo).kind \in {"start", "stop"}
           /\ Head(call[c].todo).node \in Nodes
           /\ Head(call[c].todo) =
                 Request(Head(call[c].todo).kind, Head(call[c].todo).node)
           /\ call[c].op \in StartOps \cup StopOps /\ call[c].op # "status"
  <1>1. call[c].todo \in Seq(Requests) /\ call[c].todo # <<>>
    BY DEF IInv, TypeOK, Calls, ClientInv, Shaped
  <1>2. Head(call[c].todo) \in Requests
    BY <1>1
  <1>3. QED
    BY <1>1, <1>2 DEF Requests, Request, IInv, ClientInv, Shaped, StartOps, StopOps

LEMMA SendKeeps ==
    ASSUME IInv, NEW c \in Clients, Send(c)
    PROVE  IInv'
  <1> DEFINE kind == Head(call[c].todo).kind
             n == Head(call[c].todo).node
  <1>1. /\ call[c].pc = "send" /\ Accept(kind, n) /\ Observe
        /\ proxy' = [proxy EXCEPT ![c] = boots]
        /\ call' = [call EXCEPT ![c].pc = "wait"]
    BY DEF Send
  <1>2. /\ kind \in {"start", "stop"} /\ n \in Nodes
        /\ Head(call[c].todo) = Request(kind, n)
    BY <1>1, FirstRequest DEF Sending
  <1> HIDE DEF kind, n
  <1>3. SupervisordInv' /\ StoppingEnds
    BY <1>1, <1>2, AcceptKeeps DEF IInv, TypeOK, SupervisordInv
  <1> DEFINE waiting(r) == [r EXCEPT !.pc = "wait"]
  <1>4. \A r \in Calls : /\ waiting(r) \in Calls /\ waiting(r).pc = "wait"
                         /\ waiting(r).op = r.op /\ waiting(r).asked = r.asked
                         /\ waiting(r).todo = r.todo
    BY DEF Calls
  <1>5. call' = [call EXCEPT ![c] = waiting(call[c])] /\ call \in [Clients -> Calls]
    BY <1>1 DEF IInv, TypeOK
  <1> HIDE DEF waiting
  <1>6. /\ call' \in [Clients -> Calls]
        /\ call'[c].pc = "wait" /\ call'[c].op = call[c].op
        /\ call'[c].asked = call[c].asked /\ call'[c].todo = call[c].todo
        /\ \A e \in Clients : e # c => call'[e] = call[e]
    BY <1>4, <1>5
  <1>7. /\ proxy' \in [Clients -> ProxyStates]
        /\ \A e \in Clients : e # c => proxy'[e] = proxy[e]
    <2>1. boots \in ProxyStates
      BY SupervisordBounds DEF IInv, TypeOK, SupervisordTypeOK, ProxyStates, Unconnected
    <2>2. QED
      BY <1>1, <2>1 DEF IInv, TypeOK
  <1>8. /\ since[c].stopped \subseteq since'[c].stopped
        /\ since[c].started \subseteq since'[c].started
        /\ \A k \in Nodes : proc'[k] \in StoppedStates => k \in since'[c].stopped
    BY <1>1, Observed DEF IInv, Busy
  <1>9. Shaped(c)' /\ Noticed(c)' /\ Done(c)' /\ Listed(c)'
    BY <1>1, <1>6, <1>8 DEF IInv, ClientInv, Shaped, Noticed, Done, Listed, Over,
       Idle, Sending
  <1>10. Awaited(c)'
    <2> SUFFICES ASSUME Head(call[c].todo) = Request("start", n), kind = "start"
                 PROVE  n \in since'[c].stopped \/ proc'[n] = "STOPPING"
      BY <1>2, <1>6 DEF Awaited, Request
    <2>1. proc[n] \notin RunningStates /\ proc[n] \in ProcessStates
      BY <1>1, <1>2 DEF Accept, Refuses, IInv, TypeOK, SupervisordTypeOK
    <2>2. CASE proc[n] = "STOPPING"
      BY <1>1, <1>2, <2>2 DEF Accept, IInv, TypeOK, SupervisordTypeOK
    <2>3. CASE proc[n] \in StoppedStates
      BY <1>1, <1>2, <1>8, <2>3 DEF IInv, ClientInv, Noticed, Busy
    <2>4. QED
      BY <2>1, <2>2, <2>3 DEF ProcessStates
  <1>11. Progress(c)'
    BY <1>1, <1>6, <1>8 DEF IInv, ClientInv, Progress, Sending, Left
  <1>12. QED
    BY <1>1, <1>3, <1>6, <1>7, <1>9, <1>10, <1>11, PartsIInv DEF ClientInv
LEMMA SendEndsKeeps ==
    ASSUME IInv, NEW c \in Clients,
           SendRefused(c) \/ SendFails(c) \/ ReceiveFails(c)
    PROVE  IInv'
  <1>1. Sending(c) /\ UNCHANGED supervisordVars /\ Observe
    BY DEF SendRefused, SendFails, ReceiveFails, Sending
  <1>2. PICK p \in {boots, RequestSent, Unconnected},
             result \in {"fault", "error"} :
          proxy' = [proxy EXCEPT ![c] = p] /\ Finish(c, result)
    BY DEF SendRefused, SendFails, ReceiveFails, ProxyAfterSendError
  <1>3. p \in ProxyStates
    BY SupervisordBounds DEF IInv, TypeOK, SupervisordTypeOK, ProxyStates, Unconnected
  <1>4. call[c].op # "status"
    BY <1>1, FirstRequest
  <1>5. QED
    BY <1>1, <1>2, <1>3, <1>4, FinishKeeps

\* A response of True: the node ran after it was stopped, or it was stopped.
LEMMA Served ==
    ASSUME IInv, NEW c \in Clients, call[c].pc = "wait", Observe,
           UNCHANGED supervisordVars, NEW n \in Nodes, NEW kind \in {"start", "stop"},
           Head(call[c].todo) = Request(kind, n), Response(kind, n) = "ok"
    PROVE  /\ kind = "start" => n \in since'[c].started
           /\ kind = "stop" => n \in since'[c].stopped
  <1>1. proc' = proc
    BY DEF supervisordVars
  <1>2. /\ \A k \in Nodes : proc'[k] \in StoppedStates => k \in since'[c].stopped
        /\ \A k \in since[c].stopped : proc'[k] = "RUNNING" => k \in since'[c].started
    BY Observed DEF IInv, Busy
  <1>3. CASE kind = "start"
    <2>1. proc[n] = "RUNNING"
      BY <1>3 DEF Response
    <2>2. n \in since[c].stopped
      BY <1>3, <2>1 DEF IInv, ClientInv, Awaited
    <2>3. QED
      BY <1>1, <1>2, <1>3, <2>1, <2>2
  <1>4. CASE kind = "stop"
    BY <1>1, <1>2, <1>4 DEF Response
  <1>5. QED
    BY <1>3, <1>4

\* What is left after the first request, and what it leaves to do.
LEMMA RestOfRequests ==
    ASSUME NEW todo \in Seq(Requests), todo # <<>>, NEW r \in Requests,
           NEW i \in DOMAIN todo, todo[i] = r
    PROVE  /\ Tail(todo) \in Seq(Requests)
           /\ Head(todo) = r \/ (Tail(todo) # <<>> /\
                \E k \in DOMAIN Tail(todo) : Tail(todo)[k] = r)
  <1>1. i \in 1 .. Len(todo) /\ Tail(todo) \in Seq(Requests)
        /\ Len(Tail(todo)) = Len(todo) - 1
    OBVIOUS
  <1>2. CASE i = 1
    BY <1>1, <1>2
  <1>3. CASE i # 1
    <2>1. i - 1 \in 1 .. Len(Tail(todo))
      BY <1>1, <1>3
    <2>2. Tail(todo)[i - 1] = r
      BY <1>1, <1>3, <2>1
    <2>3. i - 1 \in DOMAIN Tail(todo) /\ Tail(todo) # <<>>
      BY <1>1, <2>1
    <2>4. QED
      BY <1>1, <2>2, <2>3
  <1>4. QED
    BY <1>2, <1>3

LEMMA ReceiveKeeps ==
    ASSUME IInv, NEW c \in Clients, Receive(c)
    PROVE  IInv'
  <1> DEFINE todo == call[c].todo
             kind == Head(todo).kind
             n == Head(todo).node
             rest == Tail(todo)
  <1>1. /\ call[c].pc = "wait" /\ Sending(c) /\ Observe
        /\ UNCHANGED supervisordVars /\ proxy' = proxy
    BY DEF Receive, Sending
  <1>2. /\ todo \in Seq(Requests) /\ todo # <<>>
        /\ kind \in {"start", "stop"} /\ n \in Nodes
        /\ Head(todo) = Request(kind, n)
        /\ call[c].op \in StartOps \cup StopOps /\ call[c].op # "status"
    BY <1>1, FirstRequest
  <1>3. Response(kind, n) \in {"ok", "fault"}
    BY DEF Receive, Response
  <1>4. \/ Finish(c, Response(kind, n)) /\ (Response(kind, n) = "ok" => rest = <<>>)
        \/ /\ Response(kind, n) = "ok" /\ rest # <<>>
           /\ call' = [call EXCEPT ![c].pc = "send", ![c].todo = rest]
    BY <1>3, Zenon DEF Receive
  <1>5. /\ proxy' = [proxy EXCEPT ![c] = proxy[c]] /\ proxy[c] \in ProxyStates
    BY <1>1 DEF IInv, TypeOK
  \* A node that was to be started (stopped) is, or is still to be.
  <1>6. ASSUME Response(kind, n) = "ok", NEW k \in call[c].asked
        PROVE  /\ call[c].op \in StartOps =>
                    \/ k \in since'[c].started
                    \/ rest # <<>> /\ \E i \in DOMAIN rest : rest[i] = Request("start", k)
               /\ call[c].op \in StopOps =>
                    \/ k \in since'[c].stopped
                    \/ rest # <<>> /\ \E i \in DOMAIN rest : rest[i] = Request("stop", k)
    <2>1. k \in Nodes
      BY DEF IInv, TypeOK, Calls
    <2>2. /\ since[c].stopped \subseteq since'[c].stopped
          /\ since[c].started \subseteq since'[c].started
      BY <1>1, Observed DEF IInv, Busy
    <2>3. ASSUME NEW j \in {"start", "stop"}, k \in Left(c, j)
          PROVE  \/ j = "start" /\ k \in since'[c].started
                 \/ j = "stop" /\ k \in since'[c].stopped
                 \/ rest # <<>> /\ \E i \in DOMAIN rest : rest[i] = Request(j, k)
      <3>1. PICK i \in DOMAIN todo : todo[i] = Request(j, k)
        BY <2>3 DEF Left
      <3>2. Request(j, k) \in Requests
        BY <2>1 DEF Requests, Request
      <3>3. CASE Head(todo) = Request(j, k)
        <4>1. kind = j /\ n = k
          BY <3>3 DEF Request
        <4>2. QED
          BY <1>1, <1>2, <1>6, <4>1, Served
      <3>4. QED
        BY <1>2, <3>1, <3>2, <3>3, RestOfRequests
    <2>4. QED
      BY <1>1, <2>2, <2>3 DEF IInv, ClientInv, Progress
  <1>7. CASE Finish(c, Response(kind, n)) /\ (Response(kind, n) = "ok" => rest = <<>>)
    <2> HIDE DEF todo, kind, n, rest
    <2> DEFINE result == Response(kind, n)
    <2>1. result = "ok" =>
            /\ call[c].op \in StartOps => call[c].asked \subseteq since'[c].started
            /\ call[c].op \in StopOps => call[c].asked \subseteq since'[c].stopped
      BY <1>6, <1>7
    <2>2. result \in {"ok", "fault", "error"} /\ Finish(c, result)
      BY <1>3, <1>7
    <2> HIDE DEF result
    <2>3. QED
      BY <1>1, <1>2, <1>5, <2>1, <2>2, FinishKeeps
  <1>8. CASE /\ Response(kind, n) = "ok" /\ rest # <<>>
             /\ call' = [call EXCEPT ![c].pc = "send", ![c].todo = rest]
    <2>1. rest \in Seq(Requests)
      BY <1>2
    <2> HIDE DEF todo, kind, n, rest
    <2> DEFINE next(r) == [r EXCEPT !.pc = "send", !.todo = rest]
    <2>2. \A r \in Calls : /\ next(r) \in Calls /\ next(r).pc = "send"
                           /\ next(r).op = r.op /\ next(r).asked = r.asked
                           /\ next(r).todo = rest
      BY <2>1 DEF Calls
    <2>3. call' = [call EXCEPT ![c] = next(call[c])] /\ call \in [Clients -> Calls]
      BY <1>8 DEF IInv, TypeOK
    <2> HIDE DEF next
    <2>4. /\ call' \in [Clients -> Calls]
          /\ call'[c].pc = "send" /\ call'[c].op = call[c].op
          /\ call'[c].asked = call[c].asked /\ call'[c].todo = rest
          /\ \A e \in Clients : e # c => call'[e] = call[e]
      BY <2>2, <2>3
    <2>5. Shaped(c)' /\ Awaited(c)' /\ Done(c)' /\ Listed(c)'
      BY <1>2, <1>8, <2>4 DEF Shaped, Awaited, Done, Listed, Over, Idle, Sending
    <2>6. Noticed(c)'
      BY <1>1, <2>4, Observed DEF Noticed, IInv
    <2>7. call[c].asked \subseteq Nodes
      BY DEF IInv, TypeOK, Calls
    <2>8. Progress(c)'
      BY <1>6, <1>8, <2>4, <2>7 DEF Progress, Left
    <2>9. QED
      BY <1>1, <2>4, <2>5, <2>6, <2>8, PartsIInv, SupervisordStays
         DEF ClientInv, IInv, TypeOK
  <1>9. QED
    BY <1>4, <1>7, <1>8

-----------------------------------------------------------------------------
(* The invariant *)

LEMMA InitIInv == Init => IInv
  <1> SUFFICES ASSUME Init
               PROVE  IInv
    OBVIOUS
  <1> DEFINE first == [op |-> "none", pc |-> "idle", todo |-> <<>>, asked |-> {},
                       result |-> "none"]
  <1>1. SupervisordInv
    <2>1. /\ up = FALSE /\ boots = 0 /\ exits = 0 /\ pending = {}
          /\ proc = [n \in Nodes |-> "STOPPED"] /\ failed = [n \in Nodes |-> 0]
      BY DEF Init, SupervisordInit
    <2>2. proc \in [Nodes -> ProcessStates]
      BY <2>1 DEF ProcessStates, StoppedStates
    <2>3. /\ failed \in [Nodes -> 0 .. MaxExits]
          /\ boots \in 0 .. MaxBoots /\ exits \in 0 .. MaxExits
      BY <2>1, SupervisordBounds
    <2>4. Counted
      BY <2>1 DEF Counted
    <2>5. QED
      BY <2>1, <2>2, <2>3, <2>4 DEF SupervisordInv, SupervisordTypeOK
  <1>2. first \in Calls /\ first.pc = "idle" /\ first.op = "none"
        /\ first.result = "none"
    <2> DEFINE nothing == <<>>
    <2>1. nothing \in Seq(Requests)
      OBVIOUS
    <2> HIDE DEF nothing
    <2>2. LET f == [op |-> "none", pc |-> "idle", todo |-> nothing, asked |-> {},
                    result |-> "none"]
          IN  f \in Calls /\ f.pc = "idle" /\ f.op = "none" /\ f.result = "none"
      BY <2>1 DEF Calls
    <2>3. QED
      BY <2>2, Zenon DEF nothing
  <1>3. call = [c \in Clients |-> first]
    BY Zenon DEF Init
  <1> HIDE DEF first
  <1>4. NothingSeen \in Since /\ NoProxy \in ProxyStates
    BY DEF NothingSeen, Since, ProxyStates
  <1>5. TypeOK
    BY <1>1, <1>2, <1>3, <1>4 DEF Init, TypeOK, SupervisordInv
  <1>6. ASSUME NEW c \in Clients
        PROVE  ClientInv(c)
    BY <1>2, <1>3 DEF ClientInv, Shaped, Noticed, Awaited, Progress, Done, Listed, Over,
       Busy, Sending
  <1>7. QED
    BY <1>1, <1>5, <1>6 DEF IInv, SupervisordInv

LEMMA SupervisordStepKeeps ==
    ASSUME IInv, SupervisordStep, ClientsWait
    PROVE  IInv'
  <1>1. SupervisordInv' /\ StoppingEnds
    BY SupervisordKeeps DEF IInv, TypeOK, SupervisordInv
  <1>2. Observe /\ call' = call /\ proxy' = proxy
    BY DEF ClientsWait
  <1>3. \A c \in Clients : ClientInv(c)'
    BY <1>1, <1>2, BystanderKeeps DEF IInv
  <1>4. TypeOK'
    BY <1>1, <1>2, Observed DEF IInv, TypeOK, SupervisordInv
  <1>5. QED
    BY <1>1, <1>3, <1>4 DEF IInv, SupervisordInv

LEMMA NextIInv == IInv /\ [Next]_vars => IInv'
  <1> SUFFICES ASSUME IInv, [Next]_vars
               PROVE  IInv'
    OBVIOUS
  <1>1. CASE SupervisordStep /\ ClientsWait
    BY <1>1, SupervisordStepKeeps
  <1>2. ASSUME NEW c \in Clients, CallMethod(c)
        PROVE  IInv'
    BY <1>2, CallMethodKeeps
  <1>3. ASSUME NEW c \in Clients, Proceed(c)
        PROVE  IInv'
    BY <1>3, ListKeeps, ListFailsKeeps, SendKeeps, SendEndsKeeps, ReceiveKeeps
       DEF Proceed
  <1>4. CASE UNCHANGED vars
    <2>1. SupervisordInv'
      BY <1>4, SupervisordStays DEF vars
    <2>2. TypeOK'
      BY <1>4, <2>1 DEF vars, IInv, TypeOK, SupervisordInv
    <2>3. \A c \in Clients : ClientInv(c)'
      BY <1>4 DEF vars, supervisordVars, IInv, ClientInv, Shaped, Noticed, Awaited,
         Progress, Done, Listed, Over, Idle, Busy, Sending, Left
    <2>4. QED
      BY <2>1, <2>2, <2>3 DEF IInv, SupervisordInv
  <1>5. CASE Next
    BY <1>1, <1>2, <1>3, <1>5, Zenon DEF Next, SupervisordStep, Scheduled
  <1>6. QED
    BY <1>4, <1>5

LEMMA SpecIInv == Spec => []IInv
  <1>1. Spec => Init /\ [][Next]_vars
    BY PTL DEF Spec
  <1>2. QED
    BY <1>1, InitIInv, NextIInv, PTL

-----------------------------------------------------------------------------
(* The theorems *)

\* Every process, request and connection is of its kind; a node's failed starts
\* never outnumber the exits, whatever is stopped and started in between.
THEOREM TypeCorrect == Spec => []TypeOK
  BY SpecIInv, PTL DEF IInv

\* A ClusterCLI method that returns True has done what it says to every node it
\* acted on, whatever other clients and supervisord do meanwhile.
THEOREM TrueMeansDone == Spec => []OkMeansDone
  <1>1. IInv => OkMeansDone
    BY DEF IInv, ClientInv, Done, OkMeansDone, Over, StartOps, StopOps
  <1>2. QED
    BY <1>1, SpecIInv, PTL

\* status() never leaves a connection behind that no request can be sent on.
THEOREM ListingRecovers == Spec => []ListingDropsBrokenProxy
  <1>1. IInv => ListingDropsBrokenProxy
    BY DEF IInv, ClientInv, Listed, ListingDropsBrokenProxy
  <1>2. QED
    BY <1>1, SpecIInv, PTL
=============================================================================
