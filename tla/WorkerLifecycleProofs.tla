------------------------ MODULE WorkerLifecycleProofs ------------------------
(***************************************************************************)
(* Proofs about the processes: WorkerLifecycle, for any set of queues and  *)
(* any numbers of events and crashes; and WorkerHealth, for any number of  *)
(* workers and any threshold below it, and any periods in their order.     *)
(***************************************************************************)
EXTENDS WorkerLifecycle, WorkerHealth, SequenceTheorems, FiniteSetTheorems, TLAPS

-----------------------------------------------------------------------------
(* The operators on the listeners of one queue. *)

LEMMA NewListener == [stopped |-> FALSE, at |-> "receiving"] \in Listener
BY DEF Listener

\* start adds a listener at the end when there is none to stop, and changes none.
LEMMA StartedFacts ==
  ASSUME NEW ls \in Seq(Listener)
  PROVE  /\ Started(ls) \in Seq(Listener)
         /\ Len(Started(ls)) = IF IsStopped(ls) THEN Len(ls) + 1 ELSE Len(ls)
         /\ \A i \in 1..Len(ls) : Started(ls)[i] = ls[i]
         /\ Started(ls)[Len(Started(ls))].stopped = FALSE
         /\ Started(ls)[Len(Started(ls))].at = "ended" => ls[Len(ls)].at = "ended" /\ ~IsStopped(ls)
         /\ ~IsStopped(Started(ls))
<1> DEFINE new == [stopped |-> FALSE, at |-> "receiving"]
<1>1. CASE IsStopped(ls)
  <2>1. Started(ls) = Append(ls, new)
    BY <1>1 DEF Started
  <2> HIDE DEF new
  <2>2. /\ Started(ls) \in Seq(Listener) /\ Len(Started(ls)) = Len(ls) + 1
        /\ \A i \in 1..Len(ls) : Started(ls)[i] = ls[i]
        /\ Started(ls)[Len(ls) + 1] = new
    BY <2>1, NewListener DEF new
  <2>3. Started(ls) # <<>>
    BY <2>2
  <2> QED BY <1>1, <2>2, <2>3 DEF IsStopped, new
<1>2. CASE ~IsStopped(ls)
  <2>1. Started(ls) = ls
    BY <1>2 DEF Started
  <2>2. ls # <<>> /\ ~ls[Len(ls)].stopped
    BY <1>2 DEF IsStopped
  <2>3. Len(ls) \in 1..Len(ls) /\ ls[Len(ls)] \in Listener
    BY <2>2
  <2> QED BY <1>2, <2>1, <2>2, <2>3 DEF Listener
<1> QED BY <1>1, <1>2

\* stop stops the last listener and changes no other.
LEMMA StoppedFacts ==
  ASSUME NEW ls \in Seq(Listener)
  PROVE  /\ Stopped(ls) \in Seq(Listener)
         /\ Len(Stopped(ls)) = Len(ls)
         /\ \A i \in 1..Len(ls) : /\ Stopped(ls)[i].at = ls[i].at
                                  /\ ls[i].stopped => Stopped(ls)[i].stopped
                                  /\ i # Len(ls) => Stopped(ls)[i] = ls[i]
         /\ IsStopped(Stopped(ls))
         /\ Awaited(ls) \in Nat /\ Awaited(ls) <= Len(ls)
         /\ ~IsStopped(ls) => Awaited(ls) = Len(ls) /\ Awaited(ls) # 0
<1>1. CASE IsStopped(ls)
  BY <1>1 DEF Stopped, Awaited
<1>2. CASE ~IsStopped(ls)
  <2>1. ls # <<>> /\ Len(ls) \in 1..Len(ls)
    BY <1>2 DEF IsStopped
  <2>2. Stopped(ls) = [ls EXCEPT ![Len(ls)].stopped = TRUE]
    BY <1>2 DEF Stopped
  <2>3. ls[Len(ls)] \in Listener
    BY <2>1
  <2>4. [ls[Len(ls)] EXCEPT !.stopped = TRUE] \in Listener
    BY <2>3 DEF Listener
  <2>5. Stopped(ls) = [ls EXCEPT ![Len(ls)] = [ls[Len(ls)] EXCEPT !.stopped = TRUE]]
    BY <2>2
  <2> DEFINE v == [ls[Len(ls)] EXCEPT !.stopped = TRUE]
  <2>6. v.stopped /\ v.at = ls[Len(ls)].at
    BY <2>3 DEF Listener
  <2>7. v \in Listener
    BY <2>4
  <2>8. Stopped(ls) = [ls EXCEPT ![Len(ls)] = v]
    BY <2>5
  <2> HIDE DEF v
  <2>9. /\ Stopped(ls) \in Seq(Listener) /\ Len(Stopped(ls)) = Len(ls)
        /\ \A i \in 1..Len(ls) : i # Len(ls) => Stopped(ls)[i] = ls[i]
        /\ Stopped(ls)[Len(ls)] = v
    BY <2>1, <2>7, <2>8, ExceptSeq
  <2>10. IsStopped(Stopped(ls))
    BY <2>9, <2>6 DEF IsStopped
  <2>11. \A i \in 1..Len(ls) : /\ Stopped(ls)[i].at = ls[i].at
                               /\ ls[i].stopped => Stopped(ls)[i].stopped
    BY <2>9, <2>6
  <2>12. Awaited(ls) = Len(ls) /\ Len(ls) \in Nat /\ Len(ls) # 0
    BY <1>2, <2>1 DEF Awaited
  <2> QED BY <2>9, <2>10, <2>11, <2>12
<1> QED BY <1>1, <1>2

\* A listener that takes a step remains in its place, stopped or not.
LEMMA StepFacts ==
  ASSUME NEW ls \in Seq(Listener), NEW i \in 1..Len(ls), NEW l \in Listener,
         l.stopped = ls[i].stopped, NEW new, new = [ls EXCEPT ![i] = l]
  PROVE  /\ new \in Seq(Listener) /\ Len(new) = Len(ls)
         /\ new[i] = l
         /\ \A j \in 1..Len(ls) : j # i => new[j] = ls[j]
         /\ \A j \in 1..Len(ls) : new[j].stopped = ls[j].stopped
         /\ IsStopped(new) <=> IsStopped(ls)
<1>1. new \in Seq(Listener) /\ Len(new) = Len(ls)
  BY ExceptSeq
<1>2. \A j \in 1..Len(ls) : new[j] = IF j = i THEN l ELSE ls[j]
  BY ExceptSeq
<1>3. \A j \in 1..Len(ls) : new[j].stopped = ls[j].stopped
  BY <1>2
<1>4. Len(ls) \in 1..Len(ls) /\ ls # <<>> /\ new # <<>>
  BY <1>1
<1>5. new[Len(new)].stopped = ls[Len(ls)].stopped
  BY <1>1, <1>3, <1>4
<1>6. IsStopped(new) <=> IsStopped(ls)
  BY <1>4, <1>5, Zenon DEF IsStopped
<1> QED BY <1>1, <1>2, <1>3, <1>6

\* The calls of stop that still wait, without one of them.
LEMMA WithoutFacts ==
  ASSUME stops \in Seq([Queue -> Nat]), NEW k \in 1..Len(stops)
  PROVE  /\ Without(k) \in Seq([Queue -> Nat])
         /\ Len(Without(k)) = Len(stops) - 1
         /\ \A i \in 1..Len(Without(k)) :
              \E j \in 1..Len(stops) : Without(k)[i] = stops[j]
<1> DEFINE A == SubSeq(stops, 1, k - 1)
           B == SubSeq(stops, k + 1, Len(stops))
<1>1. A \in Seq([Queue -> Nat]) /\ Len(A) = k - 1 /\ \A i \in 1..(k - 1) : A[i] = stops[i]
  OBVIOUS
<1>2. /\ B \in Seq([Queue -> Nat]) /\ Len(B) = Len(stops) - k
      /\ \A i \in 1..(Len(stops) - k) : B[i] = stops[k + i]
  OBVIOUS
<1>3. Without(k) = A \o B
  BY DEF Without
<1> HIDE DEF A, B
<1>4. Len(Without(k)) = Len(stops) - 1 /\ Without(k) \in Seq([Queue -> Nat])
  BY <1>1, <1>2, <1>3
<1>5. ASSUME NEW i \in 1..Len(Without(k))
      PROVE  \E j \in 1..Len(stops) : Without(k)[i] = stops[j]
  <2>1. CASE i <= k - 1
    BY <2>1, <1>1, <1>2, <1>3, <1>4
  <2>2. CASE i > k - 1
    <3>1. Without(k)[i] = B[i - (k - 1)]
      BY <2>2, <1>1, <1>2, <1>3, <1>4
    <3>2. i - (k - 1) \in 1..(Len(stops) - k)
      BY <2>2, <1>4
    <3>3. Without(k)[i] = stops[k + (i - (k - 1))]
      BY <3>1, <3>2, <1>2
    <3>4. k + (i - (k - 1)) \in 1..Len(stops)
      BY <3>2
    <3> QED BY <3>3, <3>4
  <2> QED BY <2>1, <2>2, <1>1, <1>2
<1> QED BY <1>4, <1>5

-----------------------------------------------------------------------------
(* What the actions do to the listeners. *)

ListenersOK ==
  /\ listeners \in [Queue -> Seq(Listener)]
  /\ \A q \in Queue : \A i \in 1..Len(listeners[q]) :
       listeners[q][i].at = "ended" => listeners[q][i].stopped

\* A step of a listener leaves alone who is stopped and how many there are.
LEMMA ListenerStepFacts ==
  ASSUME ListenersOK, NEW q \in Queue, NEW i \in 1..Len(listeners[q]), ListenerStep(q, i)
  PROVE  /\ ListenersOK'
         /\ \A x \in Queue :
              /\ Len(listeners'[x]) = Len(listeners[x])
              /\ \A j \in 1..Len(listeners[x]) :
                   listeners'[x][j].stopped = listeners[x][j].stopped
              /\ IsStopped(listeners'[x]) <=> IsStopped(listeners[x])
<1> DEFINE ls == listeners[q]
<1>1. ls \in Seq(Listener) /\ ls[i] \in Listener
  BY DEF ListenersOK
<1>2. ls[i].at = "ended" => ls[i].stopped
  BY DEF ListenersOK
<1>3. PICK l \in Listener : /\ l.stopped = ls[i].stopped
                            /\ l.at = "ended" => l.stopped
                            /\ listeners' = [listeners EXCEPT ![q] = [ls EXCEPT ![i] = l]]
  <2> HIDE DEF ls
  <2> DEFINE a == [ls[i] EXCEPT !.at = "handling"]
             b == NextRound(ls[i])
             c == [ls[i] EXCEPT !.at = "waiting"]
  <2>1. \/ listeners' = [listeners EXCEPT ![q] = [ls EXCEPT ![i] = a]]
        \/ listeners' = [listeners EXCEPT ![q] = [ls EXCEPT ![i] = b]]
        \/ listeners' = [listeners EXCEPT ![q] = [ls EXCEPT ![i] = c]]
    BY DEF ListenerStep, Listens, ls
  <2>2. a \in Listener /\ a.stopped = ls[i].stopped /\ a.at # "ended"
    BY <1>1 DEF Listener
  <2>3. b \in Listener /\ b.stopped = ls[i].stopped /\ (b.at = "ended" => b.stopped)
    BY <1>1 DEF Listener, NextRound
  <2>4. c \in Listener /\ c.stopped = ls[i].stopped /\ c.at # "ended"
    BY <1>1 DEF Listener
  <2> QED BY <2>1, <2>2, <2>3, <2>4
<1> DEFINE new == [ls EXCEPT ![i] = l]
<1>5. listeners' = [listeners EXCEPT ![q] = new]
  BY <1>3
<1>6. /\ new \in Seq(Listener) /\ Len(new) = Len(ls)
      /\ new[i] = l
      /\ \A j \in 1..Len(ls) : j # i => new[j] = ls[j]
      /\ \A j \in 1..Len(ls) : new[j].stopped = ls[j].stopped
      /\ IsStopped(new) <=> IsStopped(ls)
  <2>1. new = [ls EXCEPT ![i] = l]
    OBVIOUS
  <2>2. l.stopped = ls[i].stopped
    BY <1>3
  <2>3. i \in 1..Len(ls)
    OBVIOUS
  <2> HIDE DEF new, ls
  <2>4. IsStopped(new) <=> IsStopped(ls)
    BY <1>1, <2>1, <2>2, <2>3, StepFacts, Zenon
  <2>5. new \in Seq(Listener) /\ Len(new) = Len(ls) /\ new[i] = l
    BY <1>1, <2>1, <2>2, <2>3, StepFacts
  <2>6. /\ \A j \in 1..Len(ls) : j # i => new[j] = ls[j]
        /\ \A j \in 1..Len(ls) : new[j].stopped = ls[j].stopped
    BY <1>1, <2>1, <2>2, <2>3, StepFacts
  <2> QED BY <2>4, <2>5, <2>6
<1> HIDE DEF new
<1>7. listeners'[q] = new /\ \A x \in Queue \ {q} : listeners'[x] = listeners[x]
  BY <1>5 DEF ListenersOK
<1>8. listeners' \in [Queue -> Seq(Listener)]
  BY <1>5, <1>6 DEF ListenersOK
<1>9. ASSUME NEW j \in 1..Len(new), new[j].at = "ended"
      PROVE  new[j].stopped
  <2>1. CASE j = i
    BY <2>1, <1>3, <1>6, <1>9
  <2>2. CASE j # i
    <3>1. j \in 1..Len(ls) /\ new[j] = ls[j]
      BY <2>2, <1>6
    <3> QED BY <3>1, <1>9 DEF ListenersOK
  <2> QED BY <2>1, <2>2
<1>10. \A x \in Queue : \A j \in 1..Len(listeners'[x]) :
         listeners'[x][j].at = "ended" => listeners'[x][j].stopped
  <2> SUFFICES ASSUME NEW x \in Queue, NEW j \in 1..Len(listeners'[x]),
                      listeners'[x][j].at = "ended"
               PROVE  listeners'[x][j].stopped
    OBVIOUS
  <2>1. CASE x = q
    BY <2>1, <1>7, <1>9
  <2>2. CASE x # q
    BY <2>2, <1>7 DEF ListenersOK
  <2> QED BY <2>1, <2>2
<1>11. ListenersOK'
  BY <1>8, <1>10 DEF ListenersOK
<1>12. ASSUME NEW x \in Queue
       PROVE  /\ Len(listeners'[x]) = Len(listeners[x])
              /\ \A j \in 1..Len(listeners[x]) :
                   listeners'[x][j].stopped = listeners[x][j].stopped
              /\ IsStopped(listeners'[x]) <=> IsStopped(listeners[x])
  <2>1. CASE x = q
    BY <2>1, <1>6, <1>7
  <2>2. CASE x # q
    BY <2>2, <1>7
  <2> QED BY <2>1, <2>2
<1> QED BY <1>11, <1>12

\* After sqsQueues.start the last listener of every queue is not stopped.
LEMMA StartFacts ==
  ASSUME ListenersOK, listeners' = [q \in Queue |-> Started(listeners[q])]
  PROVE  /\ ListenersOK'
         /\ \A x \in Queue :
              /\ Len(listeners'[x]) >= Len(listeners[x])
              /\ listeners'[x] = Started(listeners[x])
              /\ ~IsStopped(listeners'[x])
<1>1. \A x \in Queue : listeners[x] \in Seq(Listener) /\ listeners'[x] = Started(listeners[x])
  BY DEF ListenersOK
<1>2. listeners' \in [Queue -> Seq(Listener)]
  BY <1>1, StartedFacts
<1>3. ASSUME NEW x \in Queue, NEW i \in 1..Len(listeners'[x]), listeners'[x][i].at = "ended"
      PROVE  listeners'[x][i].stopped
  <2>1. Len(listeners[x]) \in Nat
    BY <1>1
  <2>2. CASE i <= Len(listeners[x])
    <3>1. i \in 1..Len(listeners[x])
      BY <2>1, <2>2
    <3>2. listeners'[x][i] = listeners[x][i]
      BY <1>1, <3>1, StartedFacts
    <3> QED BY <1>3, <3>1, <3>2 DEF ListenersOK
  <2>3. CASE i > Len(listeners[x])
    <3>1. Len(listeners'[x]) = IF IsStopped(listeners[x]) THEN Len(listeners[x]) + 1
                               ELSE Len(listeners[x])
      BY <1>1, StartedFacts
    <3>2. IsStopped(listeners[x]) /\ i = Len(listeners'[x])
      BY <2>1, <2>3, <3>1
    <3>3. ~(listeners'[x][i].at = "ended") \/ ~IsStopped(listeners[x])
      BY <1>1, <3>2, StartedFacts
    <3> QED BY <1>3, <3>2, <3>3
  <2> QED BY <2>1, <2>2, <2>3
<1>4. ASSUME NEW x \in Queue
      PROVE  Len(listeners'[x]) >= Len(listeners[x]) /\ ~IsStopped(listeners'[x])
  <2> DEFINE ls == listeners[x]
  <2>0. ls \in Seq(Listener) /\ Len(ls) \in Nat
    BY <1>1
  <2> HIDE DEF ls
  <2>1. ~IsStopped(Started(ls))
    BY <2>0, StartedFacts, Zenon
  <2>2. Len(Started(ls)) = IF IsStopped(ls) THEN Len(ls) + 1 ELSE Len(ls)
    BY <2>0, StartedFacts, Zenon
  <2>3. Len(Started(ls)) >= Len(ls)
    BY <2>0, <2>2
  <2> QED BY <1>1, <2>1, <2>3 DEF ls
<1> QED BY <1>1, <1>2, <1>3, <1>4 DEF ListenersOK

\* After sqsQueues.stop the last listener of every queue is stopped.
LEMMA StopFacts ==
  ASSUME ListenersOK, listeners' = [q \in Queue |-> Stopped(listeners[q])]
  PROVE  /\ ListenersOK'
         /\ \A x \in Queue :
              /\ Len(listeners'[x]) = Len(listeners[x])
              /\ \A i \in 1..Len(listeners[x]) :
                   listeners[x][i].stopped => listeners'[x][i].stopped
              /\ IsStopped(listeners'[x])
<1>1. \A x \in Queue : listeners[x] \in Seq(Listener) /\ listeners'[x] = Stopped(listeners[x])
  BY DEF ListenersOK
<1>2. listeners' \in [Queue -> Seq(Listener)]
  BY <1>1, StoppedFacts
<1>3. ASSUME NEW x \in Queue, NEW i \in 1..Len(listeners'[x]), listeners'[x][i].at = "ended"
      PROVE  listeners'[x][i].stopped
  BY <1>1, <1>3, StoppedFacts DEF ListenersOK
<1> QED BY <1>1, <1>2, <1>3, StoppedFacts DEF ListenersOK

-----------------------------------------------------------------------------
(* Type correctness. *)

\* Every call of stop that waits awaits listeners that are there.
StopsOK ==
  /\ stops \in Seq([Queue -> Nat])
  /\ \A k \in 1..Len(stops) : \A q \in Queue : stops[k][q] <= Len(listeners[q])

RestOK ==
  /\ wanted \in Command /\ pipe \in Seq(Command) /\ running \in BOOLEAN
  /\ spent \in [events : 0..MaxEvents, crashes : 0..MaxCrashes]
  /\ excuse \in [overlapped : BOOLEAN, rejected : BOOLEAN, respawned : BOOLEAN]

LEMMA TypeParts == TypeOK <=> ListenersOK /\ StopsOK /\ RestOK
BY DEF TypeOK, ListenersOK, StopsOK, RestOK

\* Commands change the pipe and the excuses in a well-typed way.
LEMMA HandlesFacts ==
  ASSUME RestOK, NEW command \in Command, Handles(command)
  PROVE  /\ pipe' \in Seq(Command)
         /\ excuse' \in [overlapped : BOOLEAN, rejected : BOOLEAN, respawned : BOOLEAN]
         /\ excuse'.overlapped <=> (excuse.overlapped \/ stops # <<>>)
         /\ excuse'.rejected = excuse.rejected
<1>1. pipe \in Seq(Command) /\ pipe # <<>> /\ pipe' = Tail(pipe)
  BY DEF RestOK, Handles
<1>2. pipe' \in Seq(Command)
  BY <1>1
<1> QED BY <1>2 DEF RestOK, Handles

\* Listeners are never taken away while stops wait for them.
LEMMA StopsStayOK ==
  ASSUME StopsOK, UNCHANGED stops, ListenersOK, ListenersOK',
         \A x \in Queue : Len(listeners'[x]) >= Len(listeners[x])
  PROVE  StopsOK'
<1>1. ASSUME NEW k \in 1..Len(stops'), NEW q \in Queue
      PROVE  stops'[k][q] <= Len(listeners'[q])
  <2>1. k \in 1..Len(stops) /\ stops[k] \in [Queue -> Nat] /\ stops'[k] = stops[k]
    BY DEF StopsOK
  <2>2. stops[k][q] \in Nat /\ stops[k][q] <= Len(listeners[q])
    BY <2>1 DEF StopsOK
  <2>3. Len(listeners[q]) \in Nat /\ Len(listeners'[q]) \in Nat
    BY DEF ListenersOK
  <2> QED BY <2>1, <2>2, <2>3
<1> QED BY <1>1 DEF StopsOK

LEMMA StopsWithoutOneOK ==
  ASSUME StopsOK, NEW k \in 1..Len(stops), stops' = Without(k), UNCHANGED listeners
  PROVE  StopsOK'
<1>1. stops \in Seq([Queue -> Nat])
  BY DEF StopsOK
<1>2. /\ Without(k) \in Seq([Queue -> Nat])
      /\ \A i \in 1..Len(Without(k)) : \E j \in 1..Len(stops) : Without(k)[i] = stops[j]
  BY <1>1, WithoutFacts
<1>3. ASSUME NEW i \in 1..Len(stops'), NEW q \in Queue
      PROVE  stops'[i][q] <= Len(listeners'[q])
  <2>1. PICK j \in 1..Len(stops) : stops'[i] = stops[j]
    BY <1>2
  <2> QED BY <2>1 DEF StopsOK
<1> QED BY <1>2, <1>3 DEF StopsOK

LEMMA TypeInit == Init => TypeOK
<1> SUFFICES ASSUME Init PROVE TypeOK
  OBVIOUS
<1>1. ListenersOK
  BY DEF Init, ListenersOK
<1>2. StopsOK
  BY DEF Init, StopsOK
<1>3. RestOK
  <2>1. spent \in [events : 0..MaxEvents, crashes : 0..MaxCrashes]
    BY BoundsAssumption DEF Init
  <2>2. pipe \in Seq(Command)
    BY DEF Init
  <2> QED BY <2>1, <2>2 DEF Init, RestOK, Command
<1> QED BY <1>1, <1>2, <1>3, TypeParts

LEMMA TypeStep == TypeOK /\ [Next]_vars => TypeOK'
<1> SUFFICES ASSUME TypeOK, [Next]_vars PROVE ListenersOK' /\ StopsOK' /\ RestOK'
  BY TypeParts DEF TypeOK, ListenersOK, StopsOK, RestOK
<1>0. ListenersOK /\ StopsOK /\ RestOK
  BY TypeParts
<1>1. ASSUME NEW command \in Command, LifecycleEvent(command)
      PROVE  ListenersOK' /\ StopsOK' /\ RestOK'
  <2>1. ListenersOK' /\ StopsOK'
    BY <1>0, <1>1 DEF LifecycleEvent, ListenersOK, StopsOK
  <2>2. pipe' \in Seq(Command)
    BY <1>0, <1>1 DEF LifecycleEvent, RestOK
  <2>3. spent' \in [events : 0..MaxEvents, crashes : 0..MaxCrashes]
    BY <1>0, <1>1, BoundsAssumption DEF LifecycleEvent, RestOK
  <2> QED BY <1>0, <1>1, <2>1, <2>2, <2>3 DEF LifecycleEvent, RestOK
<1>2. ASSUME Start PROVE ListenersOK' /\ StopsOK' /\ RestOK'
  <2>1. /\ pipe' \in Seq(Command)
        /\ excuse' \in [overlapped : BOOLEAN, rejected : BOOLEAN, respawned : BOOLEAN]
    BY <1>0, <1>2, HandlesFacts DEF Start, Command
  <2>2. RestOK'
    BY <1>0, <1>2, <2>1 DEF Start, RestOK
  <2>3. CASE running
    BY <1>0, <1>2, <2>2, <2>3 DEF Start, ListenersOK, StopsOK
  <2>4. CASE ~running
    <3>1. listeners' = [q \in Queue |-> Started(listeners[q])] /\ UNCHANGED stops
      BY <1>2, <2>4 DEF Start
    <3>2. ListenersOK' /\ \A x \in Queue : Len(listeners'[x]) >= Len(listeners[x])
      BY <1>0, <3>1, StartFacts
    <3> QED BY <1>0, <2>2, <3>1, <3>2, StopsStayOK
  <2> QED BY <2>3, <2>4
<1>3. ASSUME Stop PROVE ListenersOK' /\ StopsOK' /\ RestOK'
  <2>1. /\ pipe' \in Seq(Command)
        /\ excuse' \in [overlapped : BOOLEAN, rejected : BOOLEAN, respawned : BOOLEAN]
    BY <1>0, <1>3, HandlesFacts DEF Stop, Command
  <2>2. RestOK'
    BY <1>0, <1>3, <2>1 DEF Stop, RestOK
  <2>3. CASE ~running
    BY <1>0, <1>3, <2>2, <2>3 DEF Stop, ListenersOK, StopsOK
  <2>4. CASE running
    <3> DEFINE awaited == [q \in Queue |-> Awaited(listeners[q])]
    <3>1. /\ listeners' = [q \in Queue |-> Stopped(listeners[q])]
          /\ stops' = Append(stops, awaited)
      BY <1>3, <2>4 DEF Stop
    <3>2. ListenersOK' /\ \A x \in Queue : Len(listeners'[x]) = Len(listeners[x])
      BY <1>0, <3>1, StopFacts
    <3>3. ASSUME NEW q \in Queue
          PROVE  Awaited(listeners[q]) \in Nat /\ Awaited(listeners[q]) <= Len(listeners[q])
      <4>1. listeners[q] \in Seq(Listener)
        BY <1>0 DEF ListenersOK
      <4> QED BY <4>1, StoppedFacts
    <3>4. /\ awaited \in [Queue -> Nat]
          /\ \A q \in Queue : awaited[q] <= Len(listeners[q])
      BY <3>3
    <3> HIDE DEF awaited
    <3>5. stops \in Seq([Queue -> Nat])
      BY <1>0 DEF StopsOK
    <3>6. /\ stops' \in Seq([Queue -> Nat]) /\ Len(stops') = Len(stops) + 1
          /\ \A k \in 1..Len(stops) : stops'[k] = stops[k]
          /\ stops'[Len(stops) + 1] = awaited
      BY <3>1, <3>4, <3>5
    <3>7. ASSUME NEW k \in 1..Len(stops'), NEW q \in Queue
          PROVE  stops'[k][q] <= Len(listeners'[q])
      <4>1. CASE k \in 1..Len(stops)
        BY <4>1, <1>0, <3>2, <3>6 DEF StopsOK
      <4>2. CASE k = Len(stops) + 1
        BY <4>2, <3>2, <3>4, <3>6
      <4> QED BY <4>1, <4>2, <3>5, <3>6
    <3>8. StopsOK'
      BY <3>6, <3>7 DEF StopsOK
    <3> QED BY <2>2, <3>2, <3>8
  <2> QED BY <2>3, <2>4
<1>4. ASSUME NEW k \in 1..Len(stops), StopResolves(k) \/ StopRejects(k)
      PROVE  ListenersOK' /\ StopsOK' /\ RestOK'
  <2>1. stops' = Without(k) /\ UNCHANGED listeners
    BY <1>4 DEF StopResolves, StopRejects
  <2>2. StopsOK'
    BY <1>0, <2>1, StopsWithoutOneOK
  <2>3. ListenersOK'
    BY <1>0, <2>1 DEF ListenersOK
  <2>4. RestOK'
    BY <1>0, <1>4 DEF StopResolves, StopRejects, RestOK
  <2> QED BY <2>2, <2>3, <2>4
<1>5. ASSUME NEW q \in Queue, NEW i \in 1..Len(listeners[q]), ListenerStep(q, i)
      PROVE  ListenersOK' /\ StopsOK' /\ RestOK'
  <2>1. ListenersOK' /\ \A x \in Queue : Len(listeners'[x]) = Len(listeners[x])
    BY <1>0, <1>5, ListenerStepFacts
  <2>2. \A x \in Queue : Len(listeners'[x]) >= Len(listeners[x])
    BY <1>0, <2>1 DEF ListenersOK
  <2>3. StopsOK'
    BY <1>0, <1>5, <2>1, <2>2, StopsStayOK DEF ListenerStep
  <2> QED BY <1>0, <1>5, <2>1, <2>3 DEF ListenerStep, RestOK
<1>6. ASSUME Respawn PROVE ListenersOK' /\ StopsOK' /\ RestOK'
  <2>1. ListenersOK' /\ StopsOK'
    BY <1>6 DEF Respawn, ListenersOK, StopsOK
  <2>2. spent' \in [events : 0..MaxEvents, crashes : 0..MaxCrashes]
    BY <1>0, <1>6, BoundsAssumption DEF Respawn, RestOK
  <2>3. pipe' \in Seq(Command)
    BY <1>6 DEF Respawn
  <2> QED BY <1>0, <1>6, <2>1, <2>2, <2>3 DEF Respawn, RestOK
<1>7. ASSUME UNCHANGED vars PROVE ListenersOK' /\ StopsOK' /\ RestOK'
  BY <1>0, <1>7 DEF vars, ListenersOK, StopsOK, RestOK
<1> QED BY <1>1, <1>2, <1>3, <1>4, <1>5, <1>6, <1>7 DEF Next, StopIsAnswered

\* The type invariant: whatever the number of queues, events and crashes.
THEOREM TypeCorrect == Spec => []TypeOK
BY TypeInit, TypeStep, PTL DEF Spec

-----------------------------------------------------------------------------
(* One listener of a queue at a time is not stopped. *)

LEMMA OneListensStep == TypeOK /\ OneListens /\ [Next]_vars => OneListens'
<1> SUFFICES ASSUME TypeOK, OneListens, [Next]_vars PROVE OneListens'
  OBVIOUS
<1>0. ListenersOK
  BY TypeParts
<1>1. ASSUME UNCHANGED listeners PROVE OneListens'
  BY <1>1 DEF OneListens
<1>2. ASSUME listeners' = [q \in Queue |-> Started(listeners[q])] PROVE OneListens'
  <2> SUFFICES ASSUME NEW q \in Queue, NEW i \in 1..(Len(listeners'[q]) - 1)
               PROVE  listeners'[q][i].stopped
    BY DEF OneListens
  <2> DEFINE ls == listeners[q]
  <2>1. ls \in Seq(Listener) /\ listeners'[q] = Started(ls)
    BY <1>0, <1>2 DEF ListenersOK
  <2>2. \A j \in 1..(Len(ls) - 1) : ls[j].stopped
    BY DEF OneListens
  <2> HIDE DEF ls
  <2>3. CASE IsStopped(ls)
    <3>1. Len(Started(ls)) = Len(ls) + 1
      BY <2>1, <2>3, StartedFacts
    <3>2. i \in 1..Len(ls) /\ Len(ls) \in Nat
      BY <2>1, <3>1
    <3>3. Started(ls)[i] = ls[i]
      BY <2>1, <3>2, StartedFacts
    <3>4. i = Len(ls) => ls[i].stopped
      BY <2>1, <2>3, <3>2 DEF IsStopped
    <3> QED BY <2>1, <2>2, <3>2, <3>3, <3>4
  <2>4. CASE ~IsStopped(ls)
    <3>1. Started(ls) = ls
      BY <2>4 DEF Started
    <3> QED BY <2>1, <2>2, <3>1
  <2> QED BY <2>3, <2>4
<1>3. ASSUME listeners' = [q \in Queue |-> Stopped(listeners[q])] PROVE OneListens'
  <2>1. \A x \in Queue : /\ Len(listeners'[x]) = Len(listeners[x])
                         /\ \A i \in 1..Len(listeners[x]) :
                              listeners[x][i].stopped => listeners'[x][i].stopped
    BY <1>0, <1>3, StopFacts
  <2>2. \A x \in Queue : Len(listeners[x]) \in Nat
    BY <1>0 DEF ListenersOK
  <2> QED BY <2>1, <2>2 DEF OneListens
<1>4. ASSUME NEW q \in Queue, NEW i \in 1..Len(listeners[q]), ListenerStep(q, i)
      PROVE  OneListens'
  <2>1. \A x \in Queue : /\ Len(listeners'[x]) = Len(listeners[x])
                         /\ \A j \in 1..Len(listeners[x]) :
                              listeners'[x][j].stopped = listeners[x][j].stopped
    BY <1>0, <1>4, ListenerStepFacts
  <2>2. \A x \in Queue : Len(listeners[x]) \in Nat
    BY <1>0 DEF ListenersOK
  <2> QED BY <2>1, <2>2 DEF OneListens
<1>5. ASSUME Respawn PROVE OneListens'
  BY <1>5 DEF Respawn, OneListens
<1> QED
  BY <1>1, <1>2, <1>3, <1>4, <1>5
  DEF Next, vars, LifecycleEvent, Start, Stop, StopIsAnswered, StopResolves, StopRejects

\* No queue is left with a listener that nothing can stop.
THEOREM OneListenerAtATime == Spec => []OneListens
<1>1. Init => OneListens
  BY DEF Init, OneListens
<1> QED BY <1>1, OneListensStep, TypeCorrect, PTL DEF Spec

-----------------------------------------------------------------------------
(* The flag. *)

\* Why the flag is right once a stop has been answered: as long as no command came while a
\* stop waited, one stop waits at most; while it waits, or after it has given up, the flag
\* is up and every queue is stopped; and it waits for the last listener of each queue.
FlagInv ==
  ~excuse.overlapped =>
    /\ Len(stops) <= 1
    /\ stops # <<>> \/ excuse.rejected => running /\ \A q \in Queue : ~Listening(q)
    /\ stops = <<>> /\ ~excuse.rejected => \A q \in Queue : running <=> Listening(q)
    /\ stops # <<>> /\ ~excuse.rejected =>
         \A q \in Queue : stops[1][q] = Len(listeners[q]) /\ stops[1][q] # 0

LEMMA FlagInit == Init => FlagInv
BY DEF Init, FlagInv, Listening, IsStopped

LEMMA OnlyOne ==
  ASSUME NEW T, NEW seq \in Seq(T), NEW k \in 1..Len(seq), Len(seq) <= 1
  PROVE  seq # <<>> /\ Len(seq) = 1
<1>1. Len(seq) \in Nat /\ k \in 1..Len(seq) /\ Len(seq) <= 1
  OBVIOUS
<1>2. \A n \in Nat : n <= 1 /\ 1..n # {} => n = 1
  OBVIOUS
<1>3. Len(seq) = 1
  BY <1>1, <1>2
<1>4. CASE seq = <<>>
  <2>1. Len(<<>>) = 0
    OBVIOUS
  <2> QED BY <1>3, <1>4, <2>1
<1> QED BY <1>3, <1>4

LEMMA FlagStep == TypeOK /\ FlagInv /\ [Next]_vars => FlagInv'
<1> SUFFICES ASSUME TypeOK, FlagInv, [Next]_vars PROVE FlagInv'
  OBVIOUS
<1>0. ListenersOK /\ StopsOK /\ RestOK
  BY TypeParts
<1>1. ASSUME NEW command \in Command, LifecycleEvent(command) PROVE FlagInv'
  BY <1>1 DEF LifecycleEvent, FlagInv, Listening
<1>2. ASSUME Start PROVE FlagInv'
  <2> SUFFICES ASSUME ~excuse'.overlapped PROVE FlagInv'
    BY DEF FlagInv
  <2>1. /\ stops = <<>> /\ ~excuse.overlapped
        /\ excuse'.rejected = excuse.rejected
        /\ UNCHANGED stops
    BY <1>0, <1>2, HandlesFacts DEF Start, Command
  <2>2. CASE running
    BY <1>2, <2>1, <2>2 DEF Start, FlagInv, Listening
  <2>3. CASE ~running
    <3>1. /\ listeners' = [q \in Queue |-> Started(listeners[q])]
          /\ running' = TRUE
      BY <1>2, <2>3 DEF Start
    <3>2. \A q \in Queue : ~IsStopped(listeners'[q])
      BY <1>0, <3>1, StartFacts
    <3>3. ~excuse'.rejected
      BY <2>1, <2>3 DEF FlagInv
    <3> QED BY <2>1, <3>1, <3>2, <3>3 DEF FlagInv, Listening
  <2> QED BY <2>2, <2>3
<1>3. ASSUME Stop PROVE FlagInv'
  <2> SUFFICES ASSUME ~excuse'.overlapped PROVE FlagInv'
    BY DEF FlagInv
  <2>1. /\ stops = <<>> /\ ~excuse.overlapped
        /\ excuse'.rejected = excuse.rejected
        /\ UNCHANGED running
    BY <1>0, <1>3, HandlesFacts DEF Stop, Command
  <2>2. CASE ~running
    BY <1>3, <2>1, <2>2 DEF Stop, FlagInv, Listening
  <2>3. CASE running
    <3>1. /\ listeners' = [q \in Queue |-> Stopped(listeners[q])]
          /\ stops' = Append(stops, [q \in Queue |-> Awaited(listeners[q])])
      BY <1>3, <2>3 DEF Stop
    <3>2. \A q \in Queue : IsStopped(listeners'[q]) /\ Len(listeners'[q]) = Len(listeners[q])
      BY <1>0, <3>1, StopFacts
    <3>3. stops' = <<[q \in Queue |-> Awaited(listeners[q])]>>
      BY <2>1, <3>1
    <3>4. Len(stops') = 1 /\ stops' # <<>> /\ \A q \in Queue : stops'[1][q] = Awaited(listeners[q])
      BY <3>3
    <3>5. ASSUME ~excuse'.rejected, NEW q \in Queue
          PROVE  stops'[1][q] = Len(listeners'[q]) /\ stops'[1][q] # 0
      <4>1. ~IsStopped(listeners[q])
        BY <2>1, <2>3, <3>5 DEF FlagInv, Listening
      <4>2. listeners[q] \in Seq(Listener)
        BY <1>0 DEF ListenersOK
      <4>3. Awaited(listeners[q]) = Len(listeners[q]) /\ Awaited(listeners[q]) # 0
        BY <4>1, <4>2, StoppedFacts
      <4> QED BY <3>2, <3>4, <4>3
    <3> QED BY <2>1, <2>3, <3>2, <3>4, <3>5 DEF FlagInv, Listening
  <2> QED BY <2>2, <2>3
<1>4. ASSUME NEW k \in 1..Len(stops), StopResolves(k) PROVE FlagInv'
  <2> SUFFICES ASSUME ~excuse'.overlapped PROVE FlagInv'
    BY DEF FlagInv
  <2>1. /\ ~excuse.overlapped /\ ~excuse'.rejected
        /\ stops' = Without(k) /\ running' = FALSE /\ UNCHANGED listeners
    BY <1>0, <1>4 DEF StopResolves, RestOK
  <2>2. stops # <<>> /\ Len(stops) = 1 /\ stops \in Seq([Queue -> Nat])
    <3>1. stops \in Seq([Queue -> Nat])
      BY <1>0 DEF StopsOK
    <3>2. Len(stops) <= 1
      BY <2>1 DEF FlagInv
    <3> QED BY <3>1, <3>2, OnlyOne
  <2>3. stops' \in Seq([Queue -> Nat]) /\ Len(stops') = 0
    BY <2>1, <2>2, WithoutFacts
  <2>4. stops' = <<>>
    BY <2>3
  <2>5. \A q \in Queue : ~Listening(q)
    BY <2>1, <2>2 DEF FlagInv
  <2> QED BY <2>1, <2>3, <2>4, <2>5 DEF FlagInv, Listening
<1>5. ASSUME NEW k \in 1..Len(stops), StopRejects(k) PROVE FlagInv'
  <2> SUFFICES ASSUME ~excuse'.overlapped PROVE FlagInv'
    BY DEF FlagInv
  <2>1. /\ ~excuse.overlapped /\ excuse'.rejected
        /\ stops' = Without(k) /\ UNCHANGED <<running, listeners>>
    BY <1>0, <1>5 DEF StopRejects, RestOK
  <2>2. stops # <<>> /\ Len(stops) = 1 /\ stops \in Seq([Queue -> Nat])
    <3>1. stops \in Seq([Queue -> Nat])
      BY <1>0 DEF StopsOK
    <3>2. Len(stops) <= 1
      BY <2>1 DEF FlagInv
    <3> QED BY <3>1, <3>2, OnlyOne
  <2>3. Len(stops') = 0
    BY <2>1, <2>2, WithoutFacts
  <2>4. running /\ \A q \in Queue : ~Listening(q)
    BY <2>1, <2>2 DEF FlagInv
  <2> QED BY <2>1, <2>3, <2>4 DEF FlagInv, Listening
<1>6. ASSUME NEW q \in Queue, NEW i \in 1..Len(listeners[q]), ListenerStep(q, i)
      PROVE  FlagInv'
  <2>1. \A x \in Queue : /\ Len(listeners'[x]) = Len(listeners[x])
                         /\ IsStopped(listeners'[x]) <=> IsStopped(listeners[x])
    BY <1>0, <1>6, ListenerStepFacts
  <2>2. UNCHANGED <<running, stops, excuse>>
    BY <1>6 DEF ListenerStep
  <2> QED BY <2>1, <2>2 DEF FlagInv, Listening
<1>7. ASSUME Respawn PROVE FlagInv'
  BY <1>7 DEF Respawn, FlagInv, Listening, IsStopped
<1>8. ASSUME UNCHANGED vars PROVE FlagInv'
  BY <1>8 DEF vars, FlagInv, Listening
<1> QED BY <1>1, <1>2, <1>3, <1>4, <1>5, <1>6, <1>7, <1>8 DEF Next, StopIsAnswered

LEMMA FlagAlways == Spec => []FlagInv
BY FlagInit, FlagStep, TypeCorrect, PTL DEF Spec

\* Between commands the flag tells whether the queues listen, with the named exceptions.
THEOREM FlagIsRight == Spec => []FlagTellsTheTruth
<1>1. FlagInv => FlagTellsTheTruth
  BY DEF FlagInv, FlagTellsTheTruth
<1> QED BY <1>1, FlagAlways, PTL

\* When stop has waited and the flag goes down, no queue handles a message any more.
THEOREM StoppedIsQuiet == Spec => QuietOnceStopped
<1> DEFINE Quiet ==
  running /\ ~running' /\ ~excuse.overlapped /\ ~excuse.rejected /\ ~excuse'.respawned =>
    \A q \in Queue : HasEnded(q, Len(listeners[q]))
<1>1. TypeOK /\ FlagInv /\ [Next]_vars => [Quiet]_vars
  <2> SUFFICES ASSUME TypeOK, FlagInv, [Next]_vars,
                      running, ~running', ~excuse.overlapped, ~excuse.rejected,
                      ~excuse'.respawned, NEW q \in Queue
               PROVE  HasEnded(q, Len(listeners[q]))
    OBVIOUS
  <2>1. PICK k \in 1..Len(stops) : StopResolves(k)
    <3>1. ~(UNCHANGED running) /\ ~excuse'.respawned
      OBVIOUS
    <3>2. ~(UNCHANGED vars) /\ ~\E command \in Command : LifecycleEvent(command)
      BY <3>1 DEF vars, LifecycleEvent
    <3>3. ~Start /\ ~Stop
      BY <3>1 DEF Start, Stop
    <3>4. \A k \in 1..Len(stops) : ~StopRejects(k)
      BY <3>1 DEF StopRejects
    <3>5. \A x \in Queue : \A i \in 1..Len(listeners[x]) : ~ListenerStep(x, i)
      BY <3>1 DEF ListenerStep
    <3>6. ~Respawn
      BY <3>1 DEF Respawn
    <3> QED BY <3>2, <3>3, <3>4, <3>5, <3>6 DEF Next, StopIsAnswered
  <2>2. k = 1 /\ stops # <<>>
    BY TypeParts DEF FlagInv, StopsOK
  <2>3. stops[1][q] = Len(listeners[q]) /\ stops[1][q] # 0
    BY <2>2 DEF FlagInv
  <2> QED BY <2>1, <2>2, <2>3 DEF StopResolves
<1> QED BY <1>1, FlagAlways, TypeCorrect, PTL DEF Spec, QuietOnceStopped

-----------------------------------------------------------------------------
(* The watch on the workers. *)

LEMMA HealthPeriods ==
  /\ KEEP_ALIVE \in Nat \ {0} /\ POLL \in Nat \ {0} /\ UNRESPONSIVE \in Nat \ {0} /\ STARTUP \in Nat \ {0}
  /\ THRESHOLD \in Nat /\ KEEP_ALIVE < POLL /\ POLL < UNRESPONSIVE
  /\ None \notin Nat /\ IsFiniteSet(Pid)
BY PeriodsAssumption

LEMMA HealthTypeInit == HealthInit => HealthTypeOK
BY HealthPeriods DEF HealthInit, HealthTypeOK, Ages, Up

LEMMA AgedType ==
  ASSUME NEW bound \in Nat, NEW n \in Ages(bound)
  PROVE  Aged(n, bound) \in Ages(bound) /\ (n = None <=> Aged(n, bound) = None)
                                        /\ (n # None => Aged(n, bound) <= n + 1)
BY HealthPeriods DEF Ages, Aged

LEMMA HealthTypeStep == HealthTypeOK /\ [HealthNext]_healthVars => HealthTypeOK'
<1> SUFFICES ASSUME HealthTypeOK, [HealthNext]_healthVars PROVE HealthTypeOK'
  OBVIOUS
<1> USE HealthPeriods
<1>1. ASSUME NEW p \in Pid, SendAlive(p) PROVE HealthTypeOK'
  <2>1. 0 \in Ages(UNRESPONSIVE) /\ 0 \in 0..KEEP_ALIVE
    BY DEF Ages
  <2> QED BY <1>1, <2>1 DEF HealthTypeOK, SendAlive, Up
<1>2. ASSUME NEW p \in Pid, Environment(p) PROVE HealthTypeOK'
  <2>1. 0 \in 0..KEEP_ALIVE
    OBVIOUS
  <2> QED BY <1>2, <2>1 DEF HealthTypeOK, Environment, Freeze, Resume, Die, Fork, Up
<1>3. CASE Poll
  <2>1. InCluster \subseteq Pid /\ registered' = registered \cup InCluster
    BY <1>3 DEF InCluster, Poll, RegisterNewWorkers
  <2>2. ready' \in Ages(STARTUP)
    BY <1>3 DEF Poll, SetupWorkersReadyAt, Ages, HealthTypeOK
  <2>3. live' \in [Pid -> Ages(UNRESPONSIVE)]
    <3>1. None \in Ages(UNRESPONSIVE)
      BY DEF Ages
    <3> QED BY <1>3, <3>1 DEF Poll, RemoveDeadWorkers, HealthTypeOK
  <2>4. stopped' \subseteq Pid
    BY <1>3, <2>1 DEF Poll, SendShutdown, HealthTypeOK
  <2> QED BY <1>3, <2>1, <2>2, <2>3, <2>4 DEF Poll, HealthTypeOK, Up
<1>4. CASE Tick
  <2>1. ready' \in Ages(STARTUP) /\ \A p \in Pid : live'[p] \in Ages(UNRESPONSIVE)
    BY <1>4, AgedType DEF Tick, HealthTypeOK
  <2>2. live' \in [Pid -> Ages(UNRESPONSIVE)]
    BY <1>4, <2>1 DEF Tick
  <2>3. pinged' \in [Pid -> 0..KEEP_ALIVE] /\ polled' \in 0..POLL
    BY <1>4 DEF Tick, HealthTypeOK, Up
  <2> QED BY <1>4, <2>1, <2>2, <2>3 DEF Tick, HealthTypeOK, Up
<1>5. CASE UNCHANGED healthVars
  BY <1>5 DEF healthVars, HealthTypeOK, Up
<1> QED BY <1>1, <1>2, <1>3, <1>4, <1>5 DEF HealthNext

\* The types of what the primary knows of the workers and of what they are, for any pids and
\* any periods in the order of the code's (workers-health-monitor.ts).
THEOREM HealthIsTyped == HealthSpec => []HealthTypeOK
BY HealthTypeInit, HealthTypeStep, PTL DEF HealthSpec

\* Of a worker that has been at work since it was heard, the primary's last message is no
\* older than what the worker sent last.
HeardInv ==
  \A p \in answered : p \in registered /\ live[p] # None /\ live[p] <= pinged[p]

LEMMA HeardInit == HealthInit => HeardInv
BY DEF HealthInit, HeardInv

\* A poll takes no such worker for dead.
LEMMA AnsweredStayLive ==
  ASSUME HealthTypeOK, HeardInv, NEW at, NEW p \in answered
  PROVE  RemoveDeadWorkers(at)[p] = live[p]
<1>1. p \in Pid /\ live[p] \in Nat /\ pinged[p] \in 0..KEEP_ALIVE /\ live[p] <= pinged[p]
  BY HealthPeriods DEF HealthTypeOK, HeardInv, Up, Ages
<1>2. ~Unresponsive(live[p])
  BY <1>1, HealthPeriods DEF Unresponsive
<1> QED BY <1>1, <1>2 DEF RemoveDeadWorkers

LEMMA HeardStep == HealthTypeOK /\ HeardInv /\ [HealthNext]_healthVars => HeardInv'
<1> SUFFICES ASSUME HealthTypeOK, HeardInv, [HealthNext]_healthVars PROVE HeardInv'
  OBVIOUS
<1> USE HealthPeriods
<1>1. ASSUME NEW p \in Pid, SendAlive(p) PROVE HeardInv'
  BY <1>1 DEF HealthTypeOK, HeardInv, SendAlive, Up
<1>2. ASSUME NEW p \in Pid, Environment(p) PROVE HeardInv'
  BY <1>2 DEF HealthTypeOK, HeardInv, Environment, Freeze, Resume, Die, Fork, Up
<1>3. CASE Poll
  <2>1. live' = RemoveDeadWorkers(SetupWorkersReadyAt(RegisterNewWorkers))
        /\ registered' = registered \cup InCluster /\ UNCHANGED <<proc, pinged, answered>>
    BY <1>3 DEF Poll, RegisterNewWorkers
  <2> QED BY <2>1, AnsweredStayLive DEF HeardInv
<1>4. CASE Tick
  <2>1. ASSUME NEW p \in answered PROVE live'[p] # None /\ live'[p] <= pinged'[p]
    <3>1. /\ p \in Pid /\ p \in Up /\ live[p] # None /\ live[p] <= pinged[p]
          /\ live[p] \in Ages(UNRESPONSIVE) /\ pinged[p] \in Nat
      BY DEF HealthTypeOK, HeardInv, Up
    <3>2. live'[p] = Aged(live[p], UNRESPONSIVE) /\ pinged'[p] = pinged[p] + 1
      BY <1>4, <3>1 DEF Tick
    <3>3. live[p] \in Nat /\ Aged(live[p], UNRESPONSIVE) <= live[p] + 1 /\ Aged(live[p], UNRESPONSIVE) \in Nat
      BY <3>1 DEF Aged, Ages
    <3> QED BY <3>1, <3>2, <3>3
  <2> QED BY <1>4, <2>1 DEF Tick, HeardInv
<1>5. CASE UNCHANGED healthVars
  BY <1>5 DEF healthVars, HeardInv
<1> QED BY <1>1, <1>2, <1>3, <1>4, <1>5 DEF HealthNext

LEMMA ShutdownStep ==
  ASSUME HealthTypeOK, HeardInv, [HealthNext]_healthVars, stopped' # stopped
  PROVE  Cardinality(answered) < THRESHOLD
<1>1. Poll
  BY DEF HealthNext, healthVars, SendAlive, Environment, Freeze, Resume, Die, Fork, Tick
<1>2. PICK at : /\ stopped' = SendShutdown(at, RemoveDeadWorkers(at))
  BY <1>1 DEF Poll
<1> DEFINE Alive == {p \in Pid : RemoveDeadWorkers(at)[p] # None}
<1>3. Cardinality(Alive) < THRESHOLD
  BY <1>2 DEF SendShutdown
<1>4. answered \subseteq Alive
  BY AnsweredStayLive DEF HeardInv, HealthTypeOK, Up
<1>5. IsFiniteSet(Alive)
  BY HealthPeriods, FS_Subset
<1> HIDE DEF Alive
<1>6. /\ Cardinality(answered) <= Cardinality(Alive)
      /\ Cardinality(answered) \in Nat /\ Cardinality(Alive) \in Nat
  BY <1>4, <1>5, FS_Subset, FS_CardinalityType
<1> QED BY <1>3, <1>6, HealthPeriods

\* Workers are told to fail their health checks only when fewer than the threshold have been
\* at work without a break since the primary heard of them: a worker that is merely between
\* two messages is never taken for dead (workers-health-monitor.ts:214, 230).
THEOREM ShutdownOnlyWhenFewEver == HealthSpec => ShutdownOnlyWhenFew
<1>1. HealthTypeOK /\ HeardInv /\ [HealthNext]_healthVars
        => [stopped' # stopped => Cardinality(answered) < THRESHOLD]_healthVars
  BY ShutdownStep
<1> QED BY <1>1, HealthTypeInit, HealthTypeStep, HeardInit, HeardStep, PTL
        DEF HealthSpec, ShutdownOnlyWhenFew
=============================================================================
