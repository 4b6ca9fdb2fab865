---------------------------- MODULE InProcessProofs ----------------------------
(* Proofs about the two parts whose callers are goroutines of one process: *)
(* PipeListener, for any number of callers and any size of the channel,    *)
(* and PortAllocator, for every port range, every size of the channel and  *)
(* any number of clients.                                                  *)
EXTENDS PipeListener, PortAllocator, WellFoundedInduction, TLAPS

(* The pipe listener.                                                      *)

Critical == {"check", "store", "unlockOk", "unlockErr"}
Winner == {"store", "unlockOk", "ok"}

ControlOK ==
    /\ closed \in BOOLEAN /\ done \in BOOLEAN /\ panicked \in BOOLEAN
    /\ mutex \in Closers \cup {NoOne}
    /\ apc \in [Acceptors -> {"idle", "select", "parked", "ended"}]
    /\ dpc \in [Dialers -> {"idle", "select", "parked", "connected", "failed", "cancelled"}]
    /\ cpc \in [Closers -> {"idle", "lock", "check", "store", "unlockOk", "unlockErr",
                            "ok", "err"}]
    /\ late \subseteq Dialers

\* The mutex admits one Close.
MutexHeld == \A k \in Closers : cpc[k] \in Critical <=> mutex = k

\* done follows closed, and lags behind it only while the winner is about to
\* store it.
DoneFollows ==
    /\ done => closed
    /\ closed => done \/ \E k \in Closers : cpc[k] = "store"
    /\ \A k \in Closers :
        /\ cpc[k] = "store" => closed /\ ~done
        /\ cpc[k] \in {"unlockOk", "unlockErr", "ok", "err"} => done

OneWinner == \A k, l \in Closers : cpc[k] \in Winner /\ cpc[l] \in Winner => k = l

NobodyParked == closed => ParkedAcceptors = {} /\ ParkedDialers = {}

CloseInv ==
    /\ ControlOK /\ MutexHeld /\ DoneFollows /\ OneWinner /\ NobodyParked
    /\ LateDialFails /\ ~panicked

LEMMA CloseInit == Init => CloseInv
  BY PipeAssumption DEF Init, CloseInv, ControlOK, MutexHeld, DoneFollows, OneWinner,
     NobodyParked, LateDialFails, Critical, Winner

USE DEF listener, vars

\* Accept and DialContext leave the state of Close alone, park nobody on a
\* closed listener, and revive no failed dial.
LEMMA CallStep ==
    ASSUME CloseInv,
           \/ \E a \in Acceptors : AcceptEnter(a) \/ Accept(a)
           \/ \E d \in Dialers : DialCheck(d) \/ DialContext(d) \/ DialCancelled(d)
    PROVE  CloseInv'
<1> USE DEF CloseInv
<1>1. ASSUME NEW a \in Acceptors, AcceptEnter(a) \/ Accept(a)
      PROVE  CloseInv'
  <2>1. UNCHANGED <<closed, done, mutex, cpc, late, panicked>>
    BY <1>1 DEF AcceptEnter, Accept, AcceptTake, AcceptClosed, AcceptPark
  <2>2. /\ apc' \in [Acceptors -> {"idle", "select", "parked", "ended"}]
        /\ \A b \in Acceptors : apc'[b] = "parked" => apc[b] = "parked" \/ ~closed
    BY <1>1 DEF AcceptEnter, Accept, AcceptTake, AcceptClosed, AcceptPark, ControlOK
  <2>3. /\ dpc' \in [Dialers -> {"idle", "select", "parked", "connected", "failed", "cancelled"}]
        /\ \A d \in Dialers : dpc'[d] = dpc[d] \/ (dpc[d] = "parked" /\ dpc'[d] = "connected")
    BY <1>1 DEF AcceptEnter, Accept, AcceptTake, AcceptClosed, AcceptPark, ControlOK, ParkedDialers
  <2>4. ControlOK' /\ MutexHeld' /\ DoneFollows' /\ OneWinner'
    BY <2>1, <2>2, <2>3 DEF ControlOK, MutexHeld, DoneFollows, OneWinner
  <2>5. NobodyParked'
    BY <2>1, <2>2, <2>3 DEF NobodyParked, ParkedAcceptors, ParkedDialers
  <2>6. LateDialFails'
    BY <2>1, <2>3 DEF LateDialFails, ControlOK
  <2> QED
    BY <2>1, <2>4, <2>5, <2>6
<1>2. ASSUME NEW d \in Dialers, DialCheck(d) \/ DialContext(d) \/ DialCancelled(d)
      PROVE  CloseInv'
  <2>1. UNCHANGED <<closed, done, mutex, cpc, panicked>>
    BY <1>2 DEF DialCheck, DialContext, DialSend, DialClosed, DialPark, DialCancelled
  <2>2. /\ apc' \in [Acceptors -> {"idle", "select", "parked", "ended"}]
        /\ \A a \in Acceptors : apc'[a] = "parked" => apc[a] = "parked"
    BY <1>2 DEF DialCheck, DialContext, DialSend, DialClosed, DialPark, DialCancelled, ControlOK
  <2>3. /\ dpc' \in [Dialers -> {"idle", "select", "parked", "connected", "failed", "cancelled"}]
        /\ \A e \in Dialers : dpc'[e] = "parked" => dpc[e] = "parked" \/ ~closed
        /\ \A e \in Dialers : dpc[e] = "failed" => dpc'[e] = "failed"
    BY <1>2 DEF DialCheck, DialContext, DialSend, DialClosed, DialPark, DialCancelled, ControlOK
  <2>a. late' \subseteq Dialers
    BY <1>2 DEF DialCheck, DialContext, DialSend, DialClosed, DialPark, DialCancelled, ControlOK
  <2>4. ControlOK' /\ MutexHeld' /\ DoneFollows' /\ OneWinner'
    BY <2>1, <2>2, <2>3, <2>a DEF ControlOK, MutexHeld, DoneFollows, OneWinner
  <2>5. NobodyParked'
    BY <2>1, <2>2, <2>3 DEF NobodyParked, ParkedAcceptors, ParkedDialers
  <2>6. \A e \in late' : e \in late \/ (e = d /\ dpc'[d] = "failed")
    BY <1>2 DEF DialCheck, DialContext, DialSend, DialClosed, DialPark, DialCancelled, ControlOK,
       CloseReturned, DoneFollows
  <2>7. LateDialFails'
    BY <2>3, <2>6 DEF LateDialFails, ControlOK
  <2> QED
    BY <2>1, <2>4, <2>5, <2>7
<1> QED
  BY <1>1, <1>2

\* The step that closes l.close: nobody won before, for a winner has closed it
\* and either stored done or holds the mutex at its store.
LEMMA CloseChanStep ==
    ASSUME CloseInv, NEW k \in Closers, CloseChan(k)
    PROVE  CloseInv'
<1> USE DEF CloseInv
<1>1. mutex = k /\ \A l \in Closers : cpc[l] \in Critical => l = k
  BY PipeAssumption DEF CloseChan, MutexHeld, Critical
<1>2. ~closed /\ \A l \in Closers : cpc[l] \notin Winner
  BY <1>1 DEF CloseChan, DoneFollows, Critical, Winner
<1>3. ControlOK'
  BY DEF CloseChan, ControlOK
<1>4. MutexHeld' /\ OneWinner'
  BY <1>2 DEF CloseChan, ControlOK, MutexHeld, OneWinner, Critical, Winner
<1>5. DoneFollows'
  BY <1>2 DEF CloseChan, ControlOK, DoneFollows, Winner
<1>6. NobodyParked'
  BY DEF CloseChan, NobodyParked, ParkedAcceptors, ParkedDialers
<1>7. LateDialFails' /\ ~panicked'
  BY <1>2 DEF CloseChan, LateDialFails, ControlOK
<1> QED
  BY <1>3, <1>4, <1>5, <1>6, <1>7

LEMMA CloseOtherStep ==
    ASSUME CloseInv, NEW k \in Closers,
           CloseLoad(k) \/ CloseLock(k) \/ CloseLate(k) \/ CloseStore(k) \/ CloseUnlock(k)
    PROVE  CloseInv'
<1> USE DEF CloseInv
<1>1. UNCHANGED <<ch, closed, apc, dpc, late, panicked>>
  BY DEF CloseLoad, CloseLock, CloseLate, CloseStore, CloseUnlock
<1>2. NobodyParked' /\ LateDialFails' /\ ~panicked'
  BY <1>1 DEF NobodyParked, LateDialFails, ParkedAcceptors, ParkedDialers
<1>3. CASE CloseLoad(k) \/ CloseLate(k)
  BY <1>1, <1>2, <1>3 DEF CloseLoad, CloseLate, ControlOK, MutexHeld, DoneFollows, OneWinner,
     Critical, Winner
<1>4. CASE CloseLock(k)
  BY <1>1, <1>2, <1>4, PipeAssumption DEF CloseLock, ControlOK, MutexHeld, DoneFollows,
     OneWinner, Critical, Winner
<1>5. CASE CloseStore(k)
  <2>1. \A l \in Closers : cpc[l] = "store" => l = k
    BY <1>5 DEF CloseStore, OneWinner, Winner
  <2> QED
    BY <1>1, <1>2, <1>5, <2>1 DEF CloseStore, ControlOK, MutexHeld, DoneFollows, OneWinner,
       Critical, Winner
<1>6. CASE CloseUnlock(k)
  <2>1. \A l \in Closers : cpc[l] \in Critical => l = k
    BY <1>6 DEF CloseUnlock, MutexHeld, Critical
  <2>2. done
    BY <1>6 DEF CloseUnlock, DoneFollows
  <2> QED
    BY <1>1, <1>2, <1>6, <2>1, <2>2, PipeAssumption DEF CloseUnlock, ControlOK, MutexHeld,
       DoneFollows, OneWinner, Critical, Winner
<1> QED
  BY <1>3, <1>4, <1>5, <1>6

LEMMA CloseStep == CloseInv /\ [Next]_vars => CloseInv'
<1> SUFFICES ASSUME CloseInv, [Next]_vars PROVE CloseInv'
  OBVIOUS
<1>1. CASE UNCHANGED vars
  BY <1>1 DEF CloseInv, ControlOK, MutexHeld, DoneFollows, OneWinner, NobodyParked,
     LateDialFails, ParkedAcceptors, ParkedDialers
<1> QED
  BY <1>1, CallStep, CloseChanStep, CloseOtherStep DEF Next, Close

\* The channel l.close is closed at most once, exactly one Close returns nil,
\* after any Close nobody is parked, and later dials fail.
THEOREM CloseCorrect ==
    Spec => [](ClosedOnce /\ NobodyParkedAfterClose /\ LateDialFails)
<1>1. CloseInv => ClosedOnce /\ NobodyParkedAfterClose /\ LateDialFails
  BY DEF CloseInv, ClosedOnce, OneWinner, Winner, NobodyParkedAfterClose, NobodyParked,
     DoneFollows, CloseReturned
<1> QED
  BY <1>1, CloseInit, CloseStep, PTL DEF Spec

\* l.close is closed once, and one Close returns nil.
THEOREM OneClose == Spec => []ClosedOnce
  BY CloseCorrect, PTL

\* What is dialled after a Close returned fails.
THEOREM LateFails == Spec => []LateDialFails
  BY CloseCorrect, PTL
-------------------------------------------------------------------------------
(* Where the connections are.                                              *)

In(s) == {s[n] : n \in 1 .. Len(s)}
Distinct(s) == \A m, n \in 1 .. Len(s) : s[m] = s[n] => m = n

LEMMA Appended ==
    ASSUME NEW s \in Seq(Dialers), NEW d \in Dialers
    PROVE  /\ Append(s, d) \in Seq(Dialers) /\ Len(Append(s, d)) = Len(s) + 1
           /\ In(Append(s, d)) = In(s) \cup {d}
           /\ Distinct(s) /\ d \notin In(s) => Distinct(Append(s, d))
<1> DEFINE t == Append(s, d)
<1>1. /\ t \in Seq(Dialers) /\ Len(s) \in Nat /\ Len(t) = Len(s) + 1 /\ t[Len(s) + 1] = d
      /\ \A n \in 1 .. Len(s) : t[n] = s[n]
  OBVIOUS
<1> HIDE DEF t
<1>2. In(t) = In(s) \cup {d}
  BY <1>1 DEF In
<1>3. Distinct(s) /\ d \notin In(s) => Distinct(t)
  BY <1>1 DEF In, Distinct
<1> QED
  BY <1>1, <1>2, <1>3 DEF t

LEMMA HeadTaken ==
    ASSUME NEW s \in Seq(Dialers), s # <<>>, Distinct(s)
    PROVE  /\ Tail(s) \in Seq(Dialers) /\ Len(Tail(s)) = Len(s) - 1 /\ Len(s) \in Nat \ {0}
           /\ Head(s) \in Dialers /\ Head(s) \in In(s)
           /\ In(Tail(s)) = In(s) \ {Head(s)}
           /\ Distinct(Tail(s))
<1> DEFINE t == Tail(s)
<1>1. /\ t \in Seq(Dialers) /\ Len(s) \in Nat \ {0} /\ Len(t) = Len(s) - 1
      /\ \A n \in 1 .. Len(t) : t[n] = s[n + 1]
      /\ Head(s) = s[1] /\ s[1] \in Dialers
  OBVIOUS
<1> HIDE DEF t
<1>2. In(t) \subseteq In(s) \ {Head(s)}
  <2> SUFFICES ASSUME NEW n \in 1 .. Len(t) PROVE t[n] \in In(s) \ {s[1]}
    BY <1>1 DEF In
  <2>1. n + 1 \in 1 .. Len(s) /\ 1 \in 1 .. Len(s) /\ n + 1 # 1 /\ t[n] = s[n + 1]
    BY <1>1
  <2> QED
    BY <2>1 DEF In, Distinct
<1>3. ASSUME NEW n \in 1 .. Len(s), s[n] # s[1] PROVE s[n] \in In(t)
  <2>1. n - 1 \in 1 .. Len(t) /\ t[n - 1] = s[n]
    BY <1>1, <1>3
  <2> QED
    BY <2>1 DEF In
<1>4. In(s) \ {Head(s)} \subseteq In(t)
  BY <1>1, <1>3 DEF In
<1>5. Distinct(t)
  BY <1>1 DEF Distinct
<1>6. Head(s) \in In(s)
  BY <1>1 DEF In
<1> QED
  BY <1>1, <1>2, <1>4, <1>5, <1>6 DEF t

Taken == UNION {accepted[a] : a \in Acceptors}

\* A dialer is connected if and only if its connection is in the buffer or was
\* taken; nowhere is it twice.
PlaceInv ==
    /\ ch \in Seq(Dialers) /\ Len(ch) <= Cap /\ accepted \in [Acceptors -> SUBSET Dialers]
    /\ Distinct(ch)
    /\ In(ch) \cap Taken = {}
    /\ \A a, b \in Acceptors : a # b => accepted[a] \cap accepted[b] = {}
    /\ \A d \in Dialers : dpc[d] = "connected" <=> d \in In(ch) \cup Taken

\* A parked dialer's or a new connection d goes into the buffer.
LEMMA PutKeeps ==
    ASSUME PlaceInv, CloseInv, NEW d \in Dialers, dpc[d] # "connected", Len(ch) < Cap,
           ch' = Append(ch, d), dpc' = [dpc EXCEPT ![d] = "connected"], UNCHANGED accepted
    PROVE  PlaceInv'
<1>1. d \notin In(ch) /\ d \notin Taken
  BY DEF PlaceInv
<1>2. /\ ch' \in Seq(Dialers) /\ Len(ch') <= Cap /\ In(ch') = In(ch) \cup {d} /\ Distinct(ch')
  BY <1>1, Appended, PipeAssumption DEF PlaceInv
<1>3. In(ch)' = In(ch') /\ Taken' = Taken /\ Distinct(ch)' = Distinct(ch')
  BY DEF In, Taken, Distinct
<1>4. \A e \in Dialers : dpc'[e] = "connected" <=> (e = d \/ dpc[e] = "connected")
  BY DEF CloseInv, ControlOK
<1> QED
  BY <1>1, <1>2, <1>3, <1>4 DEF PlaceInv

\* Accept takes connection d, which is in the buffer and leaves it, or comes from
\* a dialer that finds Accept waiting.
LEMMA TakeKeeps ==
    ASSUME PlaceInv, CloseInv, NEW a \in Acceptors, NEW d \in Dialers, d \notin Taken,
           accepted' = [accepted EXCEPT ![a] = @ \cup {d}],
           NEW s \in Seq(Dialers), Len(s) <= Cap, Distinct(s), In(s) = In(ch) \ {d}, ch' = s,
           dpc' \in {dpc, [dpc EXCEPT ![d] = "connected"]},
           dpc' = dpc => d \in In(ch)
    PROVE  PlaceInv'
<1>1. accepted' \in [Acceptors -> SUBSET Dialers] /\ accepted'[a] = accepted[a] \cup {d}
      /\ \A b \in Acceptors \ {a} : accepted'[b] = accepted[b]
  BY DEF PlaceInv
<1>2. Taken' = Taken \cup {d}
  BY <1>1 DEF Taken
<1>3. In(ch)' = In(s) /\ Distinct(ch)' = Distinct(s)
  BY DEF In, Distinct
<1>4. \A e \in Dialers : dpc'[e] = "connected" <=> (e = d \/ dpc[e] = "connected")
  BY DEF CloseInv, ControlOK, PlaceInv
<1>5. \A b, c \in Acceptors : b # c => accepted'[b] \cap accepted'[c] = {}
  BY <1>1 DEF PlaceInv, Taken
<1> QED
  BY <1>1, <1>2, <1>3, <1>4, <1>5 DEF PlaceInv

\* Where no connection moves, nothing does.
LEMMA NothingMoves ==
    ASSUME PlaceInv, UNCHANGED <<ch, accepted>>,
           \A d \in Dialers : dpc'[d] = "connected" <=> dpc[d] = "connected"
    PROVE  PlaceInv'
<1>1. In(ch)' = In(ch) /\ Taken' = Taken /\ Distinct(ch)' = Distinct(ch)
  BY DEF In, Taken, Distinct
<1> QED
  BY <1>1 DEF PlaceInv

LEMMA AcceptMoves ==
    ASSUME PlaceInv, CloseInv, NEW a \in Acceptors, AcceptTake(a)
    PROVE  PlaceInv'
<1>1. ch \in Seq(Dialers) /\ ch # <<>> /\ Distinct(ch) /\ Cap \in Nat /\ Len(ch) <= Cap
  BY PipeAssumption DEF AcceptTake, PlaceInv
<1>2. PICK h \in Dialers, t \in Seq(Dialers) :
        /\ h = Head(ch) /\ t = Tail(ch)
        /\ Len(t) = Len(ch) - 1 /\ Len(ch) \in Nat \ {0}
        /\ h \in In(ch) /\ In(t) = In(ch) \ {h} /\ Distinct(t)
  BY <1>1, HeadTaken
<1>3. h \notin Taken /\ accepted' = [accepted EXCEPT ![a] = @ \cup {h}]
  BY <1>2 DEF AcceptTake, PlaceInv
<1>a. Len(t) \in Nat /\ Len(t) + 1 <= Cap /\ Len(t) <= Cap
  BY <1>1, <1>2
<1>4. ASSUME ch' = t, UNCHANGED dpc PROVE PlaceInv'
  <2>1. dpc' \in {dpc, [dpc EXCEPT ![h] = "connected"]}
    BY <1>4
  <2>2. dpc' = dpc => h \in In(ch)
    BY <1>2
  <2>3. Distinct(t) /\ In(t) = In(ch) \ {h}
    BY <1>2
  <2> QED
    BY <1>a, <1>3, <1>4, <2>1, <2>2, <2>3, TakeKeeps
<1>5. ASSUME NEW d \in ParkedDialers, ch' = Append(t, d),
             dpc' = [dpc EXCEPT ![d] = "connected"]
      PROVE  PlaceInv'
  <2>1. d \in Dialers /\ dpc[d] = "parked" /\ d \notin In(ch) /\ d \notin Taken
    BY DEF ParkedDialers, PlaceInv
  <2>a. d \notin In(t) /\ Distinct(t)
    BY <1>2, <2>1
  <2>b. /\ ch' \in Seq(Dialers) /\ Len(ch') = Len(t) + 1
        /\ In(ch') = In(t) \cup {d} /\ Distinct(ch')
    BY <1>5, <2>1, <2>a, Appended
  <2>2. Len(ch') <= Cap /\ In(ch') = (In(ch) \ {h}) \cup {d}
    BY <1>2, <1>a, <2>b
  <2>3. In(ch)' = In(ch') /\ Distinct(ch)' = Distinct(ch')
    BY DEF In, Distinct
  <2>4. accepted' \in [Acceptors -> SUBSET Dialers] /\ accepted'[a] = accepted[a] \cup {h}
        /\ \A b \in Acceptors \ {a} : accepted'[b] = accepted[b]
    BY <1>3 DEF PlaceInv
  <2>5. Taken' = Taken \cup {h}
    BY <2>4 DEF Taken
  <2>6. \A e \in Dialers : dpc'[e] = "connected" <=> (e = d \/ dpc[e] = "connected")
    BY <1>5, <2>1 DEF CloseInv, ControlOK
  <2>7. \A b, c \in Acceptors : b # c => accepted'[b] \cap accepted'[c] = {}
    BY <1>3, <2>4 DEF PlaceInv, Taken
  <2>c. In(ch) \cap Taken = {} /\ d # h
    BY <1>2, <2>1 DEF PlaceInv
  <2>8. In(ch') \cap Taken' = {}
    BY <1>3, <2>1, <2>2, <2>5, <2>c
  <2>9. \A e \in Dialers : dpc'[e] = "connected" <=> e \in In(ch') \cup Taken'
    BY <1>2, <2>2, <2>5, <2>6 DEF PlaceInv
  <2> QED
    BY <2>b, <2>2, <2>3, <2>4, <2>7, <2>8, <2>9 DEF PlaceInv
<1> QED
  BY <1>2, <1>4, <1>5 DEF AcceptTake

LEMMA DialMoves ==
    ASSUME PlaceInv, CloseInv, NEW d \in Dialers, DialSend(d)
    PROVE  PlaceInv'
<1>1. dpc[d] = "select" /\ dpc' = [dpc EXCEPT ![d] = "connected"]
      /\ d \notin In(ch) /\ d \notin Taken
  BY DEF DialSend, PlaceInv
<1>2. ASSUME NEW a \in ParkedAcceptors, accepted' = [accepted EXCEPT ![a] = @ \cup {d}],
             UNCHANGED ch
      PROVE  PlaceInv'
  <2>1. a \in Acceptors /\ ch \in Seq(Dialers) /\ Len(ch) <= Cap /\ Distinct(ch)
        /\ In(ch) = In(ch) \ {d}
    BY <1>1 DEF ParkedAcceptors, PlaceInv
  <2>2. dpc' # dpc
    BY <1>1 DEF CloseInv, ControlOK
  <2> QED
    BY <1>1, <1>2, <2>1, <2>2, TakeKeeps
<1>3. CASE Len(ch) < Cap /\ ch' = Append(ch, d) /\ UNCHANGED accepted
  BY <1>1, <1>3, PutKeeps
<1> QED
  BY <1>2, <1>3 DEF DialSend

LEMMA PlaceStep == PlaceInv /\ CloseInv /\ [Next]_vars => PlaceInv'
<1> SUFFICES ASSUME PlaceInv, CloseInv, [Next]_vars PROVE PlaceInv'
  OBVIOUS
<1>0. dpc \in [Dialers -> {"idle", "select", "parked", "connected", "failed", "cancelled"}]
  BY DEF CloseInv, ControlOK
<1>1. ASSUME NEW a \in Acceptors, AcceptEnter(a) \/ AcceptClosed(a) \/ AcceptPark(a)
      PROVE  PlaceInv'
  BY <1>1, NothingMoves DEF AcceptEnter, AcceptClosed, AcceptPark
<1>2. ASSUME NEW d \in Dialers,
             DialCheck(d) \/ DialClosed(d) \/ DialPark(d) \/ DialCancelled(d)
      PROVE  PlaceInv'
  BY <1>0, <1>2, NothingMoves DEF DialCheck, DialClosed, DialPark, DialCancelled
<1>3. ASSUME NEW k \in Closers, CloseLoad(k) \/ Close(k)
      PROVE  PlaceInv'
  BY <1>0, <1>3, NothingMoves
     DEF CloseLoad, Close, CloseLock, CloseChan, CloseLate, CloseStore, CloseUnlock
<1>4. CASE UNCHANGED vars
  BY <1>4, NothingMoves
<1> QED
  BY <1>1, <1>2, <1>3, <1>4, AcceptMoves, DialMoves DEF Next, Accept, DialContext

LEMMA Placed == Spec => [](CloseInv /\ PlaceInv)
<1>1. Init => PlaceInv
  BY PipeAssumption DEF Init, PlaceInv, In, Distinct, Taken
<1> QED
  BY <1>1, CloseInit, CloseStep, PlaceStep, PTL DEF Spec

\* Every step keeps every variable in its type, and the buffer in its capacity.
THEOREM ListenerTyped == Spec => []TypeOK
<1>1. CloseInv /\ PlaceInv => TypeOK
  BY DEF CloseInv, ControlOK, PlaceInv, TypeOK
<1> QED
  BY <1>1, Placed, PTL

\* A connection is in one place if its dialer was told that it has one, and in
\* none if it was not: for any number of goroutines, and whatever is closed.
THEOREM ConnectionsPlaced == Spec => []ConnectedOnce
<1>1. CloseInv /\ PlaceInv => ConnectedOnce
  <2> SUFFICES ASSUME PlaceInv, NEW d \in Dialers
               PROVE  LET inBuffer == {n \in 1 .. Len(ch) : ch[n] = d}
                          with == {a \in Acceptors : d \in accepted[a]}
                      IN  IF dpc[d] = "connected"
                          THEN \/ with = {} /\ \E n \in inBuffer : inBuffer = {n}
                               \/ inBuffer = {} /\ \E a \in with : with = {a}
                          ELSE inBuffer = {} /\ with = {}
    BY DEF ConnectedOnce
  <2> DEFINE inBuffer == {n \in 1 .. Len(ch) : ch[n] = d}
             with == {a \in Acceptors : d \in accepted[a]}
  <2>1. d \in In(ch) <=> inBuffer # {}
    BY DEF In
  <2>2. d \in Taken <=> with # {}
    BY DEF Taken
  <2>3. ~(inBuffer # {} /\ with # {})
    BY <2>1, <2>2 DEF PlaceInv
  <2>4. \A n \in inBuffer : inBuffer = {n}
    BY DEF PlaceInv, Distinct
  <2>5. \A a \in with : with = {a}
    BY DEF PlaceInv
  <2>6. dpc[d] = "connected" <=> inBuffer # {} \/ with # {}
    BY <2>1, <2>2 DEF PlaceInv
  <2> QED
    BY <2>3, <2>4, <2>5, <2>6
<1> QED
  BY <1>1, Placed, PTL
-------------------------------------------------------------------------------
(* No call of the listener goes on for ever.                               *)

\* The steps a Close has before it.
CloseLeft(k) == [idle |-> 5, lock |-> 4, check |-> 3, store |-> 2, unlockOk |-> 1,
                 unlockErr |-> 1, ok |-> 0, err |-> 0][cpc[k]]

\* What Close waits for in the one place where it waits has come.
CloseReady(k) == cpc[k] \in Critical \/ (cpc[k] = "lock" /\ mutex = NoOne)

CloseUsesUp(k) ==
    /\ CloseLeft(k)' <= CloseLeft(k)
    /\ CloseLoad(k) \/ Close(k) => CloseLeft(k)' < CloseLeft(k)

LEMMA CloseUsesUpStep ==
    ASSUME CloseInv, [Next]_vars, NEW k \in Closers
    PROVE  CloseUsesUp(k)
<1> USE DEF CloseInv, ControlOK, CloseUsesUp, CloseLeft
<1>1. cpc[k] \in {"idle", "lock", "check", "store", "unlockOk", "unlockErr", "ok", "err"}
  OBVIOUS
<1>2. CASE cpc' = cpc
  BY <1>1, <1>2 DEF CloseLoad, Close, CloseLock, CloseChan, CloseLate, CloseStore, CloseUnlock
<1>3. ASSUME NEW l \in Closers, CloseLoad(l) \/ Close(l)
      PROVE  CloseUsesUp(k)
  <2>1. CASE l = k
    BY <1>1, <1>3, <2>1
       DEF CloseLoad, Close, CloseLock, CloseChan, CloseLate, CloseStore, CloseUnlock
  <2>2. CASE l # k
    BY <1>1, <1>3, <2>2
       DEF CloseLoad, Close, CloseLock, CloseChan, CloseLate, CloseStore, CloseUnlock
  <2> QED
    BY <2>1, <2>2
<1>4. ASSUME NEW a \in Acceptors, AcceptEnter(a) \/ Accept(a)
      PROVE  cpc' = cpc
  BY <1>4 DEF AcceptEnter, Accept, AcceptTake, AcceptClosed, AcceptPark
<1>5. ASSUME NEW d \in Dialers, DialCheck(d) \/ DialContext(d) \/ DialCancelled(d)
      PROVE  cpc' = cpc
  BY <1>5 DEF DialCheck, DialContext, DialSend, DialClosed, DialPark, DialCancelled
<1> QED
  BY <1>2, <1>3, <1>4, <1>5 DEF Next

\* Close never hangs: while one waits for the mutex there is a Close that can go
\* on, the one that holds it or one that takes it, and a Close takes five steps
\* at most, which only its own lower.
THEOREM ClosesUseUp ==
    Spec => /\ [](\A k \in Closers : cpc[k] = "lock" => \E l \in Closers : CloseReady(l))
            /\ [][\A k \in Closers : CloseUsesUp(k)]_vars
<1>1. CloseInv => \A k \in Closers : cpc[k] = "lock" => \E l \in Closers : CloseReady(l)
  BY DEF CloseInv, ControlOK, MutexHeld, CloseReady
<1>2. CloseInv /\ [Next]_vars => [\A k \in Closers : CloseUsesUp(k)]_vars
  BY CloseUsesUpStep
<1> QED
  BY <1>1, <1>2, CloseInit, CloseStep, PTL DEF Spec

\* On a closed listener an Accept or DialContext under way stays at its select,
\* where a case is ready, until it takes a step of its own, which ends it.
EndsItself ==
    closed =>
        /\ closed'
        /\ \A a \in Acceptors : apc[a] \notin {"idle", "ended"} =>
               IF Accept(a) THEN apc'[a] \in {"idle", "ended"} ELSE apc'[a] = "select"
        /\ \A d \in Dialers : dpc[d] \in {"select", "parked"} =>
               IF DialContext(d) \/ DialCancelled(d)
               THEN dpc'[d] \in {"connected", "failed", "cancelled"}
               ELSE dpc'[d] = "select"

LEMMA EndsItselfStep ==
    ASSUME CloseInv, [Next]_vars
    PROVE  EndsItself
<1> SUFFICES ASSUME closed PROVE EndsItself
  BY DEF EndsItself
<1> USE DEF CloseInv, ControlOK, NobodyParked
<1>1. /\ \A a \in Acceptors : apc[a] \in {"idle", "select", "ended"}
      /\ \A d \in Dialers : dpc[d] # "parked"
  BY DEF ParkedAcceptors, ParkedDialers
<1>2. /\ \A a \in Acceptors : Accept(a) => apc'[a] \in {"idle", "ended"}
      /\ \A d \in Dialers : DialContext(d) \/ DialCancelled(d)
                               => dpc'[d] \in {"connected", "failed", "cancelled"}
  BY DEF Accept, AcceptTake, AcceptClosed, AcceptPark, DialContext, DialSend, DialClosed,
     DialPark, DialCancelled
<1>3. CASE UNCHANGED vars
  BY <1>1, <1>2, <1>3 DEF EndsItself
<1>4. ASSUME NEW a \in Acceptors, AcceptEnter(a) \/ Accept(a)
      PROVE  EndsItself
  <2>1. /\ closed' /\ dpc' = dpc
        /\ \A b \in Acceptors : b # a => apc'[b] = apc[b]
        /\ apc[a] = "select" => Accept(a)
    BY <1>1, <1>4 DEF AcceptEnter, Accept, AcceptTake, AcceptClosed, AcceptPark, ParkedDialers
  <2> QED
    BY <1>1, <1>2, <2>1 DEF EndsItself
<1>5. ASSUME NEW d \in Dialers, DialCheck(d) \/ DialContext(d) \/ DialCancelled(d)
      PROVE  EndsItself
  <2>1. /\ closed' /\ apc' = apc
        /\ \A e \in Dialers : e # d => dpc'[e] = dpc[e]
        /\ dpc[d] = "select" => DialContext(d) \/ DialCancelled(d)
    BY <1>1, <1>5 DEF DialCheck, DialContext, DialSend, DialClosed, DialPark, DialCancelled,
       ParkedAcceptors
  <2> QED
    BY <1>1, <1>2, <2>1 DEF EndsItself
<1>6. ASSUME NEW k \in Closers, CloseLoad(k) \/ Close(k)
      PROVE  EndsItself
  <2>1. /\ closed'
        /\ \A a \in Acceptors : apc'[a] = apc[a]
        /\ \A d \in Dialers : dpc'[d] = dpc[d]
    BY <1>1, <1>6 DEF CloseLoad, Close, CloseLock, CloseChan, CloseLate, CloseStore, CloseUnlock
  <2> QED
    BY <1>1, <1>2, <2>1 DEF EndsItself
<1> QED
  BY <1>3, <1>4, <1>5, <1>6 DEF Next

\* Once the listener is closed no call waits for another: whoever is in Accept or
\* DialContext is at its select with a ready case, and its next step is its last,
\* whatever the buffer holds.
THEOREM CallsEnd == Spec => [][EndsItself]_vars
<1>1. CloseInv /\ [Next]_vars => [EndsItself]_vars
  BY EndsItselfStep
<1> QED
  BY <1>1, CloseInit, CloseStep, PTL DEF Spec

-------------------------------------------------------------------------------
(* The port allocator.                                                     *)

LEMMA PortsOffsets ==
    /\ NoPort \notin Ports
    /\ \A i \in Offsets : Base + i \in Ports
    /\ \A x \in Ports : InRange(x) /\ x - Base \in Offsets /\ Base + (x - Base) = x
    /\ ~InRange(NoPort)
  BY PortAssumption DEF Ports, Offsets, NoPort, InRange

LEMMA ElemsAppend ==
    ASSUME NEW S, NEW s \in Seq(S), NEW e \in S
    PROVE  /\ Elems(Append(s, e)) = Elems(s) \cup {e}
           /\ NoRepeat(s) /\ e \notin Elems(s) => NoRepeat(Append(s, e))
<1> DEFINE t == Append(s, e)
<1>1. Len(t) = Len(s) + 1 /\ t[Len(s) + 1] = e /\ \A n \in 1 .. Len(s) : t[n] = s[n]
  OBVIOUS
<1>2. Len(s) \in Nat
  OBVIOUS
<1> HIDE DEF t
<1>3. Elems(t) = Elems(s) \cup {e}
  BY <1>1, <1>2 DEF Elems
<1>4. NoRepeat(s) /\ e \notin Elems(s) => NoRepeat(t)
  BY <1>1, <1>2 DEF Elems, NoRepeat
<1> QED
  BY <1>3, <1>4 DEF t

LEMMA ElemsTail ==
    ASSUME NEW S, NEW s \in Seq(S), s # <<>>, NoRepeat(s)
    PROVE  /\ Head(s) \in Elems(s) /\ Head(s) \in S
           /\ Elems(Tail(s)) = Elems(s) \ {Head(s)}
           /\ NoRepeat(Tail(s))
<1> DEFINE t == Tail(s)
<1>1. /\ Len(s) \in Nat /\ Len(s) > 0 /\ Len(t) = Len(s) - 1
      /\ \A n \in 1 .. Len(t) : t[n] = s[n + 1]
      /\ Head(s) = s[1] /\ s[1] \in S
  OBVIOUS
<1> HIDE DEF t
<1>2. Head(s) \in Elems(s) /\ Head(s) \in S
  BY <1>1 DEF Elems
<1>3. Elems(t) \subseteq Elems(s) \ {Head(s)}
  BY <1>1 DEF Elems, NoRepeat
<1>4. Elems(s) \ {Head(s)} \subseteq Elems(t)
  <2> SUFFICES ASSUME NEW n \in 1 .. Len(s), s[n] # s[1]
               PROVE  s[n] \in Elems(t)
    BY <1>1 DEF Elems
  <2>1. n - 1 \in 1 .. Len(t) /\ t[n - 1] = s[n]
    BY <1>1
  <2> QED
    BY <2>1 DEF Elems
<1>5. NoRepeat(t)
  BY <1>1 DEF NoRepeat
<1> QED
  BY <1>2, <1>3, <1>4, <1>5 DEF t

\* The filler holds a port only between the lock and the channel.
Sending == found # NoPort <=> filler = "send"

PortInv == PortTypeOK /\ Sending /\ UsedIsOut /\ OnePlace

LEMMA PortsInit == PortInit => PortInv
  BY PortAssumption DEF PortInit, PortInv, PortTypeOK, Sending, UsedIsOut, OnePlace, InFlight,
     Buffered, Held, Elems, NoRepeat, NoPort

LEMMA KeepFind ==
    ASSUME PortInv, NEW j \in Offsets, NextFreePort(j)
    PROVE  PortInv'
<1> USE DEF PortInv
<1>1. PICK i \in Offsets : i \notin used /\ used' = used \cup {i} /\ found' = Base + i
  BY DEF NextFreePort, FirstFree
<1>2. /\ UNCHANGED <<ports, waiting, got>> /\ filler = "search" /\ filler' = "send"
      /\ InFlight = {} /\ Buffered' = Buffered /\ Held' = Held
      /\ found' \in Ports /\ InFlight' = {found'} /\ found' # NoPort
  BY <1>1, PortsOffsets DEF NextFreePort, Sending, InFlight, Buffered, Held
<1>3. found' \notin Buffered \cup Held
  BY <1>1, PortAssumption DEF UsedIsOut, PortTypeOK, Offsets
<1>4. PortTypeOK' /\ Sending'
  BY <1>1, <1>2 DEF PortTypeOK, Sending
<1>5. UsedIsOut'
  BY <1>1, <1>2 DEF UsedIsOut
<1>6. OnePlace'
  BY <1>2, <1>3 DEF OnePlace
<1> QED
  BY <1>4, <1>5, <1>6

LEMMA KeepSend ==
    ASSUME PortInv, Send
    PROVE  PortInv'
<1> USE DEF PortInv
<1>1. /\ UNCHANGED <<used, waiting, got>> /\ filler' = "search" /\ found' = NoPort
      /\ ports' = Append(ports, found) /\ found \in Ports /\ InFlight = {found} /\ InFlight' = {}
      /\ Held' = Held
  BY DEF Send, Sending, InFlight, PortTypeOK, Held
<1>2. Buffered' = Buffered \cup {found} /\ (found \notin Buffered => NoRepeat(ports'))
  BY <1>1, ElemsAppend DEF Buffered, PortTypeOK, OnePlace
<1>3. PortTypeOK' /\ Sending'
  BY <1>1 DEF PortTypeOK, Sending
<1>4. UsedIsOut'
  BY <1>1, <1>2 DEF UsedIsOut
<1>5. OnePlace'
  BY <1>1, <1>2 DEF OnePlace
<1> QED
  BY <1>3, <1>4, <1>5

LEMMA KeepReceive ==
    ASSUME PortInv, NEW c \in Clients, Receive(c)
    PROVE  PortInv'
<1> USE DEF PortInv
<1> DEFINE h == Head(ports)
<1>1. /\ UNCHANGED <<used, filler, found>> /\ InFlight' = InFlight
      /\ ports # <<>> /\ ports' = Tail(ports) /\ waiting' = waiting \ {c}
      /\ got' = [got EXCEPT ![c] = @ \cup {h}]
  BY DEF Receive, InFlight
<1>2. /\ h \in Buffered /\ h \in Ports /\ Buffered' = Buffered \ {h} /\ NoRepeat(ports')
  BY <1>1, ElemsTail DEF Buffered, PortTypeOK, OnePlace
<1>3. ports' \in Seq(Ports)
  BY <1>1 DEF PortTypeOK
<1> HIDE DEF h
<1>4. h # NoPort /\ Held' = Held \cup {h}
  BY <1>1, <1>2, PortsOffsets DEF Held, PortTypeOK
<1>5. PortTypeOK' /\ Sending'
  BY <1>1, <1>2, <1>3 DEF PortTypeOK, Sending
<1>6. UsedIsOut'
  BY <1>1, <1>2, <1>4 DEF UsedIsOut
<1>7. \A d, e \in Clients : d # e => got'[d] \cap got'[e] \subseteq {NoPort}
  <2>1. \A d \in Clients : h \notin got[d]
    BY <1>2, <1>4 DEF OnePlace, Held
  <2> QED
    BY <2>1, <1>1 DEF OnePlace, PortTypeOK
<1>8. OnePlace'
  BY <1>1, <1>2, <1>4, <1>7 DEF OnePlace
<1> QED
  BY <1>5, <1>6, <1>8

LEMMA KeepTimeout ==
    ASSUME PortInv, NEW c \in Clients, Timeout(c)
    PROVE  PortInv'
<1> USE DEF PortInv
<1>1. /\ UNCHANGED <<used, ports, filler, found>> /\ InFlight' = InFlight /\ Buffered' = Buffered
      /\ waiting' = waiting \ {c} /\ got' = [got EXCEPT ![c] = @ \cup {NoPort}]
  BY DEF Timeout, InFlight, Buffered
<1>2. Held' = Held
  <2>1. \A x \in Ports : x # NoPort
    BY PortsOffsets
  <2>2. \A d \in Clients, x \in Ports : x \in got'[d] <=> x \in got[d]
    BY <1>1, <2>1 DEF PortTypeOK
  <2> QED
    BY <2>2 DEF Held
<1>3. PortTypeOK' /\ Sending'
  BY <1>1 DEF PortTypeOK, Sending
<1>4. UsedIsOut'
  BY <1>1, <1>2 DEF UsedIsOut
<1>5. OnePlace'
  BY <1>1, <1>2 DEF OnePlace, PortTypeOK
<1> QED
  BY <1>3, <1>4, <1>5

LEMMA KeepRelease ==
    ASSUME PortInv, NEW c \in Clients, NEW x \in got[c], Release(c, x)
    PROVE  PortInv'
<1> USE DEF PortInv
<1>1. /\ UNCHANGED <<ports, filler, found, waiting>> /\ InFlight' = InFlight
      /\ Buffered' = Buffered /\ got' = [got EXCEPT ![c] = @ \ {x}]
      /\ used' = IF InRange(x) THEN used \ {x - Base} ELSE used
  BY DEF Release, InFlight, Buffered
<1>2. x \in Ports \cup {NoPort}
  BY DEF PortTypeOK
<1>3. PortTypeOK' /\ Sending'
  BY <1>1 DEF PortTypeOK, Sending
<1>4. Held' = Held \ {x}
  <2>1. \A d \in Clients : got'[d] = IF d = c THEN got[c] \ {x} ELSE got[d]
    BY <1>1 DEF PortTypeOK
  <2>2. x # NoPort => \A d \in Clients : d # c => x \notin got[d]
    BY DEF OnePlace
  <2> QED
    BY <2>1, <2>2, PortsOffsets DEF Held
<1>5. UsedIsOut'
  <2>1. CASE x = NoPort
    <3>1. used' = used
      BY <2>1, <1>1, PortsOffsets
    <3>2. NoPort \notin Held
      BY PortsOffsets DEF Held
    <3> QED
      BY <3>1, <3>2, <2>1, <1>1, <1>4 DEF UsedIsOut
  <2>2. CASE x \in Ports
    <3>1. used' = used \ {x - Base} /\ x - Base \in Offsets /\ Base + (x - Base) = x
      BY <2>2, <1>1, PortsOffsets
    <3>2. {Base + i : i \in used'} = {Base + i : i \in used} \ {x}
      BY <3>1, <2>2, PortAssumption DEF PortTypeOK, Offsets, Ports
    <3>3. x \notin InFlight \cup Buffered
      BY <2>2, PortsOffsets DEF OnePlace, Held
    <3> QED
      BY <3>2, <3>3, <1>1, <1>4 DEF UsedIsOut
  <2> QED
    BY <1>2, <2>1, <2>2
<1>6. OnePlace'
  BY <1>1, <1>4 DEF OnePlace, PortTypeOK
<1> QED
  BY <1>3, <1>5, <1>6

LEMMA PortsStep == PortInv /\ [PortNext]_portVars => PortInv'
<1> SUFFICES ASSUME PortInv, [PortNext]_portVars PROVE PortInv'
  OBVIOUS
<1>1. ASSUME \/ UNCHANGED portVars \/ NoneFree \/ CooldownOver
             \/ \E c \in Clients : AllocateNext(c)
      PROVE  PortInv'
  <2>1. /\ UNCHANGED <<used, ports, found, got>> /\ waiting' \subseteq Clients
        /\ filler' \in {"search", "send", "cooldown"} /\ (filler' = "send" <=> filler = "send")
    BY <1>1 DEF portVars, NoneFree, CooldownOver, AllocateNext, PortInv, PortTypeOK
  <2>2. InFlight' = InFlight /\ Buffered' = Buffered /\ Held' = Held
    BY <2>1 DEF InFlight, Buffered, Held
  <2> QED
    BY <2>1, <2>2 DEF PortInv, PortTypeOK, Sending, UsedIsOut, OnePlace
<1> QED
  BY <1>1, KeepFind, KeepSend, KeepReceive, KeepTimeout, KeepRelease DEF PortNext, FillPorts

\* Nothing is lost and nothing is in two places, in every reachable state.
THEOREM PortsAccounted == PortSpec => [](PortTypeOK /\ UsedIsOut /\ OnePlace)
<1>1. PortInv => PortTypeOK /\ UsedIsOut /\ OnePlace
  BY DEF PortInv
<1> QED
  BY <1>1, PortsInit, PortsStep, PTL DEF PortSpec

\* What the lock guards, the channel carries and the clients hold are ports of
\* the range, for any range and any number of clients.
THEOREM PortsTyped == PortSpec => []PortTypeOK
  BY PortsAccounted, PTL

\* No port is with two clients, or with one and in the buffer too.
THEOREM PortsOnePlace == PortSpec => []OnePlace
  BY PortsAccounted, PTL

LEMMA PoolInit == PortInit => Pool!Init
  BY DEF PortInit, Pool!Init

LEMMA PoolStep ==
    ASSUME PortInv, [PortNext]_portVars
    PROVE  [Pool!Next]_([c \in Clients |-> got[c] \ {NoPort}])
<1> DEFINE bar == [c \in Clients |-> got[c] \ {NoPort}]
<1>1. CASE got' = got
  BY <1>1
<1>2. ASSUME NEW c \in Clients, Receive(c)
      PROVE  Pool!Next
  <2>1. Head(ports) \in Buffered /\ Head(ports) \in Ports
    BY <1>2, ElemsTail DEF Receive, Buffered, PortInv, PortTypeOK, OnePlace
  <2>2. (\A d \in Clients : Head(ports) \notin bar[d]) /\ Head(ports) # NoPort
    BY <2>1, PortsOffsets DEF PortInv, OnePlace, Held
  <2>3. bar' = [bar EXCEPT ![c] = @ \cup {Head(ports)}]
    BY <1>2, <2>2 DEF Receive, PortInv, PortTypeOK
  <2> QED
    BY <2>1, <2>2, <2>3 DEF Pool!Next, Pool!Allocate
<1>3. ASSUME NEW c \in Clients, Timeout(c)
      PROVE  bar' = bar
  BY <1>3 DEF Timeout, PortInv, PortTypeOK
<1>4. ASSUME NEW c \in Clients, NEW x \in got[c], Release(c, x)
      PROVE  Pool!Next \/ bar' = bar
  <2>1. x \in Ports \cup {NoPort}
    BY DEF PortInv, PortTypeOK
  <2>2. CASE x = NoPort
    BY <2>2, <1>4 DEF Release, PortInv, PortTypeOK
  <2>3. CASE x \in Ports
    <3>1. bar' = [bar EXCEPT ![c] = @ \ {x}] /\ x \in bar[c]
      BY <2>3, <1>4, PortsOffsets DEF Release, PortInv, PortTypeOK
    <3> QED
      BY <3>1, <2>3 DEF Pool!Next, Pool!Release
  <2> QED
    BY <2>1, <2>2, <2>3
<1>5. CASE FillPorts \/ (\E c \in Clients : AllocateNext(c)) \/ UNCHANGED portVars
  BY <1>5, <1>1 DEF FillPorts, NextFreePort, NoneFree, Send, CooldownOver, AllocateNext, portVars
<1> QED
  BY <1>2, <1>3, <1>4, <1>5 DEF PortNext

\* The allocator implements the pool of PortPool: what its clients hold is
\* always handed out and taken back one port at a time, and a port that is out
\* is never handed out again.
THEOREM ImplementsPool == PortSpec => PoolSpec
<1>1. PortInv /\ [PortNext]_portVars => [Pool!Next]_([c \in Clients |-> got[c] \ {NoPort}])
  BY PoolStep
<1> QED
  BY <1>1, PortsInit, PortsStep, PoolInit, PTL DEF PortSpec, PoolSpec, Pool!Spec

-------------------------------------------------------------------------------
(* The buffer fills again.                                                 *)

LEMMA LeastOffset ==
    ASSUME NEW S \in SUBSET Offsets, S # {}
    PROVE  \E i \in S : \A k \in S : i <= k
<1>1. S \subseteq Nat /\ \A m, n \in S : ~(m < n) => n <= m
  BY PortAssumption DEF Offsets
<1>2. \E i \in S : \A k \in S : <<k, i>> \notin OpToRel(<, Nat)
  BY <1>1, NatLessThanWellFounded, WFMin
<1>3. PICK i \in S : \A k \in S : <<k, i>> \notin OpToRel(<, Nat)
  BY <1>2
<1>4. \A k \in S : ~(k < i)
  BY <1>1, <1>3, Zenon DEF OpToRel
<1> QED
  BY <1>1, <1>3, <1>4

\* nextFreePort finds a port as long as one is free, whatever the offset at which
\* it starts to look, the offsets below that one included, and which port it is
\* depends on nothing else.
THEOREM SearchFinds ==
    ASSUME NEW U \in SUBSET Offsets, U # Offsets, NEW j \in Offsets
    PROVE  \E i \in Offsets :
               FirstFree(U, j, i) /\ \A k \in Offsets : FirstFree(U, j, k) => k = i
<1> DEFINE Free == Offsets \ U
           Above == {i \in Free : i >= j}
<1>1. \A i \in Offsets : i \in Nat
  BY PortAssumption DEF Offsets
<1>2. \A i, k \in Offsets : i # k => ScanBefore(j, i, k) \/ ScanBefore(j, k, i)
  BY <1>1 DEF ScanBefore
<1>3. \A i, k \in Offsets : FirstFree(U, j, i) /\ FirstFree(U, j, k) => k = i
  BY <1>2 DEF FirstFree
<1>4. CASE Above # {}
  <2>1. PICK i \in Above : \A k \in Above : i <= k
    BY <1>4, LeastOffset
  <2>2. FirstFree(U, j, i)
    BY <1>1, <2>1 DEF FirstFree, ScanBefore
  <2> QED
    BY <1>3, <2>2
<1>5. CASE Above = {}
  <2>1. PICK i \in Free : \A k \in Free : i <= k
    BY LeastOffset
  <2>2. FirstFree(U, j, i)
    BY <1>1, <1>5, <2>1 DEF FirstFree, ScanBefore
  <2> QED
    BY <1>3, <2>2
<1> QED
  BY <1>4, <1>5

\* The buffer is empty and a port can be had for it.
Refilling == ports = <<>> /\ (used # Offsets \/ filler = "send")

ToRefill == [cooldown |-> 3, search |-> 2, send |-> 1][filler]

\* What the filler is about to do goes through.
FillerReady ==
    /\ filler = "send" => Len(ports) < BufSize
    /\ filler = "search" => \A j \in Offsets : \E i \in Offsets : FirstFree(used, j, i)

RefillGoesOn ==
    Refilling => \/ ports' # <<>>
                 \/ /\ Refilling' /\ ToRefill' <= ToRefill
                    /\ FillPorts => ToRefill' < ToRefill

LEMMA RefillStep ==
    ASSUME PortInv, [PortNext]_portVars
    PROVE  RefillGoesOn
<1> SUFFICES ASSUME Refilling PROVE RefillGoesOn
  BY DEF RefillGoesOn
<1> USE DEF PortInv, PortTypeOK, RefillGoesOn, Refilling, ToRefill
<1>1. CASE FillPorts
  <2>1. CASE \E j \in Offsets : NextFreePort(j)
    BY <2>1 DEF NextFreePort
  <2>2. CASE NoneFree
    BY <2>2 DEF NoneFree
  <2>3. CASE Send
    BY <2>3 DEF Send
  <2>4. CASE CooldownOver
    BY <2>4 DEF CooldownOver
  <2> QED
    BY <1>1, <2>1, <2>2, <2>3, <2>4 DEF FillPorts
<1>2. CASE ~FillPorts
  <2>1. UNCHANGED <<ports, filler>> /\ used' \subseteq used
    BY <1>2 DEF PortNext, portVars, AllocateNext, Receive, Timeout, Release
  <2>2. used # Offsets => used' # Offsets
    BY <2>1
  <2> QED
    BY <1>2, <2>1, <2>2
<1> QED
  BY <1>1, <1>2

\* An empty buffer gets a port in at most three steps of the filler, none of which
\* can be refused: the cooldown it sleeps through when it found none, a search,
\* and the send. What clients do meanwhile sets it back nowhere, for any range.
THEOREM RefillsUseUp ==
    PortSpec => [](Refilling => FillerReady) /\ [][RefillGoesOn]_portVars
<1>1. PortInv => (Refilling => FillerReady)
  <2> SUFFICES ASSUME PortInv, Refilling PROVE FillerReady
    OBVIOUS
  <2>1. filler = "send" => Len(ports) < BufSize
    BY PortAssumption DEF Refilling
  <2>2. ASSUME filler = "search", NEW j \in Offsets
        PROVE  \E i \in Offsets : FirstFree(used, j, i)
    BY <2>2, SearchFinds DEF Refilling, PortInv, PortTypeOK
  <2> QED
    BY <2>1, <2>2 DEF FillerReady
<1>2. PortInv /\ [PortNext]_portVars => [RefillGoesOn]_portVars
  BY RefillStep
<1> QED
  BY <1>1, <1>2, PortsInit, PortsStep, PTL DEF PortSpec
===============================================================================
