------------------------------ MODULE PipeListener ------------------------------
(***************************************************************************)
(* The in-process listener of netconn/pkg/common.go: DialContext puts one  *)
(* end of a pipe into a bounded channel, Accept takes it out, Close closes *)
(* a second channel that both select on.                                   *)
(*                                                                         *)
(* A select is two steps, as in the Go runtime: a goroutine looks at its   *)
(* channels and takes any case that is ready, or it parks.  A send hands   *)
(* its value straight to a parked receiver, a receive from a full buffer   *)
(* lets a parked sender in, and closing a channel wakes everyone parked on *)
(* it with that case.                                                      *)
(***************************************************************************)
EXTENDS Naturals, Sequences

CONSTANTS
    Acceptors,  \* goroutines that call Accept until it fails
    Dialers,    \* calls of DialContext; a dialer also names its connection
    Closers,    \* calls of Close
    Cap         \* capacity of ch (10 in the code)

NoOne == "nobody"

ASSUME PipeAssumption == Cap \in Nat \ {0} /\ NoOne \notin Closers

VARIABLES
    ch,         \* buffer of the connection channel
    closed,     \* l.close is closed
    done,       \* l.done
    mutex,      \* holder of l.m
    apc, dpc, cpc,
    accepted,   \* accepted[a]: the connections Accept returned to a
    late,       \* dialers that called DialContext after a Close had returned
    panicked    \* l.close was closed a second time

listener == <<ch, closed, done, mutex>>
vars == <<listener, apc, dpc, cpc, accepted, late, panicked>>

Init ==
    /\ ch = <<>>
    /\ closed = FALSE
    /\ done = FALSE
    /\ mutex = NoOne
    /\ apc = [a \in Acceptors |-> "idle"]
    /\ dpc = [d \in Dialers |-> "idle"]
    /\ cpc = [k \in Closers |-> "idle"]
    /\ accepted = [a \in Acceptors |-> {}]
    /\ late = {}
    /\ panicked = FALSE

ParkedAcceptors == {a \in Acceptors : apc[a] = "parked"}
ParkedDialers == {d \in Dialers : dpc[d] = "parked"}
CloseReturned == \E k \in Closers : cpc[k] \in {"ok", "err"}

-------------------------------------------------------------------------------
(* Accept.                                                                 *)

AcceptEnter(a) ==
    /\ apc[a] = "idle"
    /\ apc' = [apc EXCEPT ![a] = "select"]
    /\ UNCHANGED <<listener, dpc, cpc, accepted, late, panicked>>

AcceptTake(a) ==
    /\ apc[a] = "select"
    /\ ch # <<>>
    /\ accepted' = [accepted EXCEPT ![a] = @ \cup {Head(ch)}]
    /\ apc' = [apc EXCEPT ![a] = "idle"]
    /\ \/ /\ ParkedDialers = {}
          /\ ch' = Tail(ch)
          /\ UNCHANGED dpc
       \/ \E d \in ParkedDialers :
          /\ ch' = Append(Tail(ch), d)
          /\ dpc' = [dpc EXCEPT ![d] = "connected"]
    /\ UNCHANGED <<closed, done, mutex, cpc, late, panicked>>

AcceptClosed(a) ==
    /\ apc[a] = "select"
    /\ closed
    /\ apc' = [apc EXCEPT ![a] = "ended"]
    /\ UNCHANGED <<listener, dpc, cpc, accepted, late, panicked>>

AcceptPark(a) ==
    /\ apc[a] = "select"
    /\ ch = <<>> /\ ~closed
    /\ apc' = [apc EXCEPT ![a] = "parked"]
    /\ UNCHANGED <<listener, dpc, cpc, accepted, late, panicked>>

-------------------------------------------------------------------------------
(* DialContext.                                                            *)

\* Seeded fault: DialContext does not look at done before it selects.
DialNoCheck(d) ==
    /\ dpc[d] = "idle"
    /\ dpc' = [dpc EXCEPT ![d] = "select"]
    /\ late' = IF CloseReturned THEN late \cup {d} ELSE late
    /\ UNCHANGED <<listener, apc, cpc, accepted, panicked>>

DialCheck(d) ==
    /\ dpc[d] = "idle"
    /\ dpc' = [dpc EXCEPT ![d] = IF done THEN "failed" ELSE "select"]
    /\ late' = IF CloseReturned THEN late \cup {d} ELSE late
    /\ UNCHANGED <<listener, apc, cpc, accepted, panicked>>

DialSend(d) ==
    /\ dpc[d] = "select"
    /\ dpc' = [dpc EXCEPT ![d] = "connected"]
    /\ \/ \E a \in ParkedAcceptors :
          /\ accepted' = [accepted EXCEPT ![a] = @ \cup {d}]
          /\ apc' = [apc EXCEPT ![a] = "idle"]
          /\ UNCHANGED ch
       \/ /\ ParkedAcceptors = {}
          /\ Len(ch) < Cap
          /\ ch' = Append(ch, d)
          /\ UNCHANGED <<accepted, apc>>
    /\ UNCHANGED <<closed, done, mutex, cpc, late, panicked>>

DialClosed(d) ==
    /\ dpc[d] = "select"
    /\ closed
    /\ dpc' = [dpc EXCEPT ![d] = "failed"]
    /\ UNCHANGED <<listener, apc, cpc, accepted, late, panicked>>

DialPark(d) ==
    /\ dpc[d] = "select"
    /\ ParkedAcceptors = {} /\ Len(ch) >= Cap /\ ~closed
    /\ dpc' = [dpc EXCEPT ![d] = "parked"]
    /\ UNCHANGED <<listener, apc, cpc, accepted, late, panicked>>

\* The context of the call is cancelled; neither end of the pipe is closed.
DialCancelled(d) ==
    /\ dpc[d] \in {"select", "parked"}
    /\ dpc' = [dpc EXCEPT ![d] = "cancelled"]
    /\ UNCHANGED <<listener, apc, cpc, accepted, late, panicked>>

-------------------------------------------------------------------------------
(* Close.  The deferred calls run last-in first-out: done is stored before *)
(* the mutex is unlocked.                                                  *)

CloseLoad(k) ==
    /\ cpc[k] = "idle"
    /\ cpc' = [cpc EXCEPT ![k] = IF done THEN "err" ELSE "lock"]
    /\ UNCHANGED <<listener, apc, dpc, accepted, late, panicked>>

CloseLock(k) ==
    /\ cpc[k] = "lock"
    /\ mutex = NoOne
    /\ mutex' = k
    /\ cpc' = [cpc EXCEPT ![k] = "check"]
    /\ UNCHANGED <<ch, closed, done, apc, dpc, accepted, late, panicked>>

\* Seeded fault: the second check of done, under the mutex, is left out.
CloseChanUnchecked(k) ==
    /\ cpc[k] = "check"
    /\ closed' = TRUE
    /\ panicked' = closed
    /\ apc' = [a \in Acceptors |-> IF apc[a] = "parked" THEN "ended" ELSE apc[a]]
    /\ dpc' = [d \in Dialers |-> IF dpc[d] = "parked" THEN "failed" ELSE dpc[d]]
    /\ cpc' = [cpc EXCEPT ![k] = "store"]
    /\ UNCHANGED <<ch, done, mutex, accepted, late>>

\* Seeded fault: l.close is left open.
CloseChanOpen(k) ==
    /\ cpc[k] = "check"
    /\ ~done
    /\ cpc' = [cpc EXCEPT ![k] = "store"]
    /\ UNCHANGED <<listener, apc, dpc, accepted, late, panicked>>

CloseChan(k) ==
    /\ cpc[k] = "check"
    /\ ~done
    /\ closed' = TRUE
    /\ panicked' = closed
    /\ apc' = [a \in Acceptors |-> IF apc[a] = "parked" THEN "ended" ELSE apc[a]]
    /\ dpc' = [d \in Dialers |-> IF dpc[d] = "parked" THEN "failed" ELSE dpc[d]]
    /\ cpc' = [cpc EXCEPT ![k] = "store"]
    /\ UNCHANGED <<ch, done, mutex, accepted, late>>

CloseLate(k) ==
    /\ cpc[k] = "check"
    /\ done
    /\ cpc' = [cpc EXCEPT ![k] = "unlockErr"]
    /\ UNCHANGED <<listener, apc, dpc, accepted, late, panicked>>

CloseStore(k) ==
    /\ cpc[k] = "store"
    /\ done' = TRUE
    /\ cpc' = [cpc EXCEPT ![k] = "unlockOk"]
    /\ UNCHANGED <<ch, closed, mutex, apc, dpc, accepted, late, panicked>>

\* Seeded fault: only a Close that fails unlocks the mutex.
CloseUnlockErrOnly(k) ==
    /\ cpc[k] \in {"unlockOk", "unlockErr"}
    /\ mutex' = IF cpc[k] = "unlockErr" THEN NoOne ELSE mutex
    /\ cpc' = [cpc EXCEPT ![k] = IF @ = "unlockOk" THEN "ok" ELSE "err"]
    /\ UNCHANGED <<ch, closed, done, apc, dpc, accepted, late, panicked>>

CloseUnlock(k) ==
    /\ cpc[k] \in {"unlockOk", "unlockErr"}
    /\ mutex' = NoOne
    /\ cpc' = [cpc EXCEPT ![k] = IF @ = "unlockOk" THEN "ok" ELSE "err"]
    /\ UNCHANGED <<ch, closed, done, apc, dpc, accepted, late, panicked>>

-------------------------------------------------------------------------------
Accept(a) == AcceptTake(a) \/ AcceptClosed(a) \/ AcceptPark(a)
DialContext(d) == DialSend(d) \/ DialClosed(d) \/ DialPark(d)
Close(k) ==
    CloseLock(k) \/ CloseChan(k) \/ CloseLate(k) \/ CloseStore(k) \/ CloseUnlock(k)

Next ==
    \/ \E a \in Acceptors : AcceptEnter(a) \/ Accept(a)
    \/ \E d \in Dialers : DialCheck(d) \/ DialContext(d) \/ DialCancelled(d)
    \/ \E k \in Closers : CloseLoad(k) \/ Close(k)

Spec == Init /\ [][Next]_vars

\* A goroutine inside one of the calls is scheduled; nobody has to make a call.
FairSpec ==
    /\ Spec
    /\ \A a \in Acceptors : WF_vars(Accept(a))
    /\ \A d \in Dialers : WF_vars(DialContext(d))
    /\ \A k \in Closers : WF_vars(Close(k))

-------------------------------------------------------------------------------
(* Properties.                                                             *)

TypeOK ==
    /\ ch \in Seq(Dialers) /\ Len(ch) <= Cap
    /\ closed \in BOOLEAN /\ done \in BOOLEAN /\ panicked \in BOOLEAN
    /\ mutex \in Closers \cup {NoOne}
    /\ apc \in [Acceptors -> {"idle", "select", "parked", "ended"}]
    /\ dpc \in [Dialers -> {"idle", "select", "parked", "connected", "failed", "cancelled"}]
    /\ cpc \in [Closers -> {"idle", "lock", "check", "store", "unlockOk", "unlockErr",
                            "ok", "err"}]
    /\ accepted \in [Acceptors -> SUBSET Dialers]
    /\ late \subseteq Dialers

\* Closing a closed channel panics: the two checks of done, one of them under
\* the mutex, let only one Close reach it, and only that Close returns nil.
ClosedOnce ==
    /\ ~panicked
    /\ \A k, l \in Closers : cpc[k] = "ok" /\ cpc[l] = "ok" => k = l

\* Once any Close has returned, with or without an error, nobody is parked in
\* Accept or DialContext, and nobody can become so (common.go:40).
NobodyParkedAfterClose == CloseReturned => ParkedAcceptors = {} /\ ParkedDialers = {}

\* A DialContext called after any Close had returned fails.
LateDialFails == \A d \in late : dpc[d] = "failed"

\* A connection whose DialContext succeeded is in exactly one place, the buffer
\* or one Accept's result; any other call has put no connection anywhere.
ConnectedOnce ==
    \A d \in Dialers :
        LET inBuffer == {n \in 1 .. Len(ch) : ch[n] = d}
            with == {a \in Acceptors : d \in accepted[a]}
        IN  IF dpc[d] = "connected"
            THEN \/ with = {} /\ \E n \in inBuffer : inBuffer = {n}
                 \/ inBuffer = {} /\ \E a \in with : with = {a}
            ELSE inBuffer = {} /\ with = {}

\* Every Close returns, also when several wait for the mutex.
CloseReturns == \A k \in Closers : (cpc[k] = "lock") ~> (cpc[k] \in {"ok", "err"})

\* After the listener is closed every Accept and every DialContext in progress
\* comes to an end.
CallsEndAfterClose ==
    /\ \A a \in Acceptors : (closed /\ apc[a] # "idle") ~> (apc[a] \in {"idle", "ended"})
    /\ \A d \in Dialers :
        (done /\ dpc[d] # "idle") ~> (dpc[d] \in {"connected", "failed", "cancelled"})
===============================================================================
