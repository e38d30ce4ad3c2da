----------------------------- MODULE UpdatePipe -----------------------------
(***************************************************************************)
(* internal/updatepipe and the goroutine of EnableUpdatePipe: how a change *)
(* that one process makes to a mailbox reaches the IMAP sessions of the    *)
(* server.  The processes are the server and one run of the maddy command. *)
(*                                                                         *)
(* An update is the key of the mailbox that changed, with the identity of  *)
(* its sender on the wire.  What a session makes of it is go-imap-mess's.  *)
(***************************************************************************)
EXTENDS Naturals, Sequences, FiniteSets

CONSTANTS
    Keys,           \* mailboxes that updates are about
    ChanCap,        \* places in the channels outbound and inbound
    WireCap         \* updates that fit into a connection unread

ASSUME UpdatePipeAssumption ==
    ChanCap \in Nat \ {0} /\ WireCap \in Nat \ {0}

Procs == {"server", "cli"}
Drivers == {"sqlite3", "postgres"}

VARIABLES
    driver,         \* of the database: picks UnixSockPipe or PubSubPipe
    sock,           \* the socket file: "none", "live", "stale"
    mode,           \* of each process's pipe: "off", "push", "replicate"
    linked,         \* the command's connection leads to this server process
    outbound,       \* channel from the UpdateManager of each process
    pushing,        \* update in the hands of each process's goroutine
    wire,           \* written by each process, not yet read
    inbound,        \* channel to the server's goroutine
    subscribed,     \* keys the server listens for (PubSub)
    owed,           \* history: per key, the command's updates the server
                    \* has not applied
    lost            \* history: those that a fault has dropped

pipeVars == <<driver, sock, mode, linked, outbound, pushing, wire, inbound,
              subscribed, owed, lost>>

NoUpdate == <<>>
AllKeys == [k \in Keys |-> 0]

PipeTypeOK ==
    /\ driver \in Drivers
    /\ sock \in {"none", "live", "stale"}
    /\ mode \in [Procs -> {"off", "push", "replicate"}]
    /\ linked \in BOOLEAN
    /\ outbound \in [Procs -> Seq(Keys)]
    /\ pushing \in [Procs -> Keys \union {NoUpdate}]
    /\ wire \in [Procs -> Seq(Keys)]
    /\ inbound \in Seq(Keys)
    /\ subscribed \subseteq Keys
    /\ owed \in [Keys -> Nat] /\ lost \in [Keys -> Nat]

PipeInit ==
    /\ driver \in Drivers
    /\ sock = "none"
    /\ mode = [p \in Procs |-> "off"]
    /\ linked = FALSE
    /\ outbound = [p \in Procs |-> <<>>]
    /\ pushing = [p \in Procs |-> NoUpdate]
    /\ wire = [p \in Procs |-> <<>>]
    /\ inbound = <<>>
    /\ subscribed = {}
    /\ owed = AllKeys /\ lost = AllKeys

Count(s, k) == Cardinality({i \in DOMAIN s : s[i] = k})

\* Updates of the command for a key that are still on their way.
InFlight(k) ==
    Count(outbound["cli"], k) + Count(wire["cli"], k) + Count(inbound, k)
        + (IF pushing["cli"] = k THEN 1 ELSE 0)

-----------------------------------------------------------------------------
(***************************************************************************)
(* EnableUpdatePipe, Listen and InitPush                                   *)
(***************************************************************************)

\* The server: Listen binds the socket, which fails while its file exists.
EnableReplicate ==
    LET listens == driver = "postgres" \/ sock = "none"
    IN  /\ mode' = [mode EXCEPT !["server"] =
                        IF listens THEN "replicate" ELSE "off"]
        /\ sock' = IF driver = "sqlite3" /\ listens THEN "live" ELSE sock
        /\ UNCHANGED <<driver, linked, outbound, pushing, wire, inbound,
                       subscribed, owed, lost>>

\* The command: InitPush dials the socket.  No file is no error to
\* openStorage, a file without a listener is reported and ignored.
EnablePush ==
    LET dials == driver = "postgres" \/ sock = "live"
    IN  /\ mode' = [mode EXCEPT !["cli"] = IF dials THEN "push" ELSE "off"]
        /\ linked' = dials
        /\ UNCHANGED <<driver, sock, outbound, pushing, wire, inbound,
                       subscribed, owed, lost>>

-----------------------------------------------------------------------------
(***************************************************************************)
(* From a change to the wire                                               *)
(***************************************************************************)

\* A process can report a change: its pipe is off or the channel has room.
CanNotify(p, n) == mode[p] = "off" \/ Len(outbound[p]) + n <= ChanCap

\* The UpdateManager reports changes of these mailboxes.
Notify(p, ks) ==
    IF mode[p] = "off" THEN UNCHANGED pipeVars
    ELSE /\ outbound' = [outbound EXCEPT ![p] = @ \o ks]
         /\ owed' = IF p = "cli"
                    THEN [k \in Keys |-> owed[k] + Count(ks, k)] ELSE owed
         /\ UNCHANGED <<driver, sock, mode, linked, pushing, wire, inbound,
                        subscribed, lost>>

\* The goroutine receives an update from the UpdateManager.
TakeOutbound(p) ==
    /\ pushing[p] = NoUpdate /\ outbound[p] # <<>>
    /\ pushing' = [pushing EXCEPT ![p] = Head(outbound[p])]
    /\ outbound' = [outbound EXCEPT ![p] = Tail(@)]
    /\ UNCHANGED <<driver, sock, mode, linked, wire, inbound, subscribed,
                   owed, lost>>

\* The update can be written: there is somebody to read it.
Connected(p) == driver = "postgres" \/ IF p = "cli" THEN linked ELSE TRUE

\* Somebody will read it: with PubSub, who has subscribed to the key; the
\* socket's listener reads all.
Heard(k) == mode["server"] = "replicate"
              /\ (driver = "sqlite3" \/ k \in subscribed)

\* Push: the update is written, published to nobody, or refused.
Push(p) ==
    /\ pushing[p] # NoUpdate
    /\ LET k == pushing[p]
           written == Connected(p) /\ Heard(k)
       IN  /\ written => Len(wire[p]) < WireCap
           /\ wire' = IF written THEN [wire EXCEPT ![p] = Append(@, k)]
                      ELSE wire
           /\ lost' = IF p = "cli" /\ ~written
                      THEN [lost EXCEPT ![k] = @ + 1] ELSE lost
    /\ pushing' = [pushing EXCEPT ![p] = NoUpdate]
    /\ UNCHANGED <<driver, sock, mode, linked, outbound, inbound, subscribed,
                   owed>>

-----------------------------------------------------------------------------
(***************************************************************************)
(* From the wire to the UpdateManager                                      *)
(***************************************************************************)

\* Mutant: own updates are not skipped.
ReadOwn(p) ==
    /\ wire[p] # <<>> /\ Len(inbound) < ChanCap
    /\ wire' = [wire EXCEPT ![p] = Tail(@)]
    /\ inbound' = Append(inbound, Head(wire[p]))
    /\ UNCHANGED <<driver, sock, mode, linked, outbound, pushing, subscribed,
                   owed, lost>>

\* Mutant: the reader stops at an update of its own.
ReadStops(p) ==
    /\ p = "cli" /\ wire[p] # <<>> /\ Len(inbound) < ChanCap
    /\ wire' = [wire EXCEPT ![p] = Tail(@)]
    /\ inbound' = Append(inbound, Head(wire[p]))
    /\ UNCHANGED <<driver, sock, mode, linked, outbound, pushing, subscribed,
                   owed, lost>>

\* readUpdates and the goroutine of PubSubPipe.Listen: the server's own
\* updates come back to it and are skipped.
Read(p) ==
    /\ wire[p] # <<>>
    /\ p = "cli" => Len(inbound) < ChanCap
    /\ wire' = [wire EXCEPT ![p] = Tail(@)]
    /\ inbound' = IF p = "cli" THEN Append(inbound, Head(wire[p]))
                  ELSE inbound
    /\ UNCHANGED <<driver, sock, mode, linked, outbound, pushing, subscribed,
                   owed, lost>>

\* The goroutine of the server, when it is not in Push, hands an update to
\* the UpdateManager.
Apply ==
    /\ inbound # <<>> /\ pushing["server"] = NoUpdate
    /\ inbound' = Tail(inbound)
    /\ owed' = [owed EXCEPT ![Head(inbound)] = IF @ = 0 THEN 0 ELSE @ - 1]
    /\ UNCHANGED <<driver, sock, mode, linked, outbound, pushing, wire,
                   subscribed, lost>>

\* Subscribe, when a session opens a mailbox; Unsubscribe, when it leaves.
Subscribe(k) ==
    /\ subscribed' = subscribed \union {k}
    /\ UNCHANGED <<driver, sock, mode, linked, outbound, pushing, wire,
                   inbound, owed, lost>>
Unsubscribe(k) ==
    /\ subscribed' = subscribed \ {k}
    /\ UNCHANGED <<driver, sock, mode, linked, outbound, pushing, wire,
                   inbound, owed, lost>>

\* The listener of PostgreSQL loses its connection.  What is published until
\* it is back is gone; the nil that tells of it is skipped.
Reconnect ==
    /\ driver = "postgres" /\ wire # [p \in Procs |-> <<>>]
    /\ wire' = [p \in Procs |-> <<>>]
    /\ lost' = [k \in Keys |-> lost[k] + Count(wire["cli"], k)]
    /\ UNCHANGED <<driver, sock, mode, linked, outbound, pushing, inbound,
                   subscribed, owed>>

-----------------------------------------------------------------------------
(***************************************************************************)
(* The end of a process                                                    *)
(***************************************************************************)

\* Mutant: Close does not wait for the goroutine.
FlushedAtOnce(p) == TRUE

\* Storage.Close may return: the goroutine has sent all that was outbound.
Flushed(p) == outbound[p] = <<>> /\ pushing[p] = NoUpdate

\* The command's pipe is closed.  What it has written stays readable; what it
\* has not is gone.
PushEnds ==
    /\ mode' = [mode EXCEPT !["cli"] = "off"]
    /\ linked' = FALSE
    /\ outbound' = [outbound EXCEPT !["cli"] = <<>>]
    /\ pushing' = [pushing EXCEPT !["cli"] = NoUpdate]
    /\ UNCHANGED <<driver, sock, wire, inbound, subscribed, owed, lost>>

\* The server is gone, and with it the sessions that were owed anything.
\* An orderly stop removes the socket file.
ServerEnds(orderly) ==
    /\ mode' = [mode EXCEPT !["server"] = "off"]
    /\ sock' = IF mode["server"] = "replicate" /\ driver = "sqlite3"
               THEN IF orderly THEN "none" ELSE "stale" ELSE sock
    /\ linked' = FALSE
    /\ outbound' = [outbound EXCEPT !["server"] = <<>>]
    /\ pushing' = [pushing EXCEPT !["server"] = NoUpdate]
    /\ wire' = [p \in Procs |-> <<>>]
    /\ inbound' = <<>>
    /\ subscribed' = {}
    /\ owed' = [k \in Keys |-> Count(outbound["cli"], k)
                   + (IF pushing["cli"] = k THEN 1 ELSE 0)]
    /\ lost' = AllKeys
    /\ UNCHANGED driver

PipeStep(p) == TakeOutbound(p) \/ Push(p) \/ Read(p)

-----------------------------------------------------------------------------
(***************************************************************************)
(* Properties                                                              *)
(***************************************************************************)

\* What the command has reported to the server is applied once, is on its
\* way, or was lost to a fault: a broken connection, a server that has gone
\* or a mailbox nobody has open.  In particular the command does not exit
\* with updates unsent (Storage.Close waits for them), and the server does
\* not take its own updates for those of others.
UpdatesConserved == \A k \in Keys : owed[k] = InFlight(k) + lost[k]

\* Updates do not stay on their way: again and again none is, since the
\* goroutines that pass them on do not wait for each other in a circle.
UpdatesArrive == []<>(\A k \in Keys : InFlight(k) = 0)

=============================================================================
