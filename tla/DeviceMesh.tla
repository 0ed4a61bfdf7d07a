----------------------------- MODULE DeviceMesh -----------------------------
(***************************************************************************)
(* The primitives of the device mesh (cartridge-network/src/lib.rs): the   *)
(* authenticated session of two peers, the bounded message channel, the    *)
(* convergent document and the rollback window.  What is passed in pieces, *)
(* assets and simulated bursts, is in MeshTransfer.                        *)
(*                                                                         *)
(* The transport is not in the repository: a message that was sealed may   *)
(* be lost, opened twice or opened out of order.  A plaintext is a number, *)
(* a digest the value it is the digest of, a document key a number so that *)
(* merge can follow the order of the map.                                  *)
(***************************************************************************)
EXTENDS Integers, Sequences, FiniteSets, FiniteSetsExt, Functions

CONSTANTS Peers,             \* the two peers of a session
          MaxMessages,       \* bound: messages a peer seals
          ChannelMessages,   \* max_messages of the channel
          ChannelBytes,      \* max_bytes of the channel
          Replicas,          \* the documents that replicate each other
          Operations,        \* the document operations there are: records with
                             \* key, bytes (0: the value is removed), clock, peer
          DocumentOperations,\* MAX_DOCUMENT_OPERATIONS
          DocumentBytes,     \* MAX_DOCUMENT_BYTES
          Rollback,          \* max_rollback_ticks
          WindowSize         \* MAX_ROLLBACK_DATAGRAMS

ASSUME MeshAssumption ==
    /\ \E p, q \in Peers : p # q /\ Peers = {p, q}
    /\ {MaxMessages, DocumentOperations, DocumentBytes, WindowSize} \subseteq Nat
    /\ {ChannelMessages, ChannelBytes, Rollback} \subseteq Nat \ {0}
    /\ Operations \subseteq [key: Nat \ {0}, bytes: Nat, clock: Nat, peer: Nat]
    /\ \A a, b \in Operations : <<a.key, a.clock, a.peer>> = <<b.key, b.clock, b.peer>> => a = b
    /\ LET keys == {op.key : op \in Operations}
       IN  IsFiniteSet(keys) /\ keys = 1 .. Cardinality(keys)

VARIABLES session,   \* per peer: the PeerSession with the other one
          wire,      \* sealed messages the transport still holds
          sealed,    \* per peer: what it sealed, in order (history)
          opened,    \* per peer: what it opened, in order (history)
          channel,   \* a MessageChannel
          passed,    \* what the channel took and gave (history)
          documents, \* per replica: a SharedDocument
          synced,    \* the replicas the last step merged both ways without an error
          window,    \* a RollbackWindow
          taken      \* the datagrams it accepted, and accepted again (history)

sessionVars == <<session, wire, sealed, opened>>
channelVars == <<channel, passed>>
documentVars == <<documents, synced>>
windowVars == <<window, taken>>
-----------------------------------------------------------------------------
(* Sessions                                                                *)

Other(p) == CHOOSE q \in Peers : q # p

\* PeerIdentity::session: both ends derive the same key.
SessionKey(p) == Peers

SessionInit ==
    /\ session = [p \in Peers |-> [key |-> SessionKey(p), send |-> 0, receive |-> 0]]
    /\ wire = {}
    /\ sealed = [p \in Peers |-> <<>>]
    /\ opened = [p \in Peers |-> <<>>]

\* PeerSession::seal; the additional data binds sender, recipient and sequence.
Seal(p) ==
    /\ session[p].send < MaxMessages
    /\ LET body == Len(sealed[p]) + 1
       IN /\ wire' = wire \cup {[sender |-> p, recipient |-> Other(p), body |-> body,
                                 sequence |-> session[p].send, key |-> session[p].key]}
          /\ sealed' = [sealed EXCEPT ![p] = Append(@, body)]
    /\ session' = [session EXCEPT ![p].send = @ + 1]
    /\ UNCHANGED opened

\* An open that takes whatever has not been passed.
OpensForward(p, m) ==
    /\ m.sender = Other(p) /\ m.recipient = p
    /\ m.sequence >= session[p].receive
    /\ m.key = session[p].key

\* The tests of PeerSession::open.
Opens(p, m) ==
    /\ m.sender = Other(p) /\ m.recipient = p
    /\ m.sequence = session[p].receive
    /\ m.key = session[p].key

\* PeerSession::open; a refused message changes nothing.
OpenSealed(p) ==
    \E m \in wire :
        /\ Opens(p, m)
        /\ opened' = [opened EXCEPT ![p] = Append(@, m.body)]
        /\ session' = [session EXCEPT ![p].receive = @ + 1]
        /\ UNCHANGED <<wire, sealed>>

\* The transport loses a message.
Lose ==
    /\ \E m \in wire : wire' = wire \ {m}
    /\ UNCHANGED <<session, sealed, opened>>

SessionNext == (\E p \in Peers : Seal(p) \/ OpenSealed(p)) \/ Lose

SessionSpec == SessionInit /\ [][SessionNext]_sessionVars
-----------------------------------------------------------------------------
(* The message channel                                                     *)

\* MessageChannel::new
ChannelInit ==
    /\ channel = [queue |-> <<>>, bytes |-> 0]
    /\ passed = [sent |-> <<>>, received |-> <<>>]

\* MessageChannel::send of a message of some length.
Send(length) ==
    /\ Len(passed.sent) < MaxMessages + ChannelMessages
    /\ Len(channel.queue) < ChannelMessages
    /\ channel.bytes + length <= ChannelBytes
    /\ channel' = [queue |-> Append(channel.queue, length), bytes |-> channel.bytes + length]
    /\ passed' = [passed EXCEPT !.sent = Append(@, length)]

\* MessageChannel::receive
Receive ==
    /\ channel.queue # <<>>
    /\ channel' = [queue |-> Tail(channel.queue), bytes |-> channel.bytes - Head(channel.queue)]
    /\ passed' = [passed EXCEPT !.received = Append(@, Head(channel.queue))]

ChannelNext == Receive \/ \E length \in 0 .. ChannelBytes : Send(length)

ChannelSpec == ChannelInit /\ [][ChannelNext]_channelVars
-----------------------------------------------------------------------------
(* The document                                                            *)

DocumentKeys == {op.key : op \in Operations}

NoOperation == [key |-> 0, bytes |-> 0, clock |-> 0, peer |-> 0]

\* SharedDocument::new
NewDocument == [entries |-> [k \in DocumentKeys |-> NoOperation], seen |-> {}, bytes |-> 0]

DocumentInit ==
    /\ documents = [r \in Replicas |-> NewDocument]
    /\ synced = {}

\* A comparison that leaves the tie of two clocks to whoever came first.
SupersedesByClock(op, current) == current = NoOperation \/ op.clock > current.clock

\* (clock, peer_id) is compared as a pair.
Supersedes(op, current) ==
    \/ current = NoOperation
    \/ op.clock > current.clock
    \/ op.clock = current.clock /\ op.peer > current.peer

\* SharedDocument::apply: the document after it, and whether it was Ok.
Apply(document, op) ==
    LET current == document.entries[op.key]
        next == document.bytes - current.bytes + op.bytes
        replace == Supersedes(op, current)
    IN IF op \in document.seen THEN [document |-> document, ok |-> TRUE]
       ELSE IF \/ Cardinality(document.seen) >= DocumentOperations
               \/ replace /\ next > DocumentBytes
       THEN [document |-> document, ok |-> FALSE]
       ELSE [ok |-> TRUE,
             document |->
                [entries |-> IF replace THEN [document.entries EXCEPT ![op.key] = op] ELSE document.entries,
                 bytes |-> IF replace THEN next ELSE document.bytes,
                 seen |-> document.seen \cup {op}]]

\* One entry of the other, unless an earlier one was refused.
MergeEntry(result, op) ==
    IF result.ok /\ op # NoOperation THEN Apply(result.document, op) ELSE result

\* SharedDocument::merge: the other's entries in the order of their keys, up
\* to the first that is refused; what was applied before it stays.
Merge(document, other) ==
    LET merged[i \in 0 .. Cardinality(DocumentKeys)] ==
            IF i = 0 THEN [document |-> document, ok |-> TRUE]
            ELSE MergeEntry(merged[i - 1], other.entries[i])
    IN merged[Cardinality(DocumentKeys)]

\* An operation reaches a replica, first or again.
Deliver(r, op) ==
    /\ documents' = [documents EXCEPT ![r] = Apply(@, op).document]
    /\ synced' = {}

\* One replica merges another, and the other merges it back.
Synchronise(r, s) ==
    LET there == Merge(documents[r], documents[s])
        back == Merge(documents[s], there.document)
    IN /\ documents' = [documents EXCEPT ![r] = there.document, ![s] = back.document]
       /\ synced' = IF there.ok /\ back.ok THEN {r, s} ELSE {}

\* One replica merges another.
MergeOne(r, s) ==
    /\ documents' = [documents EXCEPT ![r] = Merge(@, documents[s]).document]
    /\ synced' = {}

DeliverNext == \E r \in Replicas, op \in Operations : Deliver(r, op)

DocumentNext ==
    \/ DeliverNext
    \/ \E r, s \in Replicas : r # s /\ (Synchronise(r, s) \/ MergeOne(r, s))

DocumentSpec == DocumentInit /\ [][DocumentNext]_documentVars
-----------------------------------------------------------------------------
(* The rollback window                                                     *)

\* RollbackWindow::new
WindowInit ==
    /\ window = [newest |-> 0, seen |-> {}]
    /\ taken = [once |-> {}, again |-> {}]

\* What the window still remembers.
Kept(seen, newest) == {d \in seen : d.tick >= newest - Rollback}

\* RollbackWindow::accept: the window after it, and whether it returned true.
AcceptDatagram(w, datagram) ==
    LET newest == Max({w.newest, datagram.tick})
        kept == Kept(w.seen, newest)
    IN IF datagram.tick + Rollback < w.newest THEN [window |-> w, taken |-> FALSE]
       ELSE IF Cardinality(kept) >= WindowSize
       THEN [window |-> [newest |-> newest, seen |-> kept], taken |-> FALSE]
       ELSE [window |-> [newest |-> newest, seen |-> kept \cup {datagram}],
             taken |-> datagram \notin kept]

Noted(history, datagram, accepted) ==
    IF ~accepted THEN history
    ELSE [once |-> history.once \cup {datagram},
          again |-> history.again \cup ({datagram} \cap history.once)]

\* A datagram comes out of the network, first or again.
AcceptOne(datagram) ==
    LET result == AcceptDatagram(window, datagram)
    IN /\ window' = result.window
       /\ taken' = Noted(taken, datagram, result.taken)

DatagramNext(ticks, sequences) ==
    \E tick \in ticks, sequence \in sequences : AcceptOne([tick |-> tick, sequence |-> sequence])

\* The window with datagrams of any tick; a burst is a sequence of them.
WindowSpec == WindowInit /\ [][DatagramNext(Nat, Nat)]_windowVars
-----------------------------------------------------------------------------
\* A peer opens what the other sealed, from the first message on, none twice and
\* none out of order, whatever the transport loses, repeats or reorders
\* (PeerSession::seal, open).
OpenedInOrder ==
    \A p \in Peers :
        /\ Len(opened[p]) <= Len(sealed[Other(p)])
        /\ \A i \in DOMAIN opened[p] : opened[p][i] = sealed[Other(p)][i]

\* A channel gives what it took, in order, within its bounds, and counts the
\* bytes of its queue (MessageChannel::send, receive).
PassedInOrder ==
    /\ passed.sent = passed.received \o channel.queue
    /\ channel.bytes = SumFunction(channel.queue)
    /\ channel.bytes <= ChannelBytes /\ Len(channel.queue) <= ChannelMessages

\* No datagram is accepted twice, although the window forgets: what it forgot is
\* too old to be accepted again (RollbackWindow::accept).
AcceptedOnce == taken.again = {}

\* What arrives is what was sent, over a session, a channel and the rollback
\* window.
ArrivesAsSent == OpenedInOrder /\ PassedInOrder /\ AcceptedOnce

\* An entry is the winner of all operations of its key that the replica has
\* taken, in whatever order and however often they came; so replicas that took
\* the same operations hold the same entries (SharedDocument::apply).
EntriesAreWinners ==
    /\ \A r \in Replicas : \A k \in DocumentKeys :
          LET d == documents[r]
          IN /\ \A op \in d.seen : op.key = k =>
                   op = d.entries[k] \/ Supersedes(d.entries[k], op)
             /\ d.entries[k] \in d.seen \cup {NoOperation}
    /\ \A r, s \in Replicas : documents[r].seen = documents[s].seen =>
          documents[r].entries = documents[s].entries

\* docs/networking.md calls the documents convergent: entries are winners, the
\* byte count is that of the entries, and two replicas that merged each other
\* without an error hold the same entries (SharedDocument::apply, merge).
DocumentsConverge ==
    /\ EntriesAreWinners
    /\ \A r, s \in synced : documents[r].entries = documents[s].entries
    /\ \A r \in Replicas :
          LET d == documents[r]
          IN /\ d.bytes = SumFunction([k \in DocumentKeys |-> d.entries[k].bytes])
             /\ d.bytes <= DocumentBytes
=============================================================================
