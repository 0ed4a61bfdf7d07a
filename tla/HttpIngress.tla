----------------------------- MODULE HttpIngress -----------------------------
(***************************************************************************)
(* The loopback HTTP listener in front of a service                        *)
(* (cartridge-cli/src/ingress.rs): the accept loop with its bounded        *)
(* threads, the reading of a request that arrives in fragments against a   *)
(* deadline, the tests of its head, the call of the daemon, and the reply. *)
(*                                                                         *)
(* A connection's bytes are counted, not spelt: `head' is the length of    *)
(* the head with its blank line, `declared' what its Content-Length says,  *)
(* `actual' how many bytes the client sends after it before it stops.  The *)
(* first `got' of them have been read.  What can be wrong with a head is a *)
(* set of flaws.  One byte of the model stands for a chunk of the program. *)
(***************************************************************************)
EXTENDS Integers, Sequences, FiniteSets, FiniteSetsExt

CONSTANTS Connections,   \* the connections that will be opened
          Requests,      \* what a client may send: records with head, declared,
                         \* actual, flaws and method
          MaxClients,    \* MAX_CLIENTS
          MaxHead,       \* MAX_HEAD
          HeadChunk,     \* bytes one read of the head may return
          MaxBody        \* MAX_SERVICE_REQUEST_BYTES

\* What can be wrong with a head.
Flaws == {"method", "line", "header", "host", "origin", "token", "transfer", "connection", "length",
          "request"}

\* A head ends with a blank line, so it is not empty.
ASSUME IngressAssumption ==
    /\ MaxClients \in Nat /\ MaxHead \in Nat /\ HeadChunk \in Nat \ {0} /\ MaxBody \in Nat
    /\ \A r \in Requests : /\ r.head \in Nat \ {0} /\ r.declared \in Nat /\ r.actual \in Nat
                           /\ r.flaws \subseteq Flaws

VARIABLES connections,   \* per connection: where it is
          threads,       \* the connections whose handle the loop keeps
          listener       \* where the accept loop is

ingressVars == <<connections, threads, listener>>

Unopened == [pc |-> "unopened"]

\* serve, up to its loop: a token that is not 64 hexadecimal digits, a daemon
\* that is not reachable and a port that is taken end it before this state.
IngressInit ==
    /\ connections = [c \in Connections |-> Unopened]
    /\ threads = {}
    /\ listener = "reap"

\* A client connects and begins to send.
Connect(c) ==
    /\ connections[c].pc = "unopened"
    /\ \E r \in Requests :
          connections' = [connections EXCEPT ![c] =
              [pc |-> "queued", request |-> r, got |-> 0, body |-> 0,
               forwarded |-> FALSE, head |-> FALSE, late |-> FALSE,
               status |-> 0, reply |-> [length |-> 0, body |-> 0, announced |-> FALSE]]]
    /\ UNCHANGED <<threads, listener>>

\* The threads that have not ended.
Alive == {c \in threads : connections[c].pc \notin {"done", "dropped"}}

\* The loop joins the threads that have ended; it ends with the interrupt.
Reap ==
    /\ listener = "reap"
    /\ threads' = Alive
    /\ listener' = "accept"
    /\ UNCHANGED connections

\* The loop takes one connection, and closes it at once when all threads run.
Accept ==
    /\ listener = "accept"
    /\ listener' = "reap"
    /\ \/ /\ \A c \in Connections : connections[c].pc # "queued"
          /\ UNCHANGED <<connections, threads>>
       \/ \E c \in Connections :
            /\ connections[c].pc = "queued"
            /\ IF Cardinality(threads) >= MaxClients
               THEN /\ connections' = [connections EXCEPT ![c].pc = "dropped"]
                    /\ UNCHANGED threads
               ELSE /\ connections' = [connections EXCEPT ![c].pc = "head"]
                    /\ threads' = threads \cup {c}

\* The interrupt: no more connections, the threads there are run to their end.
Interrupt ==
    /\ listener = "reap"
    /\ listener' = "stopped"
    /\ UNCHANGED <<connections, threads>>
-----------------------------------------------------------------------------
(* read_request                                                            *)

\* parse_head: the tests in their order, with the status each answers.
HeadTests ==
    << [flaw |-> "method", status |-> 405], [flaw |-> "line", status |-> 400],
       [flaw |-> "header", status |-> 400], [flaw |-> "host", status |-> 421],
       [flaw |-> "origin", status |-> 403], [flaw |-> "token", status |-> 401],
       [flaw |-> "transfer", status |-> 400], [flaw |-> "connection", status |-> 400],
       [flaw |-> "length", status |-> 400] >>

\* parse_head: 200 when every test passes.
ParseHead(r) ==
    LET failed == {i \in DOMAIN HeadTests : HeadTests[i].flaw \in r.flaws}
    IN IF failed # {} THEN HeadTests[Min(failed)].status
       ELSE IF r.declared > MaxBody THEN 413
       ELSE IF "request" \in r.flaws THEN 400 ELSE 200

\* error_response: a status with a short text.
ErrorResponse(status) == [status |-> status, body |-> 1, valid |-> TRUE]

\* encode_response: what goes on the wire.
EncodeResponse(response, head) ==
    LET r == IF response.valid /\ response.status >= 200 THEN response ELSE ErrorResponse(502)
        silent == r.status \in {204, 205, 304}
    IN [status |-> r.status,
        reply |-> [announced |-> r.status \notin {204, 304},
                   length |-> IF silent THEN 0 ELSE r.body,
                   body |-> IF head \/ silent THEN 0 ELSE r.body]]

\* write_response, and the end of the thread; a write that fails is dropped.
Reply(c, response, head) ==
    LET encoded == EncodeResponse(response, head)
    IN [connections[c] EXCEPT !.pc = "done", !.status = encoded.status, !.reply = encoded.reply]

Refuse(c, status) ==
    connections' = [connections EXCEPT ![c] = Reply(c, ErrorResponse(status), FALSE)]

\* A body that must be shorter than it says.
SurplusInclusive(got, r) == got - r.head >= r.declared /\ got > r.head

\* Bytes behind the head that the declared length does not account for.
Surplus(got, r) == got - r.head > r.declared

\* What follows the head once it is complete: its tests, then the body that
\* came with it.
HeadComplete(c, got) ==
    LET r == connections[c].request
        status == ParseHead(r)
    IN IF r.head > MaxHead THEN Refuse(c, 431)
       ELSE IF status # 200 THEN Refuse(c, status)
       ELSE IF Surplus(got, r) THEN Refuse(c, 400)
       ELSE connections' = [connections EXCEPT ![c].pc = "body", ![c].got = got,
                                               ![c].body = got - r.head]

\* One read of the head: as many bytes as have arrived.
ReadHead(c) ==
    LET r == connections[c].request
        left == r.head + r.actual - connections[c].got
    IN /\ connections[c].pc = "head"
       /\ IF connections[c].got >= MaxHead THEN Refuse(c, 431)
          ELSE IF left = 0 THEN Refuse(c, 400)
          ELSE \E n \in 1 .. Min({HeadChunk, left}) :
                  LET got == connections[c].got + n
                  IN IF got >= r.head THEN HeadComplete(c, got)
                     ELSE connections' = [connections EXCEPT ![c].got = got]
       /\ UNCHANGED <<threads, listener>>

BodyLimit(c) == Min({HeadChunk, connections[c].request.declared - connections[c].body})

\* One read of the body: never more than what is still declared.
ReadBody(c) ==
    LET r == connections[c].request
        left == r.head + r.actual - connections[c].got
    IN /\ connections[c].pc = "body"
       /\ connections[c].body < r.declared
       /\ IF left = 0 THEN Refuse(c, 400)
          ELSE \E n \in 1 .. Min({BodyLimit(c), left}) :
                  connections' = [connections EXCEPT ![c].got = @ + n, ![c].body = @ + n]
       /\ UNCHANGED <<threads, listener>>

\* remaining: the deadline passes before the request is complete.
PastDeadline(c) ==
    /\ \/ connections[c].pc = "head" /\ connections[c].got < MaxHead
       \/ connections[c].pc = "body" /\ connections[c].body < connections[c].request.declared
    /\ connections' = [connections EXCEPT ![c] = [Reply(c, ErrorResponse(408), FALSE) EXCEPT !.late = TRUE]]
    /\ UNCHANGED <<threads, listener>>

\* The complete request goes to the daemon.
Forward(c) ==
    /\ connections[c].pc = "body"
    /\ connections[c].body >= connections[c].request.declared
    /\ connections' = [connections EXCEPT ![c].pc = "invoked", ![c].forwarded = TRUE,
                                       ![c].head = (connections[c].request.method = "HEAD")]
    /\ UNCHANGED <<threads, listener>>

\* What the daemon may answer: an Invoked response of the guest's making, or
\* anything else, a timeout included.
DaemonAnswers == {[status |-> s, body |-> b, valid |-> v] : s \in {100, 200, 204, 205, 304}, b \in {0, 2}, v \in BOOLEAN}

\* The reply to it: a response that is not valid is none.
ReturnResponse(c) ==
    /\ connections[c].pc = "invoked"
    /\ \/ \E a \in DaemonAnswers :
            connections' = [connections EXCEPT ![c] =
                Reply(c, IF a.valid THEN a ELSE ErrorResponse(503), connections[c].head)]
       \/ connections' = [connections EXCEPT ![c] = Reply(c, ErrorResponse(503), connections[c].head)]
    /\ UNCHANGED <<threads, listener>>

IngressNext ==
    \/ Reap \/ Accept \/ Interrupt
    \/ \E c \in Connections :
          Connect(c) \/ ReadHead(c) \/ ReadBody(c) \/ PastDeadline(c) \/ Forward(c) \/ ReturnResponse(c)

IngressSpec == IngressInit /\ [][IngressNext]_ingressVars
-----------------------------------------------------------------------------
\* A request that reaches the daemon passed every test of its head, and its
\* body is the declared bytes behind the head, no fewer and none of what the
\* client sent beyond them, however the bytes arrived (read_request).
ForwardedIsComplete(k) ==
    k.forwarded =>
        /\ k.request.flaws = {} /\ k.request.head <= MaxHead
        /\ k.body = k.request.declared
        /\ k.got = k.request.head + k.body

\* A client that sends exactly what a good head declares, in time, is never
\* refused, wherever the network splits its bytes (read_request).
GoodIsForwarded(k) ==
    k.pc = "done" /\ ~k.late /\ k.request.flaws = {} /\ k.request.head <= MaxHead
      /\ k.request.declared <= MaxBody /\ k.request.actual = k.request.declared
        => k.forwarded

\* The body on the wire is as long as its Content-Length says, empty where the
\* status or a HEAD request forbids one, and never behind an absent length
\* (encode_response).
WireLengthIsTrue(k) ==
    k.pc = "done" =>
        /\ k.status >= 200
        /\ k.reply.body = IF k.head THEN 0 ELSE k.reply.length
        /\ ~k.reply.announced => k.reply.body = 0

\* What the listener owes a connection, both ways, wherever the network splits
\* the bytes; and at most MAX_CLIENTS threads run at once, although handles are
\* only reaped between two accepts (serve, read_request, encode_response).
RequestsAreWhole ==
    /\ \A c \in Connections : connections[c].pc # "unopened" =>
          /\ ForwardedIsComplete(connections[c])
          /\ GoodIsForwarded(connections[c])
          /\ WireLengthIsTrue(connections[c])
    /\ Cardinality({c \in Connections :
          connections[c].pc \in {"head", "body", "invoked"}}) <= MaxClients
=============================================================================
