------------------------------- MODULE MCWire -------------------------------
(***************************************************************************)
(* The parts of the program that pass bytes between threads, peers and     *)
(* clients, each explored on its own: the audio ring, the device mesh and  *)
(* the HTTP listener.  `part' says which of them a behaviour is about.     *)
(***************************************************************************)
EXTENDS RealtimeBuffer, MeshTransfer, HttpIngress

VARIABLES part,    \* the component that moves
          chunks   \* the chunks an asset is assembled from

meshVars == <<sessionVars, channelVars, documentVars, windowVars, chunks>>

wireVars == <<part, ringVars, meshVars, ingressVars>>

Parts == {"ring", "session", "channel", "document", "asset", "window", "ingress"}

\* Assets of up to three bytes, and any up to three of their chunks.
Assets == UNION {[1 .. n -> {1, 2}] : n \in 0 .. 3}

Chunks == UNION {{Split(a)[i] : i \in DOMAIN Split(a)} : a \in Assets}

MCOperations ==
    {[key |-> 1, bytes |-> 1, clock |-> 1, peer |-> 1],
     [key |-> 1, bytes |-> 2, clock |-> 1, peer |-> 2],
     [key |-> 1, bytes |-> 0, clock |-> 2, peer |-> 1],
     [key |-> 2, bytes |-> 2, clock |-> 1, peer |-> 1],
     [key |-> 2, bytes |-> 1, clock |-> 2, peer |-> 2]}

MCRequests ==
    {[head |-> 3, declared |-> d, actual |-> a, flaws |-> {}, method |-> "GET"] : d, a \in 0 .. 2} \cup
    {[head |-> 1, declared |-> d, actual |-> 2, flaws |-> {}, method |-> "HEAD"] : d \in 1 .. 3} \cup
    {[head |-> h, declared |-> 1, actual |-> 1, flaws |-> f, method |-> "GET"] :
        h \in {2, 4}, f \in {{}, {"token", "line"}, {"request"}}}

WireInit ==
    /\ part \in Parts
    /\ RingInit /\ SessionInit /\ ChannelInit /\ DocumentInit /\ WindowInit /\ IngressInit
    /\ IF part = "asset" THEN chunks \in UNION {[1 .. n -> Chunks] : n \in 0 .. 3} ELSE chunks = <<>>

InRing == part = "ring" /\ RingNext /\ UNCHANGED <<part, meshVars, ingressVars>>

InSession ==
    part = "session" /\ SessionNext
    /\ UNCHANGED <<part, ringVars, channelVars, documentVars, windowVars, chunks, ingressVars>>

InChannel ==
    part = "channel" /\ ChannelNext
    /\ UNCHANGED <<part, ringVars, sessionVars, documentVars, windowVars, chunks, ingressVars>>

InDocument ==
    part = "document" /\ DocumentNext
    /\ UNCHANGED <<part, ringVars, sessionVars, channelVars, windowVars, chunks, ingressVars>>

InWindow ==
    part = "window" /\ WindowNext
    /\ UNCHANGED <<part, ringVars, sessionVars, channelVars, documentVars, chunks, ingressVars>>

InIngress == part = "ingress" /\ IngressNext /\ UNCHANGED <<part, ringVars, meshVars>>

WireNext == InRing \/ InSession \/ InChannel \/ InDocument \/ InWindow \/ InIngress

WireSpec == WireInit /\ [][WireNext]_wireVars
-----------------------------------------------------------------------------
\* What arrives is what was sent, over sessions, channels and the window; and
\* the chunks that assemble are all those of one asset, in order, and give the
\* asset back, for every short list of chunks of any assets (seal, open, send,
\* receive, RollbackWindow::accept, split_asset, assemble_asset).
TransfersAreExact == ArrivesAsSent /\ (part = "asset" => AssemblyIsTheAsset(chunks))
=============================================================================
