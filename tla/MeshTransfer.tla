---------------------------- MODULE MeshTransfer ----------------------------
(***************************************************************************)
(* What passes over the device mesh in pieces (cartridge-network/src/      *)
(* lib.rs): assets in chunks, and bursts of datagrams through the seeded   *)
(* network simulator into the rollback window.                             *)
(***************************************************************************)
EXTENDS DeviceMesh, SequencesExt

CONSTANTS ChunkBytes,        \* ASSET_CHUNK_BYTES
          MaxTick            \* bound: ticks a datagram carries

ASSUME TransferAssumption == ChunkBytes \in Nat \ {0} /\ MaxTick \in Nat
-----------------------------------------------------------------------------
(* Asset transfer                                                          *)

\* split_asset: the chunks of an asset, every one naming the whole.
Split(asset) ==
    [i \in 1 .. (Len(asset) + ChunkBytes - 1) \div ChunkBytes |->
        [asset |-> asset, offset |-> (i - 1) * ChunkBytes, total |-> Len(asset),
         bytes |-> SubSeq(asset, (i - 1) * ChunkBytes + 1,
                          Min({i * ChunkBytes, Len(asset)}))]]

\* The bytes of the chunks before the i-th.
OffsetOf(chunks, i) == Len(FlattenSeq([j \in 1 .. i - 1 |-> chunks[j].bytes]))

InSequence(chunks) ==
    \A i \in DOMAIN chunks :
        /\ chunks[i].asset = chunks[1].asset
        /\ chunks[i].total = chunks[1].total
        /\ chunks[i].offset = OffsetOf(chunks, i)
        /\ Len(chunks[i].bytes) <= ChunkBytes

\* assemble_asset
Assemble(chunks) ==
    LET output == FlattenSeq([i \in DOMAIN chunks |-> chunks[i].bytes])
    IN IF chunks = <<>> THEN [ok |-> TRUE, bytes |-> <<>>]
       ELSE [ok |-> /\ InSequence(chunks)
                    /\ Len(output) = chunks[1].total
                    /\ output = chunks[1].asset,
             bytes |-> output]
-----------------------------------------------------------------------------
(* The simulated network                                                   *)

\* One packet's delay in SimulationConfig::simulate.
Latency(base, jitter, drawn, reorder) ==
    LET latency == Max({0, base + drawn - jitter})
    IN IF reorder THEN Max({0, latency - Min({base, 10})}) ELSE latency

\* SimulationConfig::simulate of packets 1 .. n: which are lost, and the
\* delays drawn for the others, are the choices of the seed.
Simulate(arrivals) ==
    SetToSortSeq(arrivals, LAMBDA a, b : \/ a.at < b.at
                                         \/ a.at = b.at /\ a.sequence < b.sequence)

\* A burst of one datagram per tick goes through the simulator, and the window
\* sees what arrives in the order of arrival.
AcceptBurst(arrived) ==
    LET Step(r, a) ==
            LET datagram == [tick |-> a.sequence, sequence |-> 0]
                one == AcceptDatagram(r.window, datagram)
            IN [window |-> one.window, taken |-> Noted(r.taken, datagram, one.taken)]
        result == FoldLeft(Step, [window |-> window, taken |-> taken], arrived)
    IN window' = result.window /\ taken' = result.taken

Delays == {Latency(1, 1, drawn, reorder) : drawn \in 0 .. 2, reorder \in BOOLEAN}

Bursts == UNION {{{[sequence |-> n, at |-> at[n]] : n \in kept} : at \in [kept -> Delays]} :
                    kept \in SUBSET (1 .. 3)}

Arrivals == {Simulate(burst) : burst \in Bursts}

WindowNext ==
    \/ DatagramNext(0 .. MaxTick, 0 .. 1)
    \/ \E arrived \in Arrivals : AcceptBurst(arrived)
-----------------------------------------------------------------------------
\* The chunks that assemble are those of one asset, all of them and in order,
\* and they assemble to it (split_asset, assemble_asset).
AssemblyIsTheAsset(chunks) ==
    LET result == Assemble(chunks)
    IN result.ok <=> chunks = Split(result.bytes)
=============================================================================
