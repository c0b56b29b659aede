------------------------------ MODULE MCServer ------------------------------
(* Instances of Server for TLC. *)
EXTENDS Server

CONSTANTS r, g, w       \* model values: clients of POST /ingest, IngestService, /ws/ingest

MCClients  == {r, g, w}
MCProtocol == [c \in {r, g, w} |-> CASE c = r -> "rest" [] c = g -> "grpc" [] c = w -> "ws"]

\* One request and a stream of two messages, or two gRPC calls.
MCPlans == {[c \in {r, g, w} |-> CASE c = r -> 1 [] c = w -> 2 [] c = g -> 0],
            [c \in {r, g, w} |-> IF c = g THEN 2 ELSE 0]}
=============================================================================
