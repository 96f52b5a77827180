------------------------- MODULE MCIngestPipeline -------------------------
(***************************************************************************)
(* A conversation with a repeated prompt.  turn is the first turn of the   *)
(* conversation as the proxy sees it, a request and a response; page is a  *)
(* DOM capture of the same conversation one prompt later, in which the     *)
(* user has said the same again; stray is a capture without a session key. *)
(***************************************************************************)
EXTENDS IngestPipeline, TLC

CONSTANTS turn, page, stray, k1, goOn, reply

MCKeyOf == [p \in Pairs |-> IF p = stray THEN NoKey ELSE k1]

MCResult ==
    [p \in Pairs |-> CASE p = turn -> <<goOn, reply>>
                       [] p = page -> <<goOn, reply, goOn>>
                       [] OTHER    -> <<goOn>>]

\* The reply is the assistant's; everything else is a prompt.
MCPrompts == [p \in Pairs |-> SelectSeq(MCResult[p], LAMBDA h : h # reply)]

\* Ingesting threads are interchangeable, and no run of this module checks
\* liveness.
MCSymmetry == Permutations(Workers)

===========================================================================
