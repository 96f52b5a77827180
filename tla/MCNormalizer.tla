--------------------------- MODULE MCNormalizer ---------------------------
(***************************************************************************)
(* How captured traffic becomes rows and messages, checked in one run: the *)
(* addon that records flows; the content scripts that record pages; the    *)
(* ingest pipeline; the forks persist_result makes of a conversation; and  *)
(* what it does to a message it has stored.                                *)
(* They are views of the code on state of their own: an execution is one   *)
(* of the view `view' names.                                               *)
(***************************************************************************)
EXTENDS MCIngestPipeline, BranchForks, Enrichment, ProxyAddon, CaptureRuntime

VARIABLE view

\* What is not viewed starts in one of its states.
NormalizerInit ==
    /\ view \in {"pipeline", "branches", "message", "proxy", "page"}
    /\ Init /\ BranchInit /\ EnrichInit /\ AddonInit /\ RuntimeInit
    /\ view # "message" => merged = {CHOOSE c \in Renditions : TRUE} /\ row.model
    /\ view # "proxy" => mode = "all" /\ kind = [f \in Flows |-> CHOOSE k \in Traffic : TRUE]
    /\ view # "page" => site = CHOOSE s \in Sites : TRUE

NormalizerNext ==
    \/ /\ view = "pipeline" /\ Next
       /\ UNCHANGED <<view, branchVars, enrichVars, addonVars, runtimeVars>>
    \/ /\ view = "branches" /\ BranchNext
       /\ UNCHANGED <<view, vars, enrichVars, addonVars, runtimeVars>>
    \/ /\ view = "message" /\ EnrichNext
       /\ UNCHANGED <<view, vars, branchVars, addonVars, runtimeVars>>
    \/ /\ view = "proxy" /\ AddonNext
       /\ UNCHANGED <<view, vars, branchVars, enrichVars, runtimeVars>>
    \/ /\ view = "page" /\ RuntimeNext
       /\ UNCHANGED <<view, vars, branchVars, enrichVars, addonVars>>

NormalizerSpec ==
    /\ NormalizerInit
    /\ [][NormalizerNext]_<<view, vars, branchVars, enrichVars, addonVars, runtimeVars>>

---------------------------------------------------------------------------
(* The instance of the message: copies of a long reply as the proxy and    *)
(* the page see it, with a tool call, cut short, with images; and copies   *)
(* of one that says three characters.                                      *)

Text(length, marked) ==
    [body |-> length, head |-> IF marked THEN 20 ELSE 0, calls |-> marked,
     thinks |-> FALSE, clean |-> TRUE]
Copy(words, files, parent, model, tokens) ==
    [text |-> words, content |-> [files |-> files, parent |-> parent],
     model |-> model, tokens |-> tokens]

MCRenditions ==
    {Copy(Text(300, FALSE), {}, TRUE, TRUE, "none"),
     Copy(Text(300, FALSE), {}, FALSE, TRUE, "exact"),
     Copy(Text(300, FALSE), {<<"f", "http">>}, FALSE, FALSE, "none"),
     Copy(Text(300, FALSE), {<<"g", "http">>}, FALSE, FALSE, "none"),
     Copy(Text(300, TRUE), {<<"f", "sediment">>}, FALSE, TRUE, "none"),
     [Copy(Text(220, FALSE), {}, FALSE, TRUE, "exact") EXCEPT
         !.text.clean = FALSE, !.text.thinks = TRUE],
     Copy(Text(3, FALSE), {}, FALSE, TRUE, "exact"),
     Copy(Text(3, FALSE), {<<"f", "http">>}, TRUE, FALSE, "none")}

(* The instance of the addon: an allowlisted host, and one whose flows are *)
(* recognized by their request, by their answer, or not at all.            *)

Flow(host, asks, answers, sse, encoded, upgrade) ==
    [host |-> host, asks |-> asks, answers |-> answers, sse |-> sse,
     encoded |-> encoded, upgrade |-> upgrade]

MCTraffic ==
    {Flow("known", TRUE, TRUE, FALSE, TRUE, FALSE),
     Flow("other", TRUE, TRUE, TRUE, TRUE, FALSE),
     Flow("other", FALSE, TRUE, TRUE, FALSE, FALSE),
     Flow("other", FALSE, TRUE, TRUE, TRUE, FALSE),
     Flow("other", FALSE, FALSE, FALSE, FALSE, TRUE)}

(* The instance of the page: a site of the incremental kind that waits for *)
(* both roles, and one that sends every message.                           *)

Site(f, h, b) == [full |-> f, hooked |-> h, bothRoles |-> b]
MCSites == {Site(FALSE, TRUE, TRUE), Site(TRUE, FALSE, FALSE)}

\* Captors and texts are interchangeable too; ingests and flows have the
\* captors' names.
NormalizerSymmetry ==
    MCSymmetry \cup Permutations(Captors) \cup Permutations(Texts)

===========================================================================
