-------------------------- MODULE ProbeLink_proofs --------------------------
(***************************************************************************)
(* The probe: its types, that no call waits for a connection that is gone, *)
(* and that a reply is not lost while its connection lasts.                *)
(***************************************************************************)
EXTENDS ProbeLink, SequenceTheorems, TLAPS

\* The attached extension is the one whose handler is past the hello, and what
\* the two ends of a link that is not cut know of each other agrees.
LinkAgrees(l) ==
    /\ attached = l <=> session[l] \in {"attached", "leaving"}
    /\ ready[l] = "connecting" => up[l] = <<>>
    /\ session[l] = "greeting" => up[l] \in {<<>>, <<Hello>>}
    /\ session[l] = "greeting" /\ l \notin cut => ready[l] # "closed"
    /\ session[l] = "attached" /\ l \notin cut => ready[l] = "open"

LinksAgree == \A l \in Links : LinkAgrees(l)

\* A request that is on its way, or whose verb is being executed, belongs to
\* the link it came from, which the worker has open and the server greeted.
Carried(c, l) ==
    /\ via[c] = l /\ call[c] \in {"waiting", "returned"}
    /\ ready[l] = "open" /\ session[l] # "greeting"

RequestsBelong ==
    /\ \A c \in Calls : call[c] \in {"sending", "waiting"} => via[c] \in Links
    /\ \A l \in Links : \A i \in 1 .. Len(down[l]) : Carried(down[l][i], l)
    /\ \A c \in handling : via[c] \in Links /\ Carried(c, via[c])
    /\ \A c \in replied : via[c] \in Links /\ call[c] \in {"waiting", "returned"}

ProbeInv == ProbeTypeOK /\ LinksAgree /\ RequestsBelong /\ NobodyWaitsForTheGone /\ RepliesAreKept

\* What the extension sends.
Frames == Calls \cup {Hello}

\* A sequence with one more at the end keeps what it had.
LEMMA AppendKeeps ==
    ASSUME NEW S, NEW s \in Seq(S), NEW e \in S
    PROVE  /\ \A i \in 1 .. Len(s) : /\ i \in 1 .. Len(Append(s, e))
                                    /\ Append(s, e)[i] = s[i]
           /\ Len(Append(s, e)) = Len(s) + 1 /\ Len(s) + 1 \in 1 .. Len(Append(s, e))
           /\ Append(s, e)[Len(s) + 1] = e
           /\ \A i \in 1 .. Len(Append(s, e)) : i \in 1 .. Len(s) \/ Append(s, e)[i] = e
BY AppendProperties

\* What is behind the first moves up by one.
LEMMA TailKeeps ==
    ASSUME NEW S, NEW s \in Seq(S), NEW i \in 1 .. Len(s), i # 1
    PROVE  i - 1 \in 1 .. Len(Tail(s)) /\ Tail(s)[i - 1] = s[i]
BY HeadTailProperties

\* The types.
LEMMA ProbeTypesStep ==
    ASSUME ProbeTypeOK, [ProbeNext]_probeVars
    PROVE  ProbeTypeOK'
<1> USE DEF serverVars, callVars, workerVars, wires
<1>listening. listening \in BOOLEAN
  BY DEF ProbeTypeOK
<1>attached. attached \in Links \cup {Nobody}
  BY DEF ProbeTypeOK
<1>session. session \in [Links -> {"none", "greeting", "attached", "leaving"}]
  BY DEF ProbeTypeOK
<1>waits. waits \in [Links -> SUBSET Calls]
  BY DEF ProbeTypeOK
<1>call. call \in [Calls -> {"idle", "sending", "waiting", "returned"}]
  BY DEF ProbeTypeOK
<1>via. via \in [Calls -> Links \cup {Nobody}]
  BY DEF ProbeTypeOK
<1>future. future \in [Calls -> {"open", "set", "failed", "cancelled"}]
  BY DEF ProbeTypeOK
<1>outcome. outcome \in [Calls -> {"none", "answer", "refused", "closed", "timeout"}]
  BY DEF ProbeTypeOK
<1>cut. cut \in SUBSET Links
  BY DEF ProbeTypeOK
<1>down. down \in [Links -> Seq(Calls)]
  BY DEF ProbeTypeOK
<1>up. up \in [Links -> Seq(Calls \cup {Hello})]
  BY DEF ProbeTypeOK
<1>awake. awake \in BOOLEAN
  BY DEF ProbeTypeOK
<1>ready. ready \in [Links -> {"connecting", "open", "closed"}]
  BY DEF ProbeTypeOK
<1>socket. socket \in Links \cup {Nobody}
  BY DEF ProbeTypeOK
<1>asked. asked \in 0 .. MaxDials
  BY DEF ProbeTypeOK
<1>dialing. dialing \in 0 .. MaxDials
  BY DEF ProbeTypeOK
<1>retrying. retrying \in BOOLEAN
  BY DEF ProbeTypeOK
<1>handling. handling \in SUBSET Calls
  BY DEF ProbeTypeOK
<1>replied. replied \in SUBSET Calls
  BY DEF ProbeTypeOK
<1>mishaps. mishaps \in 0 .. MaxMishaps
  BY DEF ProbeTypeOK
<1>1. CASE ServerStarts
  BY <1>1 DEF ServerStarts, ProbeTypeOK
<1>2. CASE ServerStops
  <2>1. mishaps' \in 0 .. MaxMishaps
    BY <1>2, <1>mishaps, ProbeAssumption DEF ServerStops, Mishap, ProbeAssumption
  <2>2. /\ listening' \in BOOLEAN
        /\ cut' \in SUBSET Links
    BY <1>2, <1>listening, <1>cut DEF ServerStops, Mishap
  <2>3. UNCHANGED <<attached, session, waits, call, via, future, outcome, down, up, awake,
                    ready, socket, asked, dialing, retrying, handling, replied>>
    BY <1>2 DEF ServerStops, Mishap
  <2> QED BY <2>1, <2>2, <2>3 DEF ProbeTypeOK
<1>3. CASE Wakes
  <2>1. asked' \in 0 .. MaxDials
    BY <1>3, ProbeAssumption DEF Wakes, ProbeAssumption
  <2>2. awake' \in BOOLEAN
    BY <1>3, <1>awake DEF Wakes
  <2>3. UNCHANGED <<listening, attached, session, waits, call, via, future, outcome, cut, down,
                    up, ready, socket, dialing, retrying, handling, replied, mishaps>>
    BY <1>3 DEF Wakes
  <2> QED BY <2>1, <2>2, <2>3 DEF ProbeTypeOK
<1>4. CASE Dies
  <2>1. mishaps' \in 0 .. MaxMishaps
    BY <1>4, <1>mishaps, ProbeAssumption DEF Dies, Mishap, ProbeAssumption
  <2>2. cut' \in SUBSET Links
    BY <1>4, <1>cut DEF Dies, Mishap
  <2>3. down' \in [Links -> Seq(Calls)]
    BY <1>4 DEF Dies
  <2>4. /\ awake' \in BOOLEAN
        /\ ready' \in [Links -> {"connecting", "open", "closed"}]
        /\ socket' \in Links \cup {Nobody}
        /\ retrying' \in BOOLEAN
        /\ handling' \in SUBSET Calls
    BY <1>4, <1>awake, <1>ready, <1>socket, <1>retrying, <1>handling DEF Dies, Mishap
  <2>5. /\ asked' \in 0 .. MaxDials
        /\ dialing' \in 0 .. MaxDials
    BY <1>4, ProbeAssumption DEF Dies, ProbeAssumption
  <2>6. UNCHANGED <<listening, attached, session, waits, call, via, future, outcome, up,
                    replied>>
    BY <1>4 DEF Dies, Mishap
  <2> QED BY <2>1, <2>2, <2>3, <2>4, <2>5, <2>6 DEF ProbeTypeOK
<1>5. CASE Retries
  <2>1. asked' \in 0 .. MaxDials
    BY <1>5, <1>asked, ProbeAssumption DEF Retries, ProbeAssumption
  <2>2. retrying' \in BOOLEAN
    BY <1>5, <1>retrying DEF Retries
  <2>3. UNCHANGED <<listening, attached, session, waits, call, via, future, outcome, cut, down,
                    up, awake, ready, socket, dialing, handling, replied, mishaps>>
    BY <1>5 DEF Retries
  <2> QED BY <2>1, <2>2, <2>3 DEF ProbeTypeOK
<1>6. CASE Checks
  <2>1. /\ asked' \in 0 .. MaxDials
        /\ dialing' \in 0 .. MaxDials
    BY <1>6, <1>asked, <1>dialing, ProbeAssumption DEF Checks, ProbeAssumption, workerVars
  <2>2. UNCHANGED <<listening, attached, session, waits, call, via, future, outcome, cut, down,
                    up, awake, ready, socket, retrying, handling, replied, mishaps>>
    BY <1>6 DEF Checks
  <2> QED BY <2>1, <2>2 DEF ProbeTypeOK
<1>7. CASE Dials
  <2>1. \/ UNCHANGED <<ready, socket, cut, up>> /\ retrying' = TRUE
        \/ \E l \in Links : /\ ready' = [ready EXCEPT ![l] = "connecting"] /\ socket' = l
                            /\ cut' = cut \ {l} /\ up' = [up EXCEPT ![l] = <<>>]
                            /\ retrying' = retrying
    BY <1>7 DEF Dials, Mishap, Unused
  <2>2. /\ dialing' \in 0 .. MaxDials
        /\ mishaps' \in 0 .. MaxMishaps
    BY <1>7, <1>dialing, <1>mishaps, ProbeAssumption DEF Dials, Mishap, ProbeAssumption
  <2>3. /\ ready' \in [Links -> {"connecting", "open", "closed"}]
        /\ socket' \in Links \cup {Nobody}
        /\ cut' \in SUBSET Links
        /\ retrying' \in BOOLEAN
    BY <2>1, <1>ready, <1>socket, <1>cut, <1>retrying
  <2>4. up' \in [Links -> Seq(Calls \cup {Hello})]
    <3>1. <<>> \in Seq(Calls \cup {Hello})
      OBVIOUS
    <3>2. up' = up \/ \E l \in Links : up' = [up EXCEPT ![l] = <<>>]
      BY <2>1
    <3> QED BY <3>1, <3>2, <1>up
  <2>5. UNCHANGED <<listening, attached, session, waits, call, via, future, outcome, down,
                    awake, asked, handling, replied>>
    BY <1>7 DEF Dials, Mishap, Unused
  <2> QED BY <2>2, <2>3, <2>4, <2>5 DEF ProbeTypeOK
<1>8. ASSUME NEW l \in Links, Accepts(l) PROVE ProbeTypeOK'
  BY <1>8 DEF Accepts, ProbeTypeOK
<1>9. ASSUME NEW l \in Links, Greets(l) PROVE ProbeTypeOK'
  <2>1. \/ /\ attached' = l /\ session' = [session EXCEPT ![l] = "attached"] /\ cut' = cut
        \/ /\ attached' = attached /\ session' = [session EXCEPT ![l] = "none"]
           /\ cut' = cut \cup {l}
    BY <1>9 DEF Greets
  <2>2. /\ attached' \in Links \cup {Nobody}
        /\ session' \in [Links -> {"none", "greeting", "attached", "leaving"}]
        /\ cut' \in SUBSET Links
    BY <2>1, <1>attached, <1>session, <1>cut
  <2>3. up' \in [Links -> Seq(Calls \cup {Hello})]
    <3>1. Tail(up[l]) \in Seq(Calls \cup {Hello})
      BY <1>9, <1>up DEF Greets
    <3>2. up' = [up EXCEPT ![l] = Tail(up[l])]
      BY <1>9 DEF Greets
    <3> QED BY <3>1, <3>2, <1>up
  <2>4. UNCHANGED <<listening, waits, call, via, future, outcome, down, awake, ready, socket,
                    asked, dialing, retrying, handling, replied, mishaps>>
    BY <1>9 DEF Greets
  <2> QED BY <2>2, <2>3, <2>4 DEF ProbeTypeOK
<1>10. ASSUME NEW l \in Links, GreetFails(l) PROVE ProbeTypeOK'
  <2>1. mishaps' \in 0 .. MaxMishaps
    BY <1>10, <1>mishaps, ProbeAssumption DEF GreetFails, Mishap, ProbeAssumption
  <2>2. /\ session' \in [Links -> {"none", "greeting", "attached", "leaving"}]
        /\ cut' \in SUBSET Links
    BY <1>10, <1>session, <1>cut DEF GreetFails
  <2>3. UNCHANGED <<listening, attached, waits, call, via, future, outcome, down, up, awake,
                    ready, socket, asked, dialing, retrying, handling, replied>>
    BY <1>10 DEF GreetFails, Mishap
  <2> QED BY <2>1, <2>2, <2>3 DEF ProbeTypeOK
<1>11. ASSUME NEW l \in Links, Receives(l) PROVE ProbeTypeOK'
  <2>1. /\ waits' = [waits EXCEPT ![l] = @ \ {Head(up[l])}]
        /\ future' = future \/ future' = [future EXCEPT ![Head(up[l])] = "set"]
    BY <1>11 DEF Receives
  <2>2. waits' \in [Links -> SUBSET Calls]
    BY <2>1, <1>waits
  <2>3. future' \in [Calls -> {"open", "set", "failed", "cancelled"}]
    BY <2>1, <1>future
  <2>4. up' \in [Links -> Seq(Calls \cup {Hello})]
    <3>1. Tail(up[l]) \in Seq(Calls \cup {Hello})
      BY <1>11, <1>up DEF Receives
    <3>2. up' = [up EXCEPT ![l] = Tail(up[l])]
      BY <1>11 DEF Receives
    <3> QED BY <3>1, <3>2, <1>up
  <2>5. UNCHANGED <<listening, attached, session, call, via, outcome, cut, down, awake, ready,
                    socket, asked, dialing, retrying, handling, replied, mishaps>>
    BY <1>11 DEF Receives
  <2> QED BY <2>2, <2>3, <2>4, <2>5 DEF ProbeTypeOK
<1>12. ASSUME NEW l \in Links, EndsSession(l) PROVE ProbeTypeOK'
  BY <1>12 DEF EndsSession, ProbeTypeOK
<1>13. ASSUME NEW l \in Links, CleansUp(l) PROVE ProbeTypeOK'
  BY <1>13 DEF CleansUp, FailsWaiters, Detached, ProbeTypeOK
<1>14. ASSUME NEW l \in Links, SaysHello(l) PROVE ProbeTypeOK'
  <2>1. ready' \in [Links -> {"connecting", "open", "closed"}]
    BY <1>14, <1>ready DEF SaysHello
  <2>2. up' \in [Links -> Seq(Calls \cup {Hello})]
    <3>1. Append(up[l], Hello) \in Seq(Calls \cup {Hello})
      BY <1>up
    <3>2. up' = [up EXCEPT ![l] = Append(up[l], Hello)]
      BY <1>14 DEF SaysHello
    <3> QED BY <3>1, <3>2, <1>up
  <2>3. UNCHANGED <<listening, attached, session, waits, call, via, future, outcome, cut, down,
                    awake, socket, asked, dialing, retrying, handling, replied, mishaps>>
    BY <1>14 DEF SaysHello
  <2> QED BY <2>1, <2>2, <2>3 DEF ProbeTypeOK
<1>15. ASSUME NEW l \in Links, HearsEnd(l) PROVE ProbeTypeOK'
  <2>1. /\ ready' \in [Links -> {"connecting", "open", "closed"}]
        /\ socket' \in Links \cup {Nobody}
        /\ retrying' \in BOOLEAN
        /\ handling' \in SUBSET Calls
    BY <1>15, <1>ready, <1>socket, <1>retrying, <1>handling DEF HearsEnd
  <2>2. down' \in [Links -> Seq(Calls)]
    BY <1>15, <1>down DEF HearsEnd
  <2>3. UNCHANGED <<listening, attached, session, waits, call, via, future, outcome, cut, up,
                    awake, asked, dialing, replied, mishaps>>
    BY <1>15 DEF HearsEnd
  <2> QED BY <2>1, <2>2, <2>3 DEF ProbeTypeOK
<1>16. ASSUME NEW l \in Links, Handles(l) PROVE ProbeTypeOK'
  <2>1. /\ down' \in [Links -> Seq(Calls)]
        /\ handling' \in SUBSET Calls
    <3>1. Head(down[l]) \in Calls /\ Tail(down[l]) \in Seq(Calls)
      BY <1>16, <1>down DEF Handles
    <3>2. down' = [down EXCEPT ![l] = Tail(down[l])] /\ handling' = handling \cup {Head(down[l])}
      BY <1>16 DEF Handles
    <3> QED BY <3>1, <3>2, <1>down, <1>handling
  <2>2. UNCHANGED <<listening, attached, session, waits, call, via, future, outcome, cut, up,
                    awake, ready, socket, asked, dialing, retrying, replied, mishaps>>
    BY <1>16 DEF Handles
  <2> QED BY <2>1, <2>2 DEF ProbeTypeOK
<1>17. ASSUME NEW l \in Links, Breaks(l) PROVE ProbeTypeOK'
  <2>1. mishaps' \in 0 .. MaxMishaps
    BY <1>17, <1>mishaps, ProbeAssumption DEF Breaks, Mishap, ProbeAssumption
  <2>2. cut' \in SUBSET Links
    BY <1>17, <1>cut DEF Breaks, Mishap
  <2>3. UNCHANGED <<listening, attached, session, waits, call, via, future, outcome, down, up,
                    awake, ready, socket, asked, dialing, retrying, handling, replied>>
    BY <1>17 DEF Breaks, Mishap
  <2> QED BY <2>1, <2>2, <2>3 DEF ProbeTypeOK
<1>18. ASSUME NEW c \in Calls, Registers(c) PROVE ProbeTypeOK'
  <2>1. \/ /\ attached = Nobody /\ call' = [call EXCEPT ![c] = "returned"]
           /\ outcome' = [outcome EXCEPT ![c] = "refused"] /\ UNCHANGED <<via, waits>>
        \/ /\ attached # Nobody /\ call' = [call EXCEPT ![c] = "sending"]
           /\ via' = [via EXCEPT ![c] = attached] /\ outcome' = outcome
           /\ waits' = [waits EXCEPT ![attached] = @ \cup {c}]
    BY <1>18 DEF Registers, Returns
  <2>2. /\ waits' \in [Links -> SUBSET Calls]
        /\ via' \in [Calls -> Links \cup {Nobody}]
    BY <2>1, <1>waits, <1>via, <1>attached
  <2>3. /\ call' \in [Calls -> {"idle", "sending", "waiting", "returned"}]
        /\ outcome' \in [Calls -> {"none", "answer", "refused", "closed", "timeout"}]
    BY <2>1, <1>call, <1>outcome
  <2>4. UNCHANGED <<listening, attached, session, future, cut, down, up, awake, ready, socket,
                    asked, dialing, retrying, handling, replied, mishaps>>
    BY <1>18 DEF Registers, Returns
  <2> QED BY <2>2, <2>3, <2>4 DEF ProbeTypeOK
<1>19. ASSUME NEW c \in Calls, Transmits(c) PROVE ProbeTypeOK'
  <2>1. /\ \/ waits' = waits \/ waits' = [waits EXCEPT ![via[c]] = @ \ {c}]
        /\ \/ call' = [call EXCEPT ![c] = "waiting"] /\ outcome' = outcome
           \/ /\ call' = [call EXCEPT ![c] = "returned"]
              /\ outcome' = [outcome EXCEPT ![c] = "closed"]
        /\ \/ down' = down
           \/ down' = [down EXCEPT ![via[c]] = Append(@, c)]
    BY <1>19 DEF Transmits, Returns
  <2>2. waits' \in [Links -> SUBSET Calls]
    BY <2>1, <1>waits
  <2>3. /\ call' \in [Calls -> {"idle", "sending", "waiting", "returned"}]
        /\ outcome' \in [Calls -> {"none", "answer", "refused", "closed", "timeout"}]
    BY <2>1, <1>call, <1>outcome
  <2>4. down' \in [Links -> Seq(Calls)]
    <3>1. \A l \in Links : Append(down[l], c) \in Seq(Calls)
      BY <1>down
    <3>2. CASE down' = down
      BY <3>2, <1>down
    <3>3. CASE down' = [down EXCEPT ![via[c]] = Append(@, c)]
      <4>1. \A l \in Links : down'[l] = IF l = via[c] THEN Append(down[l], c) ELSE down[l]
        BY <3>3, <1>down
      <4>2. \A l \in Links : down'[l] \in Seq(Calls)
        BY <3>1, <4>1, <1>down
      <4> QED BY <3>3, <4>2, <1>down
    <3> QED BY <2>1, <3>2, <3>3
  <2>5. UNCHANGED <<listening, attached, session, via, future, cut, up, awake, ready, socket,
                    asked, dialing, retrying, handling, replied, mishaps>>
    BY <1>19 DEF Transmits, Returns
  <2> QED BY <2>2, <2>3, <2>4, <2>5 DEF ProbeTypeOK
<1>20. ASSUME NEW c \in Calls, Resolves(c) PROVE ProbeTypeOK'
  BY <1>20 DEF Resolves, Returns, ProbeTypeOK
<1>21. ASSUME NEW c \in Calls, TimesOutWaiting(c) PROVE ProbeTypeOK'
  <2>1. /\ call' \in [Calls -> {"idle", "sending", "waiting", "returned"}]
        /\ outcome' \in [Calls -> {"none", "answer", "refused", "closed", "timeout"}]
    BY <1>21, <1>call, <1>outcome DEF TimesOutWaiting, Returns
  <2>2. /\ future' \in [Calls -> {"open", "set", "failed", "cancelled"}]
        /\ waits' \in [Links -> SUBSET Calls]
    BY <1>21, <1>future, <1>waits DEF TimesOutWaiting, Returns
  <2>3. UNCHANGED <<listening, attached, session, via, cut, down, up, awake, ready, socket,
                    asked, dialing, retrying, handling, replied, mishaps>>
    BY <1>21 DEF TimesOutWaiting, Returns
  <2> QED BY <2>1, <2>2, <2>3 DEF ProbeTypeOK
<1>22. ASSUME NEW c \in Calls, AgentGoes(c) PROVE ProbeTypeOK'
  BY <1>22 DEF AgentGoes, Returns, ProbeTypeOK
<1>23. ASSUME NEW c \in Calls, Replies(c) PROVE ProbeTypeOK'
  <2>1. handling' \in SUBSET Calls
    BY <1>23, <1>handling DEF Replies, ReplySocket
  <2>2. /\ up' \in [Links -> Seq(Calls \cup {Hello})]
        /\ replied' \in SUBSET Calls
    <3>1. \A l \in Links : Append(up[l], c) \in Seq(Calls \cup {Hello})
      BY <1>up
    <3>2. \/ up' = up /\ replied' = replied
          \/ /\ up' = [up EXCEPT ![via[c]] = Append(@, c)] /\ replied' = replied \cup {c}
      BY <1>23 DEF Replies, ReplySocket
    <3> QED BY <3>1, <3>2, <1>up, <1>replied
  <2>3. UNCHANGED <<listening, attached, session, waits, call, via, future, outcome, cut, down,
                    awake, ready, socket, asked, dialing, retrying, mishaps>>
    BY <1>23 DEF Replies, ReplySocket
  <2> QED BY <2>1, <2>2, <2>3 DEF ProbeTypeOK
<1>24. CASE UNCHANGED probeVars
  BY <1>24 DEF probeVars, ProbeTypeOK
<1> QED
  BY <1>1, <1>2, <1>3, <1>4, <1>5, <1>6, <1>7, <1>8, <1>9, <1>10, <1>11, <1>12, <1>13,
     <1>14, <1>15, <1>16, <1>17, <1>18, <1>19, <1>20, <1>21, <1>22, <1>23, <1>24
     DEF ProbeNext, LinkSteps, CallSteps

\* The two ends of the links.
LEMMA LinksAgreeStep ==
    ASSUME ProbeTypeOK, LinksAgree, RequestsBelong, [ProbeNext]_probeVars
    PROVE  LinksAgree'
<1> USE DEF serverVars, callVars, workerVars, wires
<1> USE ProbeAssumption DEF ProbeAssumption
<1>up. up \in [Links -> Seq(Calls \cup {Hello})]
  BY DEF ProbeTypeOK
<1>ready. ready \in [Links -> {"connecting", "open", "closed"}]
  BY DEF ProbeTypeOK
<1>1. CASE ServerStarts
  BY <1>1 DEF ServerStarts, ProbeTypeOK, LinksAgree, LinkAgrees
<1>2. CASE ServerStops
  BY <1>2 DEF ServerStops, Mishap, ProbeTypeOK, LinksAgree, LinkAgrees
<1>3. CASE Wakes
  BY <1>3 DEF Wakes, ProbeTypeOK, LinksAgree, LinkAgrees
<1>4. CASE Dies
  BY <1>4 DEF Dies, Mishap, ProbeTypeOK, LinksAgree, LinkAgrees
<1>5. CASE Retries
  BY <1>5 DEF Retries, ProbeTypeOK, LinksAgree, LinkAgrees
<1>6. CASE Checks
  BY <1>6 DEF Checks, ProbeTypeOK, LinksAgree, LinkAgrees
<1>7. CASE Dials
  BY <1>7 DEF Dials, Mishap, Unused, ProbeTypeOK, LinksAgree, LinkAgrees
<1>8. ASSUME NEW l \in Links, Accepts(l) PROVE LinksAgree'
  BY <1>8 DEF Accepts, ProbeTypeOK, LinksAgree, LinkAgrees
<1>9. ASSUME NEW l \in Links, Greets(l) PROVE LinksAgree'
  BY <1>9 DEF Greets, ProbeTypeOK, LinksAgree, LinkAgrees
<1>10. ASSUME NEW l \in Links, GreetFails(l) PROVE LinksAgree'
  BY <1>10 DEF GreetFails, Mishap, ProbeTypeOK, LinksAgree, LinkAgrees
<1>11. ASSUME NEW l \in Links, Receives(l) PROVE LinksAgree'
  BY <1>11 DEF Receives, ProbeTypeOK, LinksAgree, LinkAgrees
<1>12. ASSUME NEW l \in Links, EndsSession(l) PROVE LinksAgree'
  BY <1>12 DEF EndsSession, ProbeTypeOK, LinksAgree, LinkAgrees
<1>13. ASSUME NEW l \in Links, CleansUp(l) PROVE LinksAgree'
  BY <1>13 DEF CleansUp, FailsWaiters, Detached, ProbeTypeOK, LinksAgree, LinkAgrees
<1>14. ASSUME NEW l \in Links, SaysHello(l) PROVE LinksAgree'
  <2>1. up[l] = <<>> /\ session[l] = "greeting"
    BY <1>14 DEF SaysHello, LinksAgree, LinkAgrees
  <2>2. up'[l] = <<Hello>> /\ \A k \in Links \ {l} : up'[k] = up[k]
    BY <1>14, <2>1, <1>up DEF SaysHello
  <2>3. /\ ready' = [ready EXCEPT ![l] = "open"]
        /\ session' = session /\ attached' = attached /\ cut' = cut
    BY <1>14 DEF SaysHello
  <2>4. ASSUME NEW k \in Links PROVE LinkAgrees(k)'
    BY <2>1, <2>2, <2>3, <1>ready DEF LinksAgree, LinkAgrees
  <2> QED BY <2>4 DEF LinksAgree
<1>15. ASSUME NEW l \in Links, HearsEnd(l) PROVE LinksAgree'
  BY <1>15 DEF HearsEnd, ProbeTypeOK, LinksAgree, LinkAgrees
<1>16. ASSUME NEW l \in Links, Handles(l) PROVE LinksAgree'
  BY <1>16 DEF Handles, ProbeTypeOK, LinksAgree, LinkAgrees
<1>17. ASSUME NEW l \in Links, Breaks(l) PROVE LinksAgree'
  BY <1>17 DEF Breaks, Mishap, ProbeTypeOK, LinksAgree, LinkAgrees
<1>18. ASSUME NEW c \in Calls, Registers(c) PROVE LinksAgree'
  BY <1>18 DEF Registers, Returns, ProbeTypeOK, LinksAgree, LinkAgrees
<1>19. ASSUME NEW c \in Calls, Transmits(c) PROVE LinksAgree'
  BY <1>19 DEF Transmits, Returns, ProbeTypeOK, LinksAgree, LinkAgrees
<1>20. ASSUME NEW c \in Calls, Resolves(c) PROVE LinksAgree'
  BY <1>20 DEF Resolves, Returns, ProbeTypeOK, LinksAgree, LinkAgrees
<1>21. ASSUME NEW c \in Calls, TimesOutWaiting(c) PROVE LinksAgree'
  BY <1>21 DEF TimesOutWaiting, Returns, ProbeTypeOK, LinksAgree, LinkAgrees
<1>22. ASSUME NEW c \in Calls, AgentGoes(c) PROVE LinksAgree'
  BY <1>22 DEF AgentGoes, Returns, ProbeTypeOK, LinksAgree, LinkAgrees
<1>23. ASSUME NEW c \in Calls, Replies(c) PROVE LinksAgree'
  <2>1. session' = session /\ attached' = attached /\ cut' = cut /\ ready' = ready
    BY <1>23 DEF Replies, ReplySocket
  <2>2. via[c] \in Links /\ session[via[c]] # "greeting"
    BY <1>23 DEF Replies, RequestsBelong, Carried
  <2>3. \/ up' = up
        \/ ready[via[c]] = "open" /\ up' = [up EXCEPT ![via[c]] = Append(@, c)]
    <3> HIDE ProbeAssumption
    <3> QED BY <1>23 DEF Replies, ReplySocket
  <2>4. \A k \in Links : k # via[c] \/ ready[k] # "open" => up'[k] = up[k]
    BY <2>2, <2>3, <1>up
  <2>5. ASSUME NEW k \in Links PROVE LinkAgrees(k)'
    BY <2>1, <2>2, <2>4 DEF LinksAgree, LinkAgrees
  <2> QED BY <2>5 DEF LinksAgree
<1>24. CASE UNCHANGED probeVars
  BY <1>24 DEF probeVars, ProbeTypeOK, LinksAgree, LinkAgrees
<1> QED
  BY <1>1, <1>2, <1>3, <1>4, <1>5, <1>6, <1>7, <1>8, <1>9, <1>10, <1>11, <1>12, <1>13,
     <1>14, <1>15, <1>16, <1>17, <1>18, <1>19, <1>20, <1>21, <1>22, <1>23, <1>24
     DEF ProbeNext, LinkSteps, CallSteps

\* The requests on their way.
LEMMA RequestsBelongStep ==
    ASSUME ProbeTypeOK, LinksAgree, RequestsBelong, [ProbeNext]_probeVars
    PROVE  RequestsBelong'
<1> USE DEF serverVars, callVars, workerVars, wires
<1> USE ProbeAssumption DEF ProbeAssumption
<1>attached. attached \in Links \cup {Nobody}
  BY DEF ProbeTypeOK
<1>call. call \in [Calls -> {"idle", "sending", "waiting", "returned"}]
  BY DEF ProbeTypeOK
<1>via. via \in [Calls -> Links \cup {Nobody}]
  BY DEF ProbeTypeOK
<1>down. down \in [Links -> Seq(Calls)]
  BY DEF ProbeTypeOK
<1>handling. handling \in SUBSET Calls
  BY DEF ProbeTypeOK
<1>replied. replied \in SUBSET Calls
  BY DEF ProbeTypeOK
<1>1. CASE ServerStarts
  BY <1>1 DEF ServerStarts, ProbeTypeOK, LinksAgree, LinkAgrees, RequestsBelong, Carried
<1>2. CASE ServerStops
  BY <1>2 DEF ServerStops, Mishap, ProbeTypeOK, LinksAgree, LinkAgrees, RequestsBelong, Carried
<1>3. CASE Wakes
  BY <1>3 DEF Wakes, ProbeTypeOK, LinksAgree, LinkAgrees, RequestsBelong, Carried
<1>4. CASE Dies
  BY <1>4 DEF Dies, Mishap, ProbeTypeOK, LinksAgree, LinkAgrees, RequestsBelong, Carried
<1>5. CASE Retries
  BY <1>5 DEF Retries, ProbeTypeOK, LinksAgree, LinkAgrees, RequestsBelong, Carried
<1>6. CASE Checks
  BY <1>6 DEF Checks, ProbeTypeOK, LinksAgree, LinkAgrees, RequestsBelong, Carried
<1>7. CASE Dials
  BY <1>7
     DEF Dials, Mishap, Unused, ProbeTypeOK, LinksAgree, LinkAgrees, RequestsBelong, Carried
<1>8. ASSUME NEW l \in Links, Accepts(l) PROVE RequestsBelong'
  BY <1>8 DEF Accepts, ProbeTypeOK, LinksAgree, LinkAgrees, RequestsBelong, Carried
<1>9. ASSUME NEW l \in Links, Greets(l) PROVE RequestsBelong'
  BY <1>9 DEF Greets, ProbeTypeOK, LinksAgree, LinkAgrees, RequestsBelong, Carried
<1>10. ASSUME NEW l \in Links, GreetFails(l) PROVE RequestsBelong'
  BY <1>10 DEF GreetFails, Mishap, ProbeTypeOK, LinksAgree, LinkAgrees, RequestsBelong, Carried
<1>11. ASSUME NEW l \in Links, Receives(l) PROVE RequestsBelong'
  BY <1>11 DEF Receives, ProbeTypeOK, LinksAgree, LinkAgrees, RequestsBelong, Carried
<1>12. ASSUME NEW l \in Links, EndsSession(l) PROVE RequestsBelong'
  BY <1>12 DEF EndsSession, ProbeTypeOK, LinksAgree, LinkAgrees, RequestsBelong, Carried
<1>13. ASSUME NEW l \in Links, CleansUp(l) PROVE RequestsBelong'
  BY <1>13
     DEF CleansUp, FailsWaiters, Detached, ProbeTypeOK, LinksAgree, LinkAgrees, RequestsBelong,
         Carried
<1>14. ASSUME NEW l \in Links, SaysHello(l) PROVE RequestsBelong'
  BY <1>14 DEF SaysHello, ProbeTypeOK, LinksAgree, LinkAgrees, RequestsBelong, Carried
<1>15. ASSUME NEW l \in Links, HearsEnd(l) PROVE RequestsBelong'
  BY <1>15 DEF HearsEnd, ProbeTypeOK, LinksAgree, LinkAgrees, RequestsBelong, Carried
<1>16. ASSUME NEW l \in Links, Handles(l) PROVE RequestsBelong'
  BY <1>16 DEF Handles, ProbeTypeOK, LinksAgree, LinkAgrees, RequestsBelong, Carried
<1>17. ASSUME NEW l \in Links, Breaks(l) PROVE RequestsBelong'
  BY <1>17 DEF Breaks, Mishap, ProbeTypeOK, LinksAgree, LinkAgrees, RequestsBelong, Carried
<1>18. ASSUME NEW c \in Calls, Registers(c) PROVE RequestsBelong'
  <2>1. \/ attached = Nobody /\ call' = [call EXCEPT ![c] = "returned"] /\ via' = via
        \/ /\ attached # Nobody /\ call' = [call EXCEPT ![c] = "sending"]
           /\ via' = [via EXCEPT ![c] = attached]
    BY <1>18 DEF Registers, Returns
  <2>2. call[c] = "idle" /\ UNCHANGED <<session, down, ready, handling, replied>>
    BY <1>18 DEF Registers, Returns
  <2>3. /\ \A d \in Calls \ {c} : call'[d] = call[d] /\ via'[d] = via[d]
        /\ call'[c] \in {"sending", "waiting"} => via'[c] \in Links
    BY <2>1, <1>call, <1>via, <1>attached
  <2>4. ASSUME NEW d \in Calls, NEW l \in Links, Carried(d, l) PROVE Carried(d, l)'
    BY <2>2, <2>3, <2>4 DEF Carried
  <2>5. ASSUME NEW l \in Links, NEW i \in 1 .. Len(down[l])
        PROVE  down[l][i] \in Calls /\ Carried(down[l][i], l)
    BY <1>down DEF RequestsBelong
  <2>6. \A d \in handling \cup replied : d \in Calls \ {c}
    BY <2>2, <1>handling, <1>replied DEF RequestsBelong, Carried
  <2>7. \A l \in Links : \A i \in 1 .. Len(down'[l]) : Carried(down[l][i], l)'
    BY <2>2, <2>4, <2>5 DEF Carried
  <2>8. \A d \in handling' : via'[d] \in Links /\ Carried(d, via[d])'
    BY <2>2, <2>3, <2>6 DEF RequestsBelong, Carried
  <2> QED BY <2>2, <2>3, <2>6, <2>7, <2>8 DEF RequestsBelong, Carried
<1>19. ASSUME NEW c \in Calls, Transmits(c) PROVE RequestsBelong'
  <2>1. /\ call[c] = "sending" /\ UNCHANGED <<via, session, ready, handling, replied>>
        /\ \/ call' = [call EXCEPT ![c] = "waiting"] \/ call' = [call EXCEPT ![c] = "returned"]
    BY <1>19 DEF Transmits, Returns
  <2>2. \/ down' = down
        \/ /\ down' = [down EXCEPT ![via[c]] = Append(@, c)]
           /\ session[via[c]] = "attached" /\ via[c] \notin cut
    BY <1>19 DEF Transmits, Returns
  <2>3. via[c] \in Links /\ call'[c] \in {"waiting", "returned"}
        /\ \A d \in Calls \ {c} : call'[d] = call[d]
    BY <2>1, <1>call DEF RequestsBelong
  <2>4. ASSUME NEW d \in Calls, NEW l \in Links, Carried(d, l) PROVE Carried(d, l)'
    BY <2>1, <2>3, <2>4 DEF Carried
  <2>5. ASSUME NEW l \in Links, NEW i \in 1 .. Len(down[l])
        PROVE  down[l][i] \in Calls /\ Carried(down[l][i], l)
    BY <1>down DEF RequestsBelong
  <2>6. ASSUME NEW l \in Links, NEW i \in 1 .. Len(down'[l]) PROVE Carried(down[l][i], l)'
    <3>1. CASE down'[l] = down[l]
      BY <2>4, <2>5, <3>1 DEF Carried
    <3>2. CASE down'[l] # down[l]
      <4>1. /\ l = via[c] /\ down'[l] = Append(down[l], c) /\ down[l] \in Seq(Calls)
            /\ session[l] = "attached" /\ l \notin cut
        BY <2>2, <2>3, <3>2, <1>down
      <4>2. Carried(c, l)'
        BY <2>1, <2>3, <4>1 DEF Carried, LinksAgree, LinkAgrees
      <4>3. \/ down'[l][i] = c
            \/ i \in 1 .. Len(down[l]) /\ down'[l][i] = down[l][i]
        BY <4>1, AppendKeeps
      <4> QED BY <2>4, <2>5, <4>2, <4>3 DEF Carried
    <3> QED BY <3>1, <3>2
  <2>7. \A d \in handling' \cup replied' : d \in Calls
    BY <2>1, <1>handling, <1>replied
  <2> QED BY <2>1, <2>3, <2>4, <2>6, <2>7 DEF RequestsBelong, Carried
<1>20. ASSUME NEW c \in Calls, Resolves(c) PROVE RequestsBelong'
  BY <1>20 DEF Resolves, Returns, ProbeTypeOK, LinksAgree, LinkAgrees, RequestsBelong, Carried
<1>21. ASSUME NEW c \in Calls, TimesOutWaiting(c) PROVE RequestsBelong'
  BY <1>21
     DEF TimesOutWaiting, Returns, ProbeTypeOK, LinksAgree, LinkAgrees, RequestsBelong, Carried
<1>22. ASSUME NEW c \in Calls, AgentGoes(c) PROVE RequestsBelong'
  BY <1>22 DEF AgentGoes, Returns, ProbeTypeOK, LinksAgree, LinkAgrees, RequestsBelong, Carried
<1>23. ASSUME NEW c \in Calls, Replies(c) PROVE RequestsBelong'
  BY <1>23
     DEF Replies, ReplySocket, ProbeTypeOK, LinksAgree, LinkAgrees, RequestsBelong, Carried
<1>24. CASE UNCHANGED probeVars
  BY <1>24 DEF probeVars, ProbeTypeOK, LinksAgree, LinkAgrees, RequestsBelong, Carried
<1> QED
  BY <1>1, <1>2, <1>3, <1>4, <1>5, <1>6, <1>7, <1>8, <1>9, <1>10, <1>11, <1>12, <1>13,
     <1>14, <1>15, <1>16, <1>17, <1>18, <1>19, <1>20, <1>21, <1>22, <1>23, <1>24
     DEF ProbeNext, LinkSteps, CallSteps

\* The calls that wait.
LEMMA WaitersStep ==
    ASSUME ProbeTypeOK, LinksAgree, RequestsBelong, NobodyWaitsForTheGone, [ProbeNext]_probeVars
    PROVE  NobodyWaitsForTheGone'
<1> USE DEF serverVars, callVars, workerVars, wires
<1> USE ProbeAssumption DEF ProbeAssumption
<1>attached. attached \in Links \cup {Nobody}
  BY DEF ProbeTypeOK
<1>session. session \in [Links -> {"none", "greeting", "attached", "leaving"}]
  BY DEF ProbeTypeOK
<1>call. call \in [Calls -> {"idle", "sending", "waiting", "returned"}]
  BY DEF ProbeTypeOK
<1>via. via \in [Calls -> Links \cup {Nobody}]
  BY DEF ProbeTypeOK
<1>waits. waits \in [Links -> SUBSET Calls]
  BY DEF ProbeTypeOK
<1>1. CASE ServerStarts
  BY <1>1 DEF ServerStarts, ProbeTypeOK, LinksAgree, LinkAgrees, NobodyWaitsForTheGone
<1>2. CASE ServerStops
  BY <1>2 DEF ServerStops, Mishap, ProbeTypeOK, LinksAgree, LinkAgrees, NobodyWaitsForTheGone
<1>3. CASE Wakes
  BY <1>3 DEF Wakes, ProbeTypeOK, LinksAgree, LinkAgrees, NobodyWaitsForTheGone
<1>4. CASE Dies
  BY <1>4 DEF Dies, Mishap, ProbeTypeOK, LinksAgree, LinkAgrees, NobodyWaitsForTheGone
<1>5. CASE Retries
  BY <1>5 DEF Retries, ProbeTypeOK, LinksAgree, LinkAgrees, NobodyWaitsForTheGone
<1>6. CASE Checks
  BY <1>6 DEF Checks, ProbeTypeOK, LinksAgree, LinkAgrees, NobodyWaitsForTheGone
<1>7. CASE Dials
  BY <1>7 DEF Dials, Mishap, Unused, ProbeTypeOK, LinksAgree, LinkAgrees, NobodyWaitsForTheGone
<1>8. ASSUME NEW l \in Links, Accepts(l) PROVE NobodyWaitsForTheGone'
  BY <1>8 DEF Accepts, ProbeTypeOK, LinksAgree, LinkAgrees, NobodyWaitsForTheGone
<1>9. ASSUME NEW l \in Links, Greets(l) PROVE NobodyWaitsForTheGone'
  <2>1. session[l] = "greeting" /\ UNCHANGED <<call, future, via, waits>>
    BY <1>9 DEF Greets
  <2>2. \A k \in Links \ {l} : session'[k] = session[k]
    BY <1>9, <1>session DEF Greets
  <2> QED BY <2>1, <2>2 DEF NobodyWaitsForTheGone, RequestsBelong
<1>10. ASSUME NEW l \in Links, GreetFails(l) PROVE NobodyWaitsForTheGone'
  BY <1>10 DEF GreetFails, Mishap, ProbeTypeOK, LinksAgree, LinkAgrees, NobodyWaitsForTheGone
<1>11. ASSUME NEW l \in Links, Receives(l) PROVE NobodyWaitsForTheGone'
  BY <1>11 DEF Receives, ProbeTypeOK, LinksAgree, LinkAgrees, NobodyWaitsForTheGone
<1>12. ASSUME NEW l \in Links, EndsSession(l) PROVE NobodyWaitsForTheGone'
  BY <1>12 DEF EndsSession, ProbeTypeOK, LinksAgree, LinkAgrees, NobodyWaitsForTheGone
<1>13. ASSUME NEW l \in Links, CleansUp(l) PROVE NobodyWaitsForTheGone'
  BY <1>13
     DEF CleansUp, FailsWaiters, Detached, ProbeTypeOK, LinksAgree, LinkAgrees,
         NobodyWaitsForTheGone
<1>14. ASSUME NEW l \in Links, SaysHello(l) PROVE NobodyWaitsForTheGone'
  BY <1>14 DEF SaysHello, ProbeTypeOK, LinksAgree, LinkAgrees, NobodyWaitsForTheGone
<1>15. ASSUME NEW l \in Links, HearsEnd(l) PROVE NobodyWaitsForTheGone'
  BY <1>15 DEF HearsEnd, ProbeTypeOK, LinksAgree, LinkAgrees, NobodyWaitsForTheGone
<1>16. ASSUME NEW l \in Links, Handles(l) PROVE NobodyWaitsForTheGone'
  BY <1>16 DEF Handles, ProbeTypeOK, LinksAgree, LinkAgrees, NobodyWaitsForTheGone
<1>17. ASSUME NEW l \in Links, Breaks(l) PROVE NobodyWaitsForTheGone'
  BY <1>17 DEF Breaks, Mishap, ProbeTypeOK, LinksAgree, LinkAgrees, NobodyWaitsForTheGone
<1>18. ASSUME NEW c \in Calls, Registers(c) PROVE NobodyWaitsForTheGone'
  <2>1. \/ attached = Nobody /\ call' = [call EXCEPT ![c] = "returned"] /\ UNCHANGED <<via,
                                                                                       waits>>
        \/ /\ attached # Nobody /\ call' = [call EXCEPT ![c] = "sending"]
           /\ via' = [via EXCEPT ![c] = attached]
           /\ waits' = [waits EXCEPT ![attached] = @ \cup {c}]
    BY <1>18 DEF Registers, Returns
  <2>2. UNCHANGED <<session, future>>
    BY <1>18 DEF Registers, Returns
  <2>3. /\ \A d \in Calls \ {c} : call'[d] = call[d] /\ via'[d] = via[d]
        /\ \A l \in Links : waits[l] \subseteq waits'[l]
    BY <2>1, <1>call, <1>via, <1>waits
  <2>4. call'[c] = "sending" => /\ via'[c] \in Links /\ c \in waits'[via'[c]]
                              /\ session[via'[c]] \in {"attached", "leaving"}
    BY <2>1, <1>call, <1>via, <1>waits, <1>attached DEF LinksAgree, LinkAgrees
  <2>5. call'[c] \in {"sending", "returned"}
    BY <2>1, <1>call
  <2> QED BY <2>2, <2>3, <2>4, <2>5 DEF NobodyWaitsForTheGone, RequestsBelong
<1>19. ASSUME NEW c \in Calls, Transmits(c) PROVE NobodyWaitsForTheGone'
  <2>1. call[c] = "sending" /\ UNCHANGED <<future, via, session>>
    BY <1>19 DEF Transmits, Returns
  <2>2. \/ call' = [call EXCEPT ![c] = "waiting"] /\ waits' = waits
        \/ /\ call' = [call EXCEPT ![c] = "returned"]
           /\ waits' = [waits EXCEPT ![via[c]] = @ \ {c}]
    BY <1>19 DEF Transmits, Returns
  <2>3. /\ \A d \in Calls \ {c} : call'[d] = call[d]
        /\ \A l \in Links : waits[l] \ {c} \subseteq waits'[l]
        /\ \/ call'[c] = "waiting" /\ waits' = waits
           \/ call'[c] = "returned"
    BY <2>2, <1>call, <1>waits
  <2> QED BY <2>1, <2>3 DEF NobodyWaitsForTheGone, RequestsBelong
<1>20. ASSUME NEW c \in Calls, Resolves(c) PROVE NobodyWaitsForTheGone'
  BY <1>20 DEF Resolves, Returns, ProbeTypeOK, LinksAgree, LinkAgrees, NobodyWaitsForTheGone
<1>21. ASSUME NEW c \in Calls, TimesOutWaiting(c) PROVE NobodyWaitsForTheGone'
  BY <1>21
     DEF TimesOutWaiting, Returns, ProbeTypeOK, LinksAgree, LinkAgrees, NobodyWaitsForTheGone
<1>22. ASSUME NEW c \in Calls, AgentGoes(c) PROVE NobodyWaitsForTheGone'
  BY <1>22 DEF AgentGoes, Returns, ProbeTypeOK, LinksAgree, LinkAgrees, NobodyWaitsForTheGone
<1>23. ASSUME NEW c \in Calls, Replies(c) PROVE NobodyWaitsForTheGone'
  BY <1>23 DEF Replies, ReplySocket, ProbeTypeOK, LinksAgree, LinkAgrees, NobodyWaitsForTheGone
<1>24. CASE UNCHANGED probeVars
  BY <1>24 DEF probeVars, ProbeTypeOK, LinksAgree, LinkAgrees, NobodyWaitsForTheGone
<1> QED
  BY <1>1, <1>2, <1>3, <1>4, <1>5, <1>6, <1>7, <1>8, <1>9, <1>10, <1>11, <1>12, <1>13,
     <1>14, <1>15, <1>16, <1>17, <1>18, <1>19, <1>20, <1>21, <1>22, <1>23, <1>24
     DEF ProbeNext, LinkSteps, CallSteps

\* The replies on their way.
LEMMA RepliesStep ==
    ASSUME ProbeInv, [ProbeNext]_probeVars
    PROVE  RepliesAreKept'
<1> USE DEF serverVars, callVars, workerVars, wires
<1>call. call \in [Calls -> {"idle", "sending", "waiting", "returned"}]
  BY DEF ProbeInv, ProbeTypeOK
<1>via. via \in [Calls -> Links \cup {Nobody}]
  BY DEF ProbeInv, ProbeTypeOK
<1>future. future \in [Calls -> {"open", "set", "failed", "cancelled"}]
  BY DEF ProbeInv, ProbeTypeOK
<1>up. up \in [Links -> Seq(Calls \cup {Hello})]
  BY DEF ProbeInv, ProbeTypeOK
<1>replied. replied \in SUBSET Calls
  BY DEF ProbeInv, ProbeTypeOK
<1>1. CASE ServerStarts
  BY <1>1 DEF ServerStarts, ProbeInv, ProbeTypeOK, RequestsBelong, RepliesAreKept
<1>2. CASE ServerStops
  BY <1>2 DEF ServerStops, Mishap, ProbeInv, ProbeTypeOK, RequestsBelong, RepliesAreKept
<1>3. CASE Wakes
  BY <1>3 DEF Wakes, ProbeInv, ProbeTypeOK, RequestsBelong, RepliesAreKept
<1>4. CASE Dies
  BY <1>4 DEF Dies, Mishap, ProbeInv, ProbeTypeOK, RequestsBelong, RepliesAreKept
<1>5. CASE Retries
  BY <1>5 DEF Retries, ProbeInv, ProbeTypeOK, RequestsBelong, RepliesAreKept
<1>6. CASE Checks
  BY <1>6 DEF Checks, ProbeInv, ProbeTypeOK, RequestsBelong, RepliesAreKept
<1>7. CASE Dials
  <2>1. UNCHANGED <<replied, call, via, future>>
    BY <1>7 DEF Dials, Mishap, Unused
  <2>2. \/ UNCHANGED <<up, cut>>
        \/ \E l \in Links : /\ \A c \in Calls : via[c] = l => call[c] = "returned"
                            /\ cut' = cut \ {l} /\ up' = [up EXCEPT ![l] = <<>>]
    BY <1>7 DEF Dials, Unused
  <2>3. ASSUME NEW d \in replied
        PROVE  \/ \E i \in 1 .. Len(up'[via[d]]) : up'[via[d]][i] = d
               \/ future[d] # "open" \/ call[d] = "returned" \/ via[d] \in cut'
    <3>1. d \in Calls /\ via[d] \in Links
      BY <1>replied DEF ProbeInv, RequestsBelong
    <3>2. \/ \E i \in 1 .. Len(up[via[d]]) : up[via[d]][i] = d
          \/ future[d] # "open" \/ call[d] = "returned" \/ via[d] \in cut
      BY DEF ProbeInv, RepliesAreKept
    <3>3. \/ call[d] = "returned"
          \/ /\ up'[via[d]] = up[via[d]]
             /\ via[d] \in cut => via[d] \in cut'
      <4>1. CASE UNCHANGED <<up, cut>>
        BY <4>1
      <4>2. CASE ~UNCHANGED <<up, cut>>
        <5>1. PICK l \in Links : /\ \A c \in Calls : via[c] = l => call[c] = "returned"
                                 /\ cut' = cut \ {l} /\ up' = [up EXCEPT ![l] = <<>>]
          BY <2>2, <4>2
        <5>2. via[d] = l \/ up'[via[d]] = up[via[d]]
          BY <3>1, <5>1, <1>up
        <5> QED BY <3>1, <5>1, <5>2
      <4> QED BY <4>1, <4>2
    <3> QED BY <3>2, <3>3
  <2> QED BY <2>1, <2>3 DEF RepliesAreKept
<1>8. ASSUME NEW l \in Links, Accepts(l) PROVE RepliesAreKept'
  BY <1>8 DEF Accepts, ProbeInv, ProbeTypeOK, RequestsBelong, RepliesAreKept
<1>9. ASSUME NEW l \in Links, Greets(l) PROVE RepliesAreKept'
  <2>1. UNCHANGED <<replied, call, via, future>> /\ cut \subseteq cut'
    BY <1>9 DEF Greets
  <2>2. \A k \in Links : \/ up'[k] = up[k]
                        \/ \A d \in Calls : ~\E i \in 1 .. Len(up[k]) : up[k][i] = d
    <3>1. up[l] = <<Hello>>
      BY <1>9 DEF Greets, ProbeInv, LinksAgree, LinkAgrees
    <3>2. \A d \in Calls : ~\E i \in 1 .. Len(up[l]) : up[l][i] = d
      BY <3>1, ProbeAssumption DEF ProbeAssumption
    <3>3. \A k \in Links \ {l} : up'[k] = up[k]
      BY <1>9, <1>up DEF Greets
    <3> QED BY <3>2, <3>3
  <2>3. ASSUME NEW d \in replied
        PROVE  \/ \E i \in 1 .. Len(up'[via[d]]) : up'[via[d]][i] = d
               \/ future[d] # "open" \/ call[d] = "returned" \/ via[d] \in cut'
    <3>1. d \in Calls /\ via[d] \in Links
      BY <1>replied DEF ProbeInv, RequestsBelong
    <3>2. \/ \E i \in 1 .. Len(up[via[d]]) : up[via[d]][i] = d
          \/ future[d] # "open" \/ call[d] = "returned" \/ via[d] \in cut
      BY DEF ProbeInv, RepliesAreKept
    <3> QED BY <2>1, <2>2, <3>1, <3>2
  <2> QED BY <2>1, <2>3 DEF RepliesAreKept
<1>10. ASSUME NEW l \in Links, GreetFails(l) PROVE RepliesAreKept'
  BY <1>10 DEF GreetFails, Mishap, ProbeInv, ProbeTypeOK, RequestsBelong, RepliesAreKept
<1>11. ASSUME NEW l \in Links, Receives(l) PROVE RepliesAreKept'
  <2> DEFINE got == Head(up[l])
  <2>1. /\ UNCHANGED <<replied, call, via, cut>>
        /\ up' = [up EXCEPT ![l] = Tail(@)] /\ up[l] # <<>>
        /\ future' = IF got \in waits[l] /\ future[got] = "open"
                       THEN [future EXCEPT ![got] = "set"] ELSE future
    BY <1>11 DEF Receives
  <2> SUFFICES ASSUME NEW d \in replied, future'[d] = "open", call[d] # "returned", via[d] \notin cut
               PROVE  \E i \in 1 .. Len(up'[via[d]]) : up'[via[d]][i] = d
    BY <2>1 DEF RepliesAreKept
  <2>2. d \in Calls /\ call[d] = "waiting" /\ via[d] \in Links
    BY <1>replied DEF ProbeInv, RequestsBelong
  <2>3. future[d] = "open"
    BY <2>1, <2>2, <1>future
  <2>4. d \in waits[via[d]]
    BY <2>2, <2>3 DEF ProbeInv, NobodyWaitsForTheGone
  <2>5. PICK i \in 1 .. Len(up[via[d]]) : up[via[d]][i] = d
    BY <2>2, <2>3 DEF ProbeInv, RepliesAreKept
  <2>6. CASE via[d] # l
    <3>1. up'[via[d]] = up[via[d]]
      BY <2>1, <2>2, <2>6, <1>up
    <3> QED BY <2>5, <3>1
  <2>7. CASE via[d] = l
    <3>1. got # d
      BY <2>1, <2>2, <2>3, <2>4, <2>7, <1>future
    <3>2. up[l] \in Seq(Calls \cup {Hello}) /\ up'[l] = Tail(up[l]) /\ i # 1
      BY <2>1, <2>5, <2>7, <3>1, <1>up
    <3>3. i - 1 \in 1 .. Len(up'[l]) /\ up'[l][i - 1] = d
      <4>1. up[l] \in Seq(Frames)
        BY <3>2 DEF Frames
      <4>2. i \in 1 .. Len(up[l]) /\ up[l][i] = d
        BY <2>5, <2>7
      <4> QED BY <3>2, <4>1, <4>2, TailKeeps
    <3> QED BY <2>7, <3>3
  <2> QED BY <2>6, <2>7
<1>12. ASSUME NEW l \in Links, EndsSession(l) PROVE RepliesAreKept'
  BY <1>12 DEF EndsSession, ProbeInv, ProbeTypeOK, RequestsBelong, RepliesAreKept
<1>13. ASSUME NEW l \in Links, CleansUp(l) PROVE RepliesAreKept'
  BY <1>13
     DEF CleansUp, FailsWaiters, Detached, ProbeInv, ProbeTypeOK, RequestsBelong, RepliesAreKept
<1>14. ASSUME NEW l \in Links, SaysHello(l) PROVE RepliesAreKept'
  <2>1. UNCHANGED <<replied, call, via, cut, future>>
    BY <1>14 DEF SaysHello
  <2>2. \A k \in Links : up'[k] = up[k] \/ up[k] = <<>>
    BY <1>14, <1>up DEF SaysHello, ProbeInv, LinksAgree, LinkAgrees
  <2>3. ASSUME NEW d \in replied
        PROVE  \/ \E i \in 1 .. Len(up'[via[d]]) : up'[via[d]][i] = d
               \/ future[d] # "open" \/ call[d] = "returned" \/ via[d] \in cut'
    <3>1. d \in Calls /\ via[d] \in Links
      BY <1>replied DEF ProbeInv, RequestsBelong
    <3>2. \/ \E i \in 1 .. Len(up[via[d]]) : up[via[d]][i] = d
          \/ future[d] # "open" \/ call[d] = "returned" \/ via[d] \in cut
      BY DEF ProbeInv, RepliesAreKept
    <3> QED BY <2>1, <2>2, <3>1, <3>2
  <2> QED BY <2>1, <2>3 DEF RepliesAreKept
<1>15. ASSUME NEW l \in Links, HearsEnd(l) PROVE RepliesAreKept'
  BY <1>15 DEF HearsEnd, ProbeInv, ProbeTypeOK, RequestsBelong, RepliesAreKept
<1>16. ASSUME NEW l \in Links, Handles(l) PROVE RepliesAreKept'
  BY <1>16 DEF Handles, ProbeInv, ProbeTypeOK, RequestsBelong, RepliesAreKept
<1>17. ASSUME NEW l \in Links, Breaks(l) PROVE RepliesAreKept'
  BY <1>17 DEF Breaks, Mishap, ProbeInv, ProbeTypeOK, RequestsBelong, RepliesAreKept
<1>18. ASSUME NEW c \in Calls, Registers(c) PROVE RepliesAreKept'
  <2>1. c \notin replied /\ UNCHANGED <<replied, up, cut, future>>
    BY <1>18 DEF Registers, Returns, ProbeInv, RequestsBelong
  <2>2. \A d \in Calls \ {c} : via'[d] = via[d] /\ call'[d] = call[d]
    BY <1>18, <1>call, <1>via DEF Registers, Returns
  <2> QED BY <2>1, <2>2, <1>replied DEF ProbeInv, RepliesAreKept
<1>19. ASSUME NEW c \in Calls, Transmits(c) PROVE RepliesAreKept'
  <2>1. call[c] = "sending" /\ UNCHANGED <<replied, up, via, cut, future>>
    BY <1>19 DEF Transmits, Returns
  <2>2. c \notin replied /\ \A d \in Calls \ {c} : call'[d] = call[d]
    BY <1>19, <2>1, <1>call DEF Transmits, Returns, ProbeInv, RequestsBelong
  <2> QED BY <2>1, <2>2, <1>replied DEF ProbeInv, RepliesAreKept
<1>20. ASSUME NEW c \in Calls, Resolves(c) PROVE RepliesAreKept'
  BY <1>20 DEF Resolves, Returns, ProbeInv, ProbeTypeOK, RequestsBelong, RepliesAreKept
<1>21. ASSUME NEW c \in Calls, TimesOutWaiting(c) PROVE RepliesAreKept'
  BY <1>21 DEF TimesOutWaiting, Returns, ProbeInv, ProbeTypeOK, RequestsBelong, RepliesAreKept
<1>22. ASSUME NEW c \in Calls, AgentGoes(c) PROVE RepliesAreKept'
  BY <1>22 DEF AgentGoes, Returns, ProbeInv, ProbeTypeOK, RequestsBelong, RepliesAreKept
<1>23. ASSUME NEW c \in Calls, Replies(c) PROVE RepliesAreKept'
  <2>1. UNCHANGED <<call, via, cut, future>> /\ c \in handling
    BY <1>23 DEF Replies, ReplySocket
  <2>2. via[c] \in Links /\ ready[via[c]] = "open"
    BY <2>1 DEF ProbeInv, RequestsBelong, Carried
  <2>3. up' = [up EXCEPT ![via[c]] = Append(@, c)] /\ replied' = replied \cup {c}
    BY <1>23, <2>2, ProbeAssumption DEF Replies, ReplySocket, ProbeAssumption
  <2>4. \A k \in Links : /\ up[k] \in Seq(Calls \cup {Hello})
                        /\ up'[k] = IF k = via[c] THEN Append(up[k], c) ELSE up[k]
    BY <2>3, <1>up
  <2>5. ASSUME NEW k \in Links, NEW i \in 1 .. Len(up[k])
        PROVE  i \in 1 .. Len(up'[k]) /\ up'[k][i] = up[k][i]
    <3>1. up[k] \in Seq(Frames) /\ up'[k] = IF k = via[c] THEN Append(up[k], c) ELSE up[k]
      BY <2>4 DEF Frames
    <3>2. c \in Frames
      BY DEF Frames
    <3> QED BY <3>1, <3>2, AppendKeeps
  <2>6. Len(up[via[c]]) + 1 \in 1 .. Len(up'[via[c]]) /\ up'[via[c]][Len(up[via[c]]) + 1] = c
    <3>1. up[via[c]] \in Seq(Frames) /\ up'[via[c]] = Append(up[via[c]], c) /\ c \in Frames
      BY <2>2, <2>4 DEF Frames
    <3> QED BY <3>1, AppendKeeps
  <2>7. ASSUME NEW d \in replied
        PROVE  \/ \E i \in 1 .. Len(up'[via[d]]) : up'[via[d]][i] = d
               \/ future[d] # "open" \/ call[d] = "returned" \/ via[d] \in cut
    <3>1. via[d] \in Links
      BY DEF ProbeInv, RequestsBelong
    <3>2. \/ \E i \in 1 .. Len(up[via[d]]) : up[via[d]][i] = d
          \/ future[d] # "open" \/ call[d] = "returned" \/ via[d] \in cut
      BY DEF ProbeInv, RepliesAreKept
    <3> QED BY <2>5, <3>1, <3>2
  <2> QED BY <2>1, <2>3, <2>6, <2>7 DEF RepliesAreKept
<1>24. CASE UNCHANGED probeVars
  BY <1>24 DEF probeVars, ProbeInv, ProbeTypeOK, RequestsBelong, RepliesAreKept
<1> QED
  BY <1>1, <1>2, <1>3, <1>4, <1>5, <1>6, <1>7, <1>8, <1>9, <1>10, <1>11, <1>12, <1>13,
     <1>14, <1>15, <1>16, <1>17, <1>18, <1>19, <1>20, <1>21, <1>22, <1>23, <1>24
     DEF ProbeNext, LinkSteps, CallSteps

\* The parts together: the inductive invariant of the probe.
THEOREM ProbeInvariant == ProbeSpec => []ProbeInv
<1>1. ProbeInit => ProbeInv
  <2> SUFFICES ASSUME ProbeInit PROVE ProbeInv
    OBVIOUS
  <2>1. ProbeTypeOK
    <3>1. \A l \in Links : down[l] \in Seq(Calls) /\ up[l] \in Seq(Calls \cup {Hello})
      BY DEF ProbeInit
    <3>2. asked \in 0 .. MaxDials /\ dialing \in 0 .. MaxDials /\ mishaps \in 0 .. MaxMishaps
      BY ProbeAssumption DEF ProbeAssumption, ProbeInit
    <3>3. down \in [Links -> Seq(Calls)] /\ up \in [Links -> Seq(Calls \cup {Hello})]
      BY <3>1 DEF ProbeInit
    <3> QED BY <3>2, <3>3 DEF ProbeInit, ProbeTypeOK
  <2>2. LinksAgree /\ RequestsBelong
    BY ProbeAssumption DEF ProbeAssumption, ProbeInit, LinksAgree, LinkAgrees, RequestsBelong
  <2>3. NobodyWaitsForTheGone /\ RepliesAreKept
    BY DEF ProbeInit, NobodyWaitsForTheGone, RepliesAreKept
  <2> QED BY <2>1, <2>2, <2>3 DEF ProbeInv
<1>2. ProbeInv /\ [ProbeNext]_probeVars => ProbeInv'
  <2> SUFFICES ASSUME ProbeInv, [ProbeNext]_probeVars PROVE ProbeInv'
    OBVIOUS
  <2>1. ProbeTypeOK /\ LinksAgree /\ RequestsBelong /\ NobodyWaitsForTheGone
    BY DEF ProbeInv
  <2> QED BY <2>1, ProbeTypesStep, LinksAgreeStep, RequestsBelongStep, WaitersStep, RepliesStep
          DEF ProbeInv
<1> QED BY <1>1, <1>2, PTL DEF ProbeSpec

\* Every variable keeps to its type (probe server and extension worker).
THEOREM ProbeTypes == ProbeSpec => []ProbeTypeOK
<1>1. ProbeInv => ProbeTypeOK
  BY DEF ProbeInv
<1> QED BY <1>1, ProbeInvariant, PTL

\* No call waits for a connection that is cleaned up, in any order of calls,
\* ends of connections and new extensions (send_request, _cleanup_extension).
THEOREM WaitersAreTold == ProbeSpec => []NobodyWaitsForTheGone
<1>1. ProbeInv => NobodyWaitsForTheGone
  BY DEF ProbeInv
<1> QED BY <1>1, ProbeInvariant, PTL

\* A reply reaches its call while the connection and the call last, however
\* many sockets the worker has (handleFrame, _handle_extension).
THEOREM RepliesArrive == ProbeSpec => []RepliesAreKept
<1>1. ProbeInv => RepliesAreKept
  BY DEF ProbeInv
<1> QED BY <1>1, ProbeInvariant, PTL

=============================================================================
