---------------------------- MODULE Relays_proofs ----------------------------
(***************************************************************************)
(* The two relays.  Of the wrapper around a command line tool: its types,  *)
(* what its row says, and that its buffers are a tap of the streams.  Of   *)
(* the MCP relay: its types, that a response finds the request it answers, *)
(* and that its observer is a tap of the lines.                            *)
(***************************************************************************)
EXTENDS McpRelay, CliRelay, SequenceTheorems, TLAPS

\* How much of a stream that has carried n units a buffer holds.
Held(n) == IF n < Cap THEN n ELSE Cap

\* What a buffer has been offered: not yet the chunk its pump is copying.
Buffered(s) == IF tee[s] = "copying" THEN passed[s] - copying[s] ELSE passed[s]

\* A pump writes on only what it has read.  Its buffer has what it was offered,
\* up to the cap, and the flag says whether there was more.  The row was taken
\* from the buffer.
Exact(s) ==
    /\ passed[s] <= written[s]
    /\ tee[s] = "writing" => passed[s] + copying[s] <= written[s]
    /\ tee[s] = "copying" => copying[s] <= passed[s]
    /\ Len(kept[s]) = Held(Buffered(s))
    /\ kept[s] = UpTo(Len(kept[s]))
    /\ truncated[s] <=> Buffered(s) > Cap
    /\ row[s] = UpTo(Len(row[s])) /\ Len(row[s]) <= Cap
    /\ rowFlags[s] => cli = "returned" /\ passed[s] > Cap
    /\ s \in settled =>
          /\ cli \in {"building", "returned"} /\ tee[s] = "ended"
          /\ Len(row[s]) = Held(passed[s])
          /\ cli = "returned" => (rowFlags[s] <=> passed[s] > Cap)

CliInv == CliTypeOK /\ \A s \in Streams : Exact(s)

\* Counting on from one number after another.
LEMMA UpToOn ==
    ASSUME NEW m \in Nat, NEW n \in Nat
    PROVE  /\ Len(UpTo(m)) = m
           /\ UpTo(m) \o [i \in 1 .. n |-> m + i] = UpTo(m + n)
<1> DEFINE rest == [i \in 1 .. n |-> m + i]
<1>1. UpTo(m) \in Seq(Nat) /\ Len(UpTo(m)) = m /\ \A i \in 1 .. m : UpTo(m)[i] = i
  BY DEF UpTo
<1>2. rest \in Seq(Nat) /\ Len(rest) = n /\ \A i \in 1 .. n : rest[i] = m + i
  OBVIOUS
<1>3. UpTo(m + n) \in Seq(Nat) /\ Len(UpTo(m + n)) = m + n
      /\ \A i \in 1 .. m + n : UpTo(m + n)[i] = i
  BY DEF UpTo
<1> HIDE DEF rest
<1>4. UpTo(m) \o rest \in Seq(Nat) /\ Len(UpTo(m) \o rest) = m + n
      /\ \A i \in 1 .. m + n : (UpTo(m) \o rest)[i] = i
  <2> DEFINE first == UpTo(m)
  <2> HIDE DEF first
  <2>0. first \in Seq(Nat) /\ Len(first) = m /\ \A i \in 1 .. m : first[i] = i
    BY <1>1 DEF first
  <2>1. first \o rest \in Seq(Nat) /\ Len(first \o rest) = m + n
        /\ \A i \in 1 .. m + n : (first \o rest)[i] = IF i <= m THEN first[i] ELSE rest[i - m]
    BY <1>2, <2>0, ConcatProperties
  <2>2. ASSUME NEW i \in 1 .. m + n PROVE (first \o rest)[i] = i
    <3>1. CASE i <= m
      <4>1. first[i] = i BY <2>0, <3>1
      <4> QED BY <2>1, <3>1, <4>1
    <3>2. CASE ~(i <= m)
      <4>1. i - m \in 1 .. n BY <3>2
      <4>2. rest[i - m] = i BY <1>2, <4>1
      <4>3. (first \o rest)[i] = rest[i - m] BY <2>1, <3>2
      <4> QED BY <4>2, <4>3
    <3> QED BY <3>1, <3>2
  <2> QED BY <2>1, <2>2 DEF first
<1>5. UpTo(m) \o rest = UpTo(m + n)
  BY <1>3, <1>4, SeqEqual
<1> QED BY <1>1, <1>5 DEF rest

\* A chunk of k units after p - k others fills the buffer up to the cap.
LEMMA HeldGrows ==
    ASSUME NEW p \in Nat, NEW k \in Nat, k <= p, NEW fits,
           fits = IF k <= Cap - Held(p - k) THEN k ELSE Cap - Held(p - k)
    PROVE  /\ fits \in Nat /\ Held(p - k) + fits = Held(p)
           /\ fits > 0 => p - k = Held(p - k)
           /\ fits < k <=> p > Cap /\ k > 0
BY CliAssumption DEF CliAssumption, Held

\* The rows written so far and the buffers agree with what was read and passed
\* on: the inductive invariant of the wrapper.
THEOREM CliInvariant == CliSpec => []CliInv
<1> USE CliAssumption DEF CliAssumption
<1>1. CliInit => CliInv
  <2> SUFFICES ASSUME CliInit PROVE CliInv
    OBVIOUS
  <2>1. UpTo(0) = <<>>
    BY DEF UpTo
  <2>2. CliTypeOK
    BY DEF CliInit, CliTypeOK
  <2> QED BY <2>1, <2>2 DEF CliInit, CliInv, Exact, Buffered, Held
<1>2. CliInv /\ [CliNext]_cliVars => CliInv'
  <2> SUFFICES ASSUME CliInv, [CliNext]_cliVars PROVE CliInv'
    OBVIOUS
  <2> USE DEF pipes, tees, parentSide, recorded, Buffered
  <2> USE DEF CliInv
  <2>1. ASSUME NEW s \in Streams, SourceWrites(s) PROVE CliInv'
    <3>1. /\ written' \in [Streams -> 0 .. MaxUnits]
          /\ \A r \in Streams : written[r] \in Nat /\ written[r] <= written'[r]
      BY <2>1 DEF SourceWrites, CliTypeOK
    <3>2. CliTypeOK'
      BY <2>1, <3>1 DEF SourceWrites, CliTypeOK
    <3>3. ASSUME NEW r \in Streams PROVE Exact(r)'
      <4>1. /\ Exact(r) /\ passed[r] \in Nat /\ copying[r] \in Nat
            /\ written[r] \in Nat /\ written'[r] \in Nat /\ written[r] <= written'[r]
        BY <3>1 DEF CliTypeOK
      <4>2. UNCHANGED <<passed, copying, tee, kept, truncated, cli, row, rowFlags, settled>>
        BY <2>1 DEF SourceWrites
      <4>3. Buffered(r)' = Buffered(r)
        BY <4>2
      <4> HIDE DEF Buffered
      <4> QED BY <4>1, <4>2, <4>3 DEF Exact
    <3> QED BY <3>2, <3>3
  <2>10. ASSUME NEW s \in Streams, SourceCloses(s) PROVE CliInv'
    BY <2>10 DEF SourceCloses, CliTypeOK, Exact, Held
  <2>2. ASSUME ChildExits \/ Kills PROVE CliInv'
    <3>1. CliTypeOK'
      BY <2>2 DEF ChildExits, Kills, ChildGone, CliTypeOK
    <3>2. ASSUME NEW r \in Streams PROVE Exact(r)'
      BY <2>2, Exact(r) DEF ChildExits, Kills, Exact, Held
    <3> QED BY <3>1, <3>2
  <2>3. ASSUME NEW s \in Streams, TeeReads(s) PROVE CliInv'
    <3>1. PICK n \in ReadyToRead(s) : copying' = [copying EXCEPT ![s] = n]
      BY <2>3 DEF TeeReads
    <3>2. n \in 1 .. written[s] - passed[s]
      BY DEF ReadyToRead, CliTypeOK, Exact
    <3>3. CliTypeOK'
      <4>1. n \in 0 .. MaxUnits
        BY <3>2 DEF CliTypeOK
      <4>2. /\ copying' \in [Streams -> 0 .. MaxUnits]
            /\ tee' \in [Streams -> {"reading", "writing", "copying", "ended"}]
        BY <2>3, <3>1, <4>1 DEF TeeReads, CliTypeOK
      <4> QED BY <2>3, <4>2 DEF TeeReads, CliTypeOK
    <3>4. ASSUME NEW r \in Streams PROVE Exact(r)'
      <4>1. /\ Exact(r) /\ tee[s] = "reading"
            /\ UNCHANGED <<passed, written, kept, truncated, row, rowFlags, settled, cli>>
        BY <2>3 DEF TeeReads
      <4>2. CASE r = s
        <5>1. copying'[s] = n /\ tee'[s] = "writing"
          BY <2>3, <3>1 DEF TeeReads, CliTypeOK
        <5>2. passed[s] + n <= written[s]
          BY <3>2 DEF CliTypeOK
        <5> QED BY <4>1, <4>2, <5>1, <5>2 DEF Exact
      <4>3. CASE r # s
        <5>1. copying'[r] = copying[r] /\ tee'[r] = tee[r]
          BY <2>3, <3>1, <4>3 DEF TeeReads, CliTypeOK
        <5> QED BY <4>1, <5>1 DEF Exact
      <4> QED BY <4>2, <4>3
    <3> QED BY <3>3, <3>4
  <2>11. ASSUME NEW s \in Streams, TeeForwards(s) PROVE CliInv'
    <3>1. /\ tee[s] = "writing" /\ cli # "returned"
          /\ passed' = [passed EXCEPT ![s] = @ + copying[s]]
          /\ tee' = [tee EXCEPT ![s] = "copying"]
          /\ UNCHANGED <<written, copying, kept, truncated, row, rowFlags, settled, cli>>
      BY <2>11 DEF TeeForwards
    <3>2. passed[s] + copying[s] \in 0 .. MaxUnits
      BY <3>1 DEF CliTypeOK, Exact
    <3>3. CliTypeOK'
      BY <2>11, <3>1, <3>2 DEF TeeForwards, CliTypeOK
    <3>4. ASSUME NEW r \in Streams PROVE Exact(r)'
      <4>1. Exact(r) /\ passed[s] \in Nat /\ copying[s] \in Nat
        BY DEF CliTypeOK
      <4>2. CASE r = s
        <5>1. passed'[s] = passed[s] + copying[s] /\ tee'[s] = "copying"
          BY <3>1 DEF CliTypeOK
        <5>2. Buffered(s)' = Buffered(s) /\ copying[s] <= passed'[s]
          BY <3>1, <4>1, <5>1
        <5> QED BY <3>1, <4>1, <4>2, <5>1, <5>2 DEF Exact
      <4>3. CASE r # s
        <5>1. passed'[r] = passed[r] /\ tee'[r] = tee[r]
          BY <3>1, <4>3 DEF CliTypeOK
        <5> QED BY <3>1, <4>1, <5>1 DEF Exact
      <4> QED BY <4>2, <4>3
    <3> QED BY <3>3, <3>4
  <2>4. ASSUME NEW s \in Streams, TeeCopies(s) PROVE CliInv'
    <3> DEFINE old == passed[s] - copying[s]
    <3>1. /\ old \in Nat /\ copying[s] \in Nat /\ passed[s] \in 0 .. MaxUnits
          /\ kept[s] = UpTo(Held(old)) /\ Len(kept[s]) = Held(old) /\ Held(old) \in Nat
          /\ copying[s] <= passed[s]
      BY <2>4 DEF TeeCopies, CliTypeOK, Exact, Held
    <3>2. Fits(s) \in Nat /\ Held(old) + Fits(s) = Held(passed[s])
          /\ (Fits(s) > 0 => old = Held(old))
          /\ (Fits(s) < copying[s] <=> passed[s] > Cap /\ copying[s] > 0)
      <4>1. copying[s] <= passed[s] /\ passed[s] \in Nat
        BY <3>1
      <4>2. Fits(s) = IF copying[s] <= Cap - Held(old) THEN copying[s] ELSE Cap - Held(old)
        BY <3>1 DEF Fits
      <4> HIDE DEF CliInv
      <4> QED BY <3>1, <4>1, <4>2, HeldGrows
    <3>3. [i \in 1 .. Fits(s) |-> passed[s] - copying[s] + i]
          = [i \in 1 .. Fits(s) |-> Held(old) + i]
      BY <3>1, <3>2
    <3>4. kept'[s] = UpTo(Held(passed[s])) /\ \A r \in Streams \ {s} : kept'[r] = kept[r]
      <4>1. UpTo(Held(old)) \o [i \in 1 .. Fits(s) |-> Held(old) + i] = UpTo(Held(old) + Fits(s))
        BY <3>1, <3>2, UpToOn
      <4>2. kept' = [kept EXCEPT ![s] = @ \o [i \in 1 .. Fits(s) |-> passed[s] - copying[s] + i]]
        BY <2>4 DEF TeeCopies
      <4>3. kept'[s] = kept[s] \o [i \in 1 .. Fits(s) |-> passed[s] - copying[s] + i]
            /\ \A r \in Streams \ {s} : kept'[r] = kept[r]
        BY <4>2 DEF CliTypeOK
      <4> QED BY <3>1, <3>2, <3>3, <4>1, <4>3
    <3>5. Held(passed[s]) \in 0 .. MaxUnits
      BY <3>1 DEF Held
    <3>6. UpTo(Held(passed[s])) \in Seq(1 .. MaxUnits) /\ Len(kept'[s]) = Held(passed[s])
      BY <3>4, <3>5 DEF UpTo
    <3>7. CliTypeOK'
      <4>1. kept' \in [Streams -> Seq(1 .. MaxUnits)]
        BY <2>4, <3>4, <3>6 DEF TeeCopies, CliTypeOK
      <4>2. /\ copying' \in [Streams -> 0 .. MaxUnits] /\ truncated' \in [Streams -> BOOLEAN]
            /\ tee' \in [Streams -> {"reading", "writing", "copying", "ended"}]
        BY <2>4 DEF TeeCopies, CliTypeOK
      <4> QED BY <2>4, <4>1, <4>2 DEF TeeCopies, CliTypeOK
    <3>8. ASSUME NEW r \in Streams PROVE Exact(r)'
      <4>1. CASE r = s
        <5>1. /\ passed' = passed /\ written' = written /\ row' = row /\ settled' = settled
              /\ rowFlags' = rowFlags /\ cli' = cli /\ copying'[s] = 0 /\ tee'[s] = "reading"
              /\ tee[s] = "copying" /\ cli # "returned"
              /\ truncated'[s] <=> truncated[s] \/ Fits(s) < copying[s]
          BY <2>4 DEF TeeCopies, CliTypeOK
        <5>2. truncated'[s] <=> passed[s] > Cap
          BY <3>1, <3>2, <5>1 DEF Exact
        <5>3. Exact(s) OBVIOUS
        <5> QED BY <3>1, <3>4, <3>6, <4>1, <5>1, <5>2, <5>3 DEF Exact, Held
      <4>2. CASE r # s
        BY <2>4, <3>4, <4>2, Exact(r) DEF TeeCopies, CliTypeOK, Exact, Held
      <4> QED BY <4>1, <4>2
    <3> QED BY <3>7, <3>8
  <2>5. ASSUME NEW s \in Streams, TeeEnds(s) PROVE CliInv'
    BY <2>5 DEF TeeEnds, CliTypeOK, Exact, Held
  <2>12. ASSUME TeeBreaks PROVE CliInv'
    <3>1. /\ "stdin" \in Streams /\ tee["stdin"] = "writing"
          /\ copying' = [copying EXCEPT !["stdin"] = 0]
          /\ tee' = [tee EXCEPT !["stdin"] = "ended"]
          /\ UNCHANGED <<passed, written, kept, truncated, cli, row, rowFlags, settled>>
      BY <2>12 DEF TeeBreaks, Streams
    <3>2. CliTypeOK'
      BY <2>12, <3>1 DEF TeeBreaks, CliTypeOK
    <3>3. ASSUME NEW r \in Streams PROVE Exact(r)'
      <4>1. Exact(r) /\ tee'[r] = (IF r = "stdin" THEN "ended" ELSE tee[r])
            /\ copying'[r] = (IF r = "stdin" THEN 0 ELSE copying[r])
        BY <3>1 DEF CliTypeOK
      <4> QED BY <3>1, <4>1 DEF Exact
    <3> QED BY <3>2, <3>3
  <2>13. ASSUME NEW s \in Streams, ParentStalls(s) \/ ParentReads(s) PROVE CliInv'
    BY <2>13 DEF ParentStalls, ParentReads, CliTypeOK, Exact, Held
  <2>14. ASSUME NEW s \in Outputs, Flushes(s) PROVE CliInv'
    BY <2>14 DEF Flushes, CliTypeOK, Exact, Held
  <2>6. CASE TimesOut \/ ChildReaped
    BY <2>6 DEF TimesOut, ChildReaped, CliTypeOK, Exact, Held
  <2>7. CASE TakesBytes
    BY <2>7 DEF TakesBytes, CliTypeOK, Exact, Held
  <2>8. CASE EmitsRow
    BY <2>8 DEF EmitsRow, CliTypeOK, Exact, Held
  <2>9. CASE UNCHANGED cliVars
    BY <2>9 DEF cliVars, CliTypeOK, Exact, Held
  <2> QED BY <2>1, <2>2, <2>3, <2>4, <2>5, <2>6, <2>7, <2>8, <2>9, <2>10, <2>11, <2>12, <2>13,
        <2>14 DEF CliNext, CliMain, Finishes
<1> QED BY <1>1, <1>2, PTL DEF CliSpec

\* Every variable keeps its type.
THEOREM CliTypes == CliSpec => []CliTypeOK
BY CliInvariant, PTL DEF CliInv

\* The row of a stream whose pump had ended is exact, for any cap, chunk and
\* streams: what passed up to the cap, and whether there was more.
THEOREM RowsAreExact == CliSpec => []RowIsExact
<1>1. CliInv => RowIsExact
  BY CliAssumption DEF CliAssumption, CliInv, CliTypeOK, Exact, Buffered, Held, RowIsExact
<1> QED BY <1>1, CliInvariant, PTL

-----------------------------------------------------------------------------
(* The tap                                                                 *)

\* A shorter count is a prefix of a longer one.
LEMMA UpToPrefix ==
    ASSUME NEW m \in Nat, NEW n \in Nat, m <= n
    PROVE  CliTap!IsPrefix(UpTo(m), UpTo(n))
<1>1. Len(UpTo(m)) = m /\ Len(UpTo(n)) = n
  BY DEF UpTo
<1>2. SubSeq(UpTo(m), 1, m) = SubSeq(UpTo(n), 1, m)
  BY DEF UpTo
<1> QED BY <1>1, <1>2 DEF CliTap!IsPrefix

\* A stream carries on and its buffer follows.
Grows(s) == passed[s] <= passed'[s] /\ Len(kept[s]) <= Len(kept'[s])

\* No step takes back what a stream has passed on or kept.
LEMMA StreamsGrow ==
    ASSUME CliInv, CliInv', CliNext, NEW s \in Streams
    PROVE  Grows(s)
<1> USE DEF Grows, pipes, tees
<1>1. passed[s] \in Nat /\ Len(kept[s]) \in Nat
  BY DEF CliInv, CliTypeOK
<1>2. ASSUME UNCHANGED <<passed, kept>> PROVE Grows(s)
  BY <1>1, <1>2
<1>3. ASSUME NEW r \in Streams, TeeForwards(r) PROVE Grows(s)
  <2>1. kept' = kept /\ passed' = [passed EXCEPT ![r] = @ + copying[r]]
    BY <1>3 DEF TeeForwards
  <2>2. copying[r] \in Nat
    BY DEF CliInv, CliTypeOK
  <2> QED BY <1>1, <2>1, <2>2 DEF CliInv, CliTypeOK
<1>4. ASSUME NEW r \in Streams, TeeCopies(r) PROVE Grows(s)
  <2>1. passed' = passed /\ tee[r] = "copying" /\ tee' = [tee EXCEPT ![r] = "reading"]
        /\ copying' = [copying EXCEPT ![r] = 0]
    BY <1>4 DEF TeeCopies
  <2>2. Len(kept[s]) = Held(Buffered(s)) /\ Len(kept'[s]) = Held(Buffered(s)')
    BY DEF CliInv, Exact, Held
  <2>3. Buffered(s) \in Nat /\ Buffered(s)' \in Nat /\ Buffered(s) <= Buffered(s)'
    <3>1. /\ copying[s] \in Nat /\ copying'[s] \in Nat /\ passed'[s] = passed[s]
          /\ tee[s] = "copying" => copying[s] <= passed[s]
          /\ tee'[s] = "copying" => tee[s] = "copying" /\ copying'[s] = copying[s]
      BY <2>1 DEF CliInv, CliTypeOK, Exact
    <3> QED BY <1>1, <3>1 DEF Buffered
  <2>4. Held(Buffered(s)) <= Held(Buffered(s)')
    BY CliAssumption, <2>3 DEF CliAssumption, Held
  <2> QED BY <1>1, <2>1, <2>2, <2>4
<1> QED
  BY <1>2, <1>3, <1>4 DEF CliNext, CliMain, Finishes, SourceWrites, SourceCloses, ParentStalls,
     ParentReads, TeeReads, TeeBreaks, TeeEnds, ChildExits, Kills, TimesOut, ChildReaped,
     Flushes, TakesBytes, EmitsRow

\* The wrapper's buffers implement the abstract tap.
THEOREM ImplementsTap == CliSpec => CliImplementsTap
<1>1. CliInit => CliTap!TapInit
  BY DEF CliInit, CliTap!TapInit, UpTo
<1>2. CliInv /\ CliInv' /\ [CliNext]_cliVars
      => [CliTap!Carry]_<<[s \in Streams |-> UpTo(passed[s])], kept>>
  <2> SUFFICES ASSUME CliInv, CliInv', CliNext PROVE CliTap!Carry
    BY DEF cliVars, tees
  <2>1. ASSUME NEW s \in Streams
        PROVE  /\ CliTap!IsPrefix(UpTo(passed[s]), UpTo(passed'[s]))
               /\ CliTap!IsPrefix(kept[s], kept'[s])
               /\ CliTap!IsPrefix(kept'[s], UpTo(passed'[s]))
    <3>1. /\ passed[s] \in Nat /\ passed'[s] \in Nat
          /\ Len(kept[s]) \in Nat /\ Len(kept'[s]) \in Nat
          /\ kept[s] = UpTo(Len(kept[s])) /\ kept'[s] = UpTo(Len(kept'[s]))
          /\ Len(kept'[s]) <= passed'[s]
      BY CliAssumption DEF CliAssumption, CliInv, CliTypeOK, Exact, Buffered, Held
    <3> QED BY <3>1, StreamsGrow, UpToPrefix DEF Grows
  <2> QED BY <2>1 DEF CliTap!Carry, CliTap!IsPrefix
<1> QED BY <1>1, <1>2, CliInvariant, PTL DEF CliSpec, CliImplementsTap, CliTap!TapSpec

-----------------------------------------------------------------------------
(* The MCP relay: what is on the wires.                                    *)

\* The pieces of a direction are those of its frames, one after another: a
\* frame is one whole piece, or a beginning and an end.
Wired(d) ==
    LET w == wire[d] IN
    /\ \A i \in 1 .. Len(w) :
          /\ w[i].frame \in 1 .. Len(frames[d])
          /\ i <= 2 * w[i].frame /\ (~Completes(w[i]) => i < 2 * w[i].frame)
          /\ i = 1 => w[i].frame = 1 /\ w[i].part # "end"
          /\ i = Len(w) => w[i].frame = Len(frames[d])
    /\ \A i \in 1 .. Len(w) : \A j \in i + 1 .. Len(w) :
          /\ w[i].frame <= w[j].frame
          /\ w[i].frame = w[j].frame <=> j = i + 1 /\ ~Completes(w[i])
          /\ j = i + 1 /\ Completes(w[i]) => w[j].frame = w[i].frame + 1 /\ w[j].part # "end"
          /\ j = i + 1 /\ ~Completes(w[i]) => w[j].part = "end"
    /\ w = <<>> => frames[d] = <<>>

\* What answers a request is a response with its id.
AnswersMatch ==
    \A n \in 1 .. MaxFrames : answers[n] # 0 =>
        /\ n \in 1 .. Len(frames["response"]) /\ answers[n] \in 1 .. Len(frames["request"])
        /\ frames["response"][n].json /\ ~frames["response"][n].method
        /\ frames["response"][n].id # None
        /\ frames["request"][answers[n]] = [frames["response"][n] EXCEPT !.method = TRUE]

WireTypeOK ==
    /\ frames \in [Dirs -> Seq(HostFrames \cup ServerFrames)]
    /\ Len(frames["request"]) + Len(frames["response"]) <= MaxFrames
    /\ answers \in [1 .. MaxFrames -> Numbers]
    /\ wire \in [Dirs -> Seq(Piece)]

WireInv == WireTypeOK /\ AnswersMatch /\ \A d \in Dirs : Wired(d)

\* The observer's queue holds what was queued and not used, in order.
Queued ==
    /\ \A i \in 1 .. Len(queue) : queue[i] # Sentinel =>
          queue[i].piece \in used[queue[i].dir] + 1 .. queued[queue[i].dir]
    /\ \A i \in 1 .. Len(queue) : \A j \in i + 1 .. Len(queue) :
          queue[i] # Sentinel /\ queue[j] # Sentinel /\ queue[i].dir = queue[j].dir =>
              queue[i].piece < queue[j].piece
    /\ \A d \in Dirs : \A p \in used[d] + 1 .. queued[d] :
          \E i \in 1 .. Len(queue) : queue[i] = [dir |-> d, piece |-> p]

Counted(d) ==
    /\ used[d] <= queued[d] /\ queued[d] <= forwarded[d] /\ forwarded[d] <= Len(wire[d])
    /\ forwarded[d] = IF pump[d] = "queuing" THEN queued[d] + 1 ELSE queued[d]

QueueTypeOK ==
    /\ forwarded \in [Dirs -> Nat] /\ queued \in [Dirs -> Nat] /\ used \in [Dirs -> Nat]
    /\ pump \in [Dirs -> {"reading", "queuing", "ended"}]
    /\ queue \in Seq([dir : Dirs, piece : Nat] \cup {Sentinel})

QueueInv == QueueTypeOK /\ Queued /\ \A d \in Dirs : Counted(d)

\* The observer keeps the beginning of a line, and has handed over the lines
\* before it; in the final drain, also a line that lacks its newline only.
Drained(d) == observer \in (IF d = "request" THEN {"drain_response", "ended"} ELSE {"ended"})

LinesUsed(d) ==
    LET last == wire[d][used[d]] IN
    IF used[d] = 0 THEN 0
    ELSE IF Completes(last) \/ (last.part = "text" /\ Drained(d)) THEN last.frame ELSE last.frame - 1

Reassembled(d) ==
    /\ buffer[d] = IF used[d] = 0 \/ Completes(wire[d][used[d]]) THEN <<>> ELSE <<wire[d][used[d]]>>
    /\ seen[d] = UpTo(LinesUsed(d))

ReadTypeOK ==
    /\ buffer \in [Dirs -> Seq(Piece)] /\ seen \in [Dirs -> Seq(Nat)]
    /\ observer \in {"running", "drain_request", "drain_response", "ended"}

ReadInv == ReadTypeOK /\ \A d \in Dirs : Reassembled(d)

\* A response that is not overtaken comes after the request it answers.
Precedes(c, p) ==
    \/ c <= used["request"]
    \/ \E i \in 1 .. Len(queue) : \E j \in i + 1 .. Len(queue) :
          queue[i] = [dir |-> "request", piece |-> c] /\ queue[j] = [dir |-> "response", piece |-> p]

Preceded ==
    \A p \in 1 .. queued["response"] :
        LET q == wire["response"][p] IN
        q.part # "head" /\ answers[q.frame] # 0 /\ q.frame \notin overtaken =>
            \E c \in 1 .. queued["request"] :
                /\ wire["request"][c].frame = answers[q.frame]
                /\ Completes(wire["request"][c]) /\ Precedes(c, p)

Requested(m) ==
    LET f == frames["request"][m] IN f.json /\ f.method /\ f.id # None

Alone(m) ==
    \A r \in 1 .. Len(frames["request"]) :
        frames["request"][r].id = frames["request"][m].id /\ frames["request"][r].method => r = m

\* What is stashed under an id is a request that was seen and found no
\* response; a request with an id of its own is, until a response has its id.
Stashed ==
    /\ \A k \in Keys : pending[k] # 0 =>
          /\ pending[k] \in 1 .. Len(seen["request"]) /\ frames["request"][pending[k]].id = k
          /\ \A n \in 1 .. MaxFrames : mate[n] # pending[k]
    /\ \A m \in 1 .. Len(seen["request"]) :
          /\ Requested(m) /\ Alone(m)
          /\ \A q \in 1 .. Len(seen["response"]) : ~SameId(m, q)
          => pending[frames["request"][m].id] = m

Mated ==
    \A n \in 1 .. MaxFrames : mate[n] # 0 =>
        /\ mate[n] \in 1 .. Len(seen["request"]) /\ n \in 1 .. Len(seen["response"])
        /\ SameId(mate[n], n)
        /\ \A q \in 1 .. MaxFrames : mate[q] = mate[n] => q = n

Found ==
    \A n \in 1 .. Len(seen["response"]) :
        answers[n] # 0 /\ Unambiguous(answers[n], n) /\ n \notin overtaken => mate[n] = answers[n]

PairTypeOK ==
    /\ pending \in [Keys -> Numbers] /\ mate \in [1 .. MaxFrames -> Numbers]
    /\ overtaken \subseteq 1 .. MaxFrames

PairInv == PairTypeOK /\ Preceded /\ Stashed /\ Mated /\ Found

\* The ends only ever append.
Grown ==
    /\ \A d \in Dirs : Len(frames[d]) <= Len(frames'[d]) /\ Len(wire[d]) <= Len(wire'[d])
    /\ \A d \in Dirs : \A i \in 1 .. Len(frames[d]) : frames'[d][i] = frames[d][i]
    /\ \A d \in Dirs : \A i \in 1 .. Len(wire[d]) : wire'[d][i] = wire[d][i]
    /\ \A n \in 1 .. Len(frames["response"]) : answers'[n] = answers[n]

LEMMA AppendIs ==
    ASSUME NEW S, NEW s \in Seq(S), NEW e \in S, NEW t, t = Append(s, e)
    PROVE  /\ t \in Seq(S) /\ Len(t) = Len(s) + 1 /\ Len(s) \in Nat
           /\ t[Len(s) + 1] = e /\ \A i \in 1 .. Len(s) : t[i] = s[i]
OBVIOUS

\* A piece more on one wire.
LEMMA PieceAdded ==
    ASSUME WireInv, NEW d \in Dirs, NEW p \in Piece,
           wire' = [wire EXCEPT ![d] = Append(@, p)],
           \/ /\ AtLineStart(d) /\ p.frame = Len(frames[d]) + 1 /\ p.part # "end"
              /\ Len(frames'[d]) = Len(frames[d]) + 1
           \/ /\ ~AtLineStart(d) /\ p.frame = Len(frames[d]) /\ p.part = "end"
              /\ Len(frames'[d]) = Len(frames[d])
    PROVE  Wired(d)'
<1> DEFINE w == wire[d]
           v == wire'[d]
           n == Len(wire[d])
           last == Len(frames[d])
<1>1. w \in Seq(Piece) /\ frames[d] \in Seq(HostFrames \cup ServerFrames) /\ last \in Nat
  BY DEF WireInv, WireTypeOK
<1>2. v = Append(w, p)
  BY DEF WireInv, WireTypeOK
<1>3. v \in Seq(Piece) /\ Len(v) = n + 1 /\ n \in Nat /\ v[n + 1] = p /\ \A i \in 1 .. n : v[i] = w[i]
  BY <1>1, <1>2
<1>4. Wired(d)
  BY DEF WireInv
<1>5. /\ \A i \in 1 .. n :
          /\ w[i].frame \in 1 .. last
          /\ i <= 2 * w[i].frame /\ (~Completes(w[i]) => i < 2 * w[i].frame)
          /\ i = 1 => w[i].frame = 1 /\ w[i].part # "end"
          /\ i = n => w[i].frame = last
      /\ \A i \in 1 .. n : \A j \in i + 1 .. n :
          /\ w[i].frame <= w[j].frame
          /\ w[i].frame = w[j].frame <=> j = i + 1 /\ ~Completes(w[i])
          /\ j = i + 1 /\ Completes(w[i]) => w[j].frame = w[i].frame + 1 /\ w[j].part # "end"
          /\ j = i + 1 /\ ~Completes(w[i]) => w[j].part = "end"
      /\ n = 0 => last = 0
  BY <1>1, <1>4 DEF Wired
<1>6. AtLineStart(d) <=> (n # 0 => Completes(w[n]))
  BY <1>1 DEF AtLineStart
<1>7. Completes(p) <=> p.part \in {"line", "end"}
  BY DEF Completes
<1> HIDE DEF w, v, n, last
<1>8. n # 0 /\ ~Completes(w[n]) => n < 2 * last
  BY <1>3, <1>5
<1>9. n # 0 /\ Completes(w[n]) => n <= 2 * last
  BY <1>3, <1>5
<1>10. p.frame \in Nat
  BY <1>1, <1>6 DEF last
<1>11. CASE AtLineStart(d)
  <2>1. p.frame = last + 1 /\ p.part # "end" /\ Len(frames'[d]) = last + 1
    BY <1>11 DEF last
  <2>2. n <= 2 * last
    BY <1>1, <1>3, <1>5, <1>6, <1>9, <1>11
  <2>3. n + 1 <= 2 * p.frame /\ (~Completes(p) => n + 1 < 2 * p.frame)
    BY <1>1, <1>3, <2>1, <2>2
  <2>4. \A i \in 1 .. n + 1 :
          /\ v[i].frame \in 1 .. last + 1
          /\ i <= 2 * v[i].frame /\ (~Completes(v[i]) => i < 2 * v[i].frame)
          /\ i = 1 => v[i].frame = 1 /\ v[i].part # "end"
          /\ i = n + 1 => v[i].frame = last + 1
    BY <1>1, <1>3, <1>5, <2>1, <2>3
  <2>5. \A i \in 1 .. n : w[i].frame <= last
    BY <1>1, <1>5
  <2>6. ASSUME NEW i \in 1 .. n + 1, NEW j \in i + 1 .. n + 1
        PROVE  /\ v[i].frame <= v[j].frame
               /\ v[i].frame = v[j].frame <=> j = i + 1 /\ ~Completes(v[i])
               /\ j = i + 1 /\ Completes(v[i]) => v[j].frame = v[i].frame + 1 /\ v[j].part # "end"
               /\ j = i + 1 /\ ~Completes(v[i]) => v[j].part = "end"
    <3>1. i \in 1 .. n /\ v[i] = w[i] /\ w[i].frame \in 1 .. last
      BY <1>3, <1>5
    <3>2. CASE j \in 1 .. n
      BY <3>1, <3>2, <1>3, <1>5
    <3>3. CASE j = n + 1
      <4>1. i = n => Completes(w[i]) /\ w[i].frame = last
        BY <3>1, <1>3, <1>5, <1>6, <1>11
      <4>2. v[j].frame = last + 1 /\ v[j].part # "end"
        BY <3>3, <2>1, <1>3
      <4>3. v[i].frame \in 1 .. last /\ last \in Nat /\ v[i] = w[i]
        BY <3>1, <1>1
      <4>4. j = i + 1 <=> i = n
        BY <3>1, <3>3, <1>3
      <4> HIDE DEF v, w, last
      <4> QED BY <4>1, <4>2, <4>3, <4>4
    <3> QED BY <3>2, <3>3, <1>3
  <2> QED BY <2>1, <2>4, <2>6, <1>3 DEF Wired, v
<1>12. CASE ~AtLineStart(d)
  <2>1. p.frame = last /\ p.part = "end" /\ Len(frames'[d]) = last /\ n # 0 /\ ~Completes(w[n])
    BY <1>6, <1>12 DEF last
  <2>2. w[n].frame = last /\ last \in Nat \ {0}
    BY <1>3, <1>5, <2>1
  <2>3. n + 1 <= 2 * p.frame /\ (~Completes(p) => n + 1 < 2 * p.frame)
    BY <1>1, <1>3, <1>7, <1>8, <2>1
  <2>4. \A i \in 1 .. n + 1 :
          /\ v[i].frame \in 1 .. last
          /\ i <= 2 * v[i].frame /\ (~Completes(v[i]) => i < 2 * v[i].frame)
          /\ i = 1 => v[i].frame = 1 /\ v[i].part # "end"
          /\ i = n + 1 => v[i].frame = last
    BY <1>1, <1>3, <1>5, <2>1, <2>2, <2>3
  <2>6. ASSUME NEW i \in 1 .. n + 1, NEW j \in i + 1 .. n + 1
        PROVE  /\ v[i].frame <= v[j].frame
               /\ v[i].frame = v[j].frame <=> j = i + 1 /\ ~Completes(v[i])
               /\ j = i + 1 /\ Completes(v[i]) => v[j].frame = v[i].frame + 1 /\ v[j].part # "end"
               /\ j = i + 1 /\ ~Completes(v[i]) => v[j].part = "end"
    <3>1. i \in 1 .. n /\ v[i] = w[i] /\ w[i].frame \in 1 .. last
      BY <1>3, <1>5
    <3>2. CASE j \in 1 .. n
      BY <3>1, <3>2, <1>3, <1>5
    <3>3. CASE j = n + 1
      <4>1. ASSUME i # n PROVE w[i].frame < last
        <5>1. n \in i + 1 .. n /\ w[n].frame = last
          BY <4>1, <3>1, <1>3, <2>2
        <5>2. ~(n = i + 1 /\ ~Completes(w[i]))
          <6>1. w[n].part # "end" BY <2>1 DEF Completes
          <6> QED BY <6>1, <5>1, <3>1, <1>5
        <5>3. w[i].frame <= w[n].frame /\ w[i].frame # w[n].frame
          BY <5>1, <5>2, <3>1, <1>5
        <5> QED BY <5>1, <5>3, <3>1, <2>2
      <4> QED BY <3>1, <3>3, <4>1, <2>1, <2>2, <1>1, <1>3
    <3> QED BY <3>2, <3>3, <1>3
  <2> QED BY <2>1, <2>4, <2>6, <1>3 DEF Wired, v
<1> QED BY <1>11, <1>12

\* The frames a source sends, and what they answer.
LEMMA FrameAdded ==
    ASSUME WireInv, NEW d \in Dirs, NEW f \in Offered(d), NEW part \in Parts \ {"end"}, Say(d, f, part)
    PROVE  WireInv' /\ Grown
<1> USE RelayAssumption DEF RelayAssumption
<1> DEFINE last == Len(frames[d])
           p == [frame |-> last + 1, part |-> part]
<1>1. /\ frames \in [Dirs -> Seq(HostFrames \cup ServerFrames)]
      /\ frames["request"] \in Seq(HostFrames \cup ServerFrames)
      /\ frames["response"] \in Seq(HostFrames \cup ServerFrames)
      /\ wire \in [Dirs -> Seq(Piece)] /\ answers \in [1 .. MaxFrames -> Numbers]
      /\ Len(frames["request"]) \in Nat /\ Len(frames["response"]) \in Nat
      /\ Len(frames["request"]) + Len(frames["response"]) <= MaxFrames
  BY DEF WireInv, WireTypeOK, Dirs
<1>2. /\ AtLineStart(d) /\ Len(frames["request"]) + Len(frames["response"]) < MaxFrames
      /\ frames' = [frames EXCEPT ![d] = Append(@, f)]
      /\ wire' = [wire EXCEPT ![d] = Append(@, p)]
  BY DEF Say
<1>0. /\ MaxFrames \in Nat /\ Len(frames["request"]) <= MaxFrames
      /\ Len(frames["response"]) <= MaxFrames
      /\ \A x, y \in Nat : x = Len(frames["request"]) + 1 /\ y = Len(frames["response"]) => x + y <= MaxFrames
      /\ \A x, y \in Nat : x = Len(frames["request"]) /\ y = Len(frames["response"]) + 1 => x + y <= MaxFrames
      /\ \A n \in 1 .. Len(frames["response"]) : n \in 1 .. MaxFrames /\ n # Len(frames["response"]) + 1
  <2> DEFINE a == Len(frames["request"])
             b == Len(frames["response"])
  <2>1. a \in Nat /\ b \in Nat /\ a + b <= MaxFrames /\ a + b < MaxFrames
    BY <1>1, <1>2
  <2> HIDE DEF a, b
  <2>2. /\ a <= MaxFrames /\ b <= MaxFrames
        /\ \A x, y \in Nat : x = a + 1 /\ y = b => x + y <= MaxFrames
        /\ \A x, y \in Nat : x = a /\ y = b + 1 => x + y <= MaxFrames
        /\ \A n \in 1 .. b : n \in 1 .. MaxFrames /\ n # b + 1
    BY <2>1
  <2> QED BY <2>2 DEF a, b
<1>3. f \in HostFrames \cup ServerFrames
  BY DEF Offered
<1>4. frames'[d] = Append(frames[d], f) /\ \A e \in Dirs : e # d => frames'[e] = frames[e]
  BY <1>1, <1>2
<1>5. d = "request" \/ d = "response"
  BY DEF Dirs
<1>6. frames[d] \in Seq(HostFrames \cup ServerFrames) /\ last \in Nat /\ wire[d] \in Seq(Piece)
  BY <1>1
<1>7. /\ frames'[d] \in Seq(HostFrames \cup ServerFrames) /\ Len(frames'[d]) = last + 1
      /\ frames'[d][last + 1] = f /\ \A i \in 1 .. last : frames'[d][i] = frames[d][i]
  BY <1>3, <1>4, <1>6
<1>8. last + 1 \in 1 .. MaxFrames
  <2>1. CASE d = "request" BY <2>1, <1>1, <1>2
  <2>2. CASE d = "response" BY <2>2, <1>1, <1>2
  <2> QED BY <2>1, <2>2, <1>5
<1>9. p \in Piece
  BY <1>8 DEF Piece
<1>10. wire'[d] = Append(wire[d], p) /\ \A e \in Dirs : e # d => wire'[e] = wire[e]
  BY <1>1, <1>2
<1>11. /\ wire'[d] \in Seq(Piece) /\ Len(wire'[d]) = Len(wire[d]) + 1 /\ Len(wire[d]) \in Nat
       /\ \A i \in 1 .. Len(wire[d]) : wire'[d][i] = wire[d][i]
  BY <1>6, <1>9, <1>10
<1>12. \A e \in Dirs : Wired(e)'
  <2>1. Wired(d)'
    BY <1>2, <1>7, <1>9, PieceAdded
  <2>2. ASSUME NEW e \in Dirs, e # d PROVE Wired(e)'
    <3>1. frames'[e] = frames[e] /\ wire'[e] = wire[e] /\ Wired(e)
      BY <2>2, <1>4, <1>10 DEF WireInv
    <3> QED BY <3>1 DEF Wired
  <2> QED BY <2>1, <2>2
<1>13. Len(frames'["request"]) + Len(frames'["response"]) <= MaxFrames
  <2>1. CASE d = "request"
    <3>1. frames'["response"] = frames["response"] /\ Len(frames'["request"]) = Len(frames["request"]) + 1
      BY <2>1, <1>4, <1>7 DEF Dirs
    <3>2. Len(frames'["request"]) \in Nat /\ Len(frames'["response"]) \in Nat
      BY <3>1, <1>1
    <3> QED BY <3>1, <3>2, <1>0, Zenon
  <2>2. CASE d = "response"
    <3>1. frames'["request"] = frames["request"] /\ Len(frames'["response"]) = Len(frames["response"]) + 1
      BY <2>2, <1>4, <1>7 DEF Dirs
    <3>2. Len(frames'["request"]) \in Nat /\ Len(frames'["response"]) \in Nat
      BY <3>1, <1>1
    <3> QED BY <3>1, <3>2, <1>0, Zenon
  <2> QED BY <2>1, <2>2, <1>5
<1> HIDE DEF p, last
<1>14. frames' \in [Dirs -> Seq(HostFrames \cup ServerFrames)] /\ wire' \in [Dirs -> Seq(Piece)]
  BY <1>1, <1>2, <1>4, <1>7, <1>10, <1>11
<1>17. /\ WireTypeOK' <=> answers' \in [1 .. MaxFrames -> Numbers]
       /\ \A e \in Dirs : Wired(e)'
       /\ \A e \in Dirs : Len(frames[e]) <= Len(frames'[e]) /\ Len(wire[e]) <= Len(wire'[e])
       /\ \A e \in Dirs : \A i \in 1 .. Len(frames[e]) : frames'[e][i] = frames[e][i]
       /\ \A e \in Dirs : \A i \in 1 .. Len(wire[e]) : wire'[e][i] = wire[e][i]
  <2>1. ASSUME NEW e \in Dirs
        PROVE  /\ Len(frames[e]) <= Len(frames'[e]) /\ Len(wire[e]) <= Len(wire'[e])
               /\ \A i \in 1 .. Len(frames[e]) : frames'[e][i] = frames[e][i]
               /\ \A i \in 1 .. Len(wire[e]) : wire'[e][i] = wire[e][i]
    <3>1. CASE e = d
      BY <3>1, <1>6, <1>7, <1>11 DEF last
    <3>2. CASE e # d
      <4>1. frames'[e] = frames[e] /\ wire'[e] = wire[e]
        BY <3>2, <1>4, <1>10
      <4>2. Len(frames[e]) \in Nat /\ Len(wire[e]) \in Nat
        BY <1>1
      <4> QED BY <4>1, <4>2
    <3> QED BY <3>1, <3>2
  <2>2. WireTypeOK' <=> answers' \in [1 .. MaxFrames -> Numbers]
    BY <1>13, <1>14 DEF WireTypeOK
  <2> QED BY <1>12, <2>1, <2>2
<1>15. CASE d = "request"
  <2>1. answers' = answers
    BY <1>15 DEF Say
  <2>2. \A i \in 1 .. Len(frames["request"]) : frames'["request"][i] = frames["request"][i]
    BY <1>15, <1>7 DEF last
  <2>3. frames'["response"] = frames["response"] /\ Len(frames'["request"]) = Len(frames["request"]) + 1
    BY <1>15, <1>4, <1>7 DEF Dirs, last
  <2>4. AnswersMatch'
    <3> SUFFICES ASSUME NEW n \in 1 .. MaxFrames, answers[n] # 0
                 PROVE  /\ n \in 1 .. Len(frames'["response"]) /\ answers[n] \in 1 .. Len(frames'["request"])
                        /\ frames'["response"][n].json /\ ~frames'["response"][n].method
                        /\ frames'["response"][n].id # None
                        /\ frames'["request"][answers[n]] = [frames'["response"][n] EXCEPT !.method = TRUE]
      BY <2>1 DEF AnswersMatch
    <3>1. /\ n \in 1 .. Len(frames["response"]) /\ answers[n] \in 1 .. Len(frames["request"])
          /\ frames["response"][n].json /\ ~frames["response"][n].method
          /\ frames["response"][n].id # None
          /\ frames["request"][answers[n]] = [frames["response"][n] EXCEPT !.method = TRUE]
      BY DEF WireInv, AnswersMatch
    <3>2. answers[n] \in 1 .. Len(frames'["request"])
      BY <3>1, <2>3, <1>1
    <3> QED BY <3>1, <3>2, <2>2, <2>3
  <2> QED BY <2>1, <2>4, <1>1, <1>17 DEF WireInv, WireTypeOK, Grown
<1>16. CASE d = "response"
  <2>1. PICK m \in {0} \cup {r \in 1 .. Len(frames["request"]) :
                    /\ Reached(r) /\ frames["request"][r] = [f EXCEPT !.method = TRUE]
                    /\ f.json /\ ~f.method /\ f.id # None} :
          answers' = [answers EXCEPT ![Len(frames["response"]) + 1] = m]
    BY <1>16 DEF Say
  <2>2. \A i \in 1 .. Len(frames["response"]) : frames'["response"][i] = frames["response"][i]
    BY <1>16, <1>7 DEF last
  <2>3. frames'["request"] = frames["request"]
        /\ Len(frames'["response"]) = Len(frames["response"]) + 1
        /\ frames'["response"][Len(frames["response"]) + 1] = f
    BY <1>16, <1>4, <1>7 DEF Dirs, last
  <2>4. m \in Numbers /\ answers' \in [1 .. MaxFrames -> Numbers]
        /\ answers'[Len(frames["response"]) + 1] = m
        /\ \A n \in 1 .. MaxFrames : n # Len(frames["response"]) + 1 => answers'[n] = answers[n]
    <3>1. m \in Numbers
      <4>1. \A r \in 1 .. Len(frames["request"]) : r \in 0 .. MaxFrames
        BY <1>1, <1>0
      <4> QED BY <4>1, <1>0, <2>1 DEF Numbers
    <3>2. Len(frames["response"]) + 1 \in 1 .. MaxFrames
      BY <1>8, <1>16 DEF last
    <3> QED BY <3>1, <3>2, <2>1, <1>1
  <2>5. AnswersMatch'
    <3> SUFFICES ASSUME NEW n \in 1 .. MaxFrames, answers'[n] # 0
                 PROVE  /\ n \in 1 .. Len(frames'["response"]) /\ answers'[n] \in 1 .. Len(frames'["request"])
                        /\ frames'["response"][n].json /\ ~frames'["response"][n].method
                        /\ frames'["response"][n].id # None
                        /\ frames'["request"][answers'[n]] = [frames'["response"][n] EXCEPT !.method = TRUE]
      BY DEF AnswersMatch
    <3>1. CASE n = Len(frames["response"]) + 1
      <4>1. answers'[n] = m /\ m # 0 /\ frames'["response"][n] = f
        BY <3>1, <2>3, <2>4
      <4>2. m \in 1 .. Len(frames["request"]) /\ frames["request"][m] = [f EXCEPT !.method = TRUE]
            /\ f.json /\ ~f.method /\ f.id # None
        BY <4>1, <2>1
      <4> QED BY <4>1, <4>2, <3>1, <2>3, <1>1
    <3>2. CASE n # Len(frames["response"]) + 1
      <4>1. answers'[n] = answers[n]
        BY <3>2, <2>4
      <4>2. /\ n \in 1 .. Len(frames["response"]) /\ answers[n] \in 1 .. Len(frames["request"])
            /\ frames["response"][n].json /\ ~frames["response"][n].method
            /\ frames["response"][n].id # None
            /\ frames["request"][answers[n]] = [frames["response"][n] EXCEPT !.method = TRUE]
        BY <4>1 DEF WireInv, AnswersMatch
      <4>3. n \in 1 .. Len(frames'["response"])
        BY <4>2, <2>3, <1>1
      <4> QED BY <4>1, <4>2, <4>3, <2>2, <2>3
    <3> QED BY <3>1, <3>2
  <2>6. \A n \in 1 .. Len(frames["response"]) : answers'[n] = answers[n]
    <3>1. \A n \in 1 .. Len(frames["response"]) :
             n \in 1 .. MaxFrames /\ n # Len(frames["response"]) + 1
      BY <1>0
    <3> QED BY <3>1, <2>4
  <2> QED BY <2>4, <2>5, <2>6, <1>17 DEF WireInv, WireTypeOK, Grown
<1> QED BY <1>5, <1>15, <1>16

LEMMA LineFinished ==
    ASSUME WireInv, NEW d \in Dirs, Finish(d)
    PROVE  WireInv' /\ Grown
<1> DEFINE p == [frame |-> Len(frames[d]), part |-> "end"]
<1>1. /\ frames \in [Dirs -> Seq(HostFrames \cup ServerFrames)] /\ wire \in [Dirs -> Seq(Piece)]
      /\ frames[d] \in Seq(HostFrames \cup ServerFrames) /\ Len(frames[d]) \in Nat
      /\ wire[d] \in Seq(Piece) /\ Len(wire[d]) \in Nat
  BY DEF WireInv, WireTypeOK
<1>2. ~AtLineStart(d) /\ wire' = [wire EXCEPT ![d] = Append(@, p)] /\ UNCHANGED <<frames, answers>>
  BY DEF Finish
<1>3. p \in Piece
  <2>1. wire[d] # <<>> /\ Wired(d)
    BY <1>2 DEF AtLineStart, WireInv
  <2>2. Len(wire[d]) \in 1 .. Len(wire[d])
    BY <2>1, <1>1
  <2>3. wire[d][Len(wire[d])].frame = Len(frames[d]) /\ wire[d][Len(wire[d])] \in Piece
    BY <2>1, <2>2, <1>1 DEF Wired
  <2> QED BY <2>3 DEF Piece, Parts
<1>4. wire'[d] = Append(wire[d], p) /\ \A e \in Dirs : e # d => wire'[e] = wire[e]
  BY <1>1, <1>2
<1>5. /\ wire'[d] \in Seq(Piece) /\ Len(wire'[d]) = Len(wire[d]) + 1
      /\ \A i \in 1 .. Len(wire[d]) : wire'[d][i] = wire[d][i]
  BY <1>1, <1>3, <1>4
<1>6. \A e \in Dirs : Wired(e)'
  <2>1. Wired(d)'
    BY <1>2, <1>3, PieceAdded
  <2>2. ASSUME NEW e \in Dirs, e # d PROVE Wired(e)'
    BY <2>2, <1>2, <1>4 DEF WireInv, Wired
  <2> QED BY <2>1, <2>2
<1> HIDE DEF p
<1>7. wire' \in [Dirs -> Seq(Piece)]
  BY <1>1, <1>2, <1>4, <1>5
<1>8. Grown
  <2>1. \A e \in Dirs : Len(frames[e]) \in Nat /\ Len(wire[e]) \in Nat
    BY <1>1
  <2> QED BY <2>1, <1>2, <1>4, <1>5 DEF Grown
<1> QED BY <1>2, <1>6, <1>7, <1>8 DEF WireInv, WireTypeOK, AnswersMatch

LEMMA WireStep ==
    ASSUME WireInv, [RelayNext]_relayVars
    PROVE  WireInv' /\ Grown
<1>1. ASSUME UNCHANGED <<frames, answers, wire>> PROVE WireInv' /\ Grown
  <2>1. \A d \in Dirs : Len(frames[d]) \in Nat /\ Len(wire[d]) \in Nat
    BY DEF WireInv, WireTypeOK
  <2>2. Grown
    BY <1>1, <2>1 DEF Grown
  <2>3. WireTypeOK' /\ AnswersMatch'
    BY <1>1 DEF WireInv, WireTypeOK, AnswersMatch
  <2>4. \A d \in Dirs : Wired(d)'
    <3>1. ASSUME NEW d \in Dirs PROVE Wired(d)'
      <4>1. Wired(d) BY DEF WireInv
      <4> QED BY <1>1, <4>1 DEF Wired
    <3> QED BY <3>1
  <2> QED BY <2>2, <2>3, <2>4 DEF WireInv
<1>2. \/ UNCHANGED <<frames, answers, wire>>
      \/ \E d \in Dirs : \/ \E f \in Offered(d), part \in Parts \ {"end"} : Say(d, f, part)
                         \/ Finish(d)
  BY DEF RelayNext, RelayMain, relayVars, ends, PumpForwards, PumpQueue, PumpEnds, ObserverTakes,
     ObserverDrains, HostCloses, ServerExits, Interrupted, ObserverStops, KillsServer,
     WaitReturns, Joins
<1> QED BY <1>1, <1>2, FrameAdded, LineFinished

LEMMA WireStart == RelayInit => WireInv
BY RelayAssumption DEF RelayAssumption, RelayInit, WireInv, WireTypeOK, AnswersMatch, Wired, Numbers, Dirs

LEMMA TailIs ==
    ASSUME NEW S, NEW s \in Seq(S), s # <<>>, NEW t, t = Tail(s)
    PROVE  /\ t \in Seq(S) /\ Len(s) \in Nat \ {0} /\ Len(t) = Len(s) - 1 /\ s[1] = Head(s) /\ s[1] \in S
           /\ \A i \in 1 .. Len(t) : i + 1 \in 1 .. Len(s) /\ t[i] = s[i + 1]
OBVIOUS

LEMMA CopyIsNoSentinel ==
    ASSUME NEW d, NEW p
    PROVE  /\ [dir |-> d, piece |-> p] # Sentinel
           /\ [dir |-> d, piece |-> p].dir = d /\ [dir |-> d, piece |-> p].piece = p
<1>1. DOMAIN [dir |-> d, piece |-> p] = {"dir", "piece"} /\ DOMAIN Sentinel = {"sentinel"}
  BY DEF Sentinel
<1> QED BY <1>1

LEMMA CopyIs ==
    ASSUME QueueTypeOK, NEW i \in 1 .. Len(queue), queue[i] # Sentinel
    PROVE  /\ queue[i] = [dir |-> queue[i].dir, piece |-> queue[i].piece]
           /\ queue[i].dir \in Dirs /\ queue[i].piece \in Nat
<1>1. queue[i] \in [dir : Dirs, piece : Nat]
  BY DEF QueueTypeOK
<1> QED BY <1>1

\* The observer takes what was queued next.
LEMMA NextIsNext ==
    ASSUME QueueInv, NEW d \in Dirs, queue # <<>>, Head(queue) # Sentinel, Head(queue).dir = d
    PROVE  /\ Head(queue).piece = used[d] + 1 /\ used[d] + 1 <= queued[d]
           /\ Head(queue) = [dir |-> d, piece |-> used[d] + 1]
<1>1. queue \in Seq([dir : Dirs, piece : Nat] \cup {Sentinel}) /\ used[d] \in Nat /\ queued[d] \in Nat
  BY DEF QueueInv, QueueTypeOK
<1>2. Len(queue) \in Nat \ {0} /\ queue[1] = Head(queue)
  BY <1>1
<1>3. 1 \in 1 .. Len(queue)
  BY <1>2
<1>4. queue[1] = [dir |-> d, piece |-> queue[1].piece] /\ queue[1].piece \in used[d] + 1 .. queued[d]
  BY <1>2, <1>3, CopyIs DEF QueueInv, Queued
<1>5. used[d] + 1 \in used[d] + 1 .. queued[d]
  BY <1>1, <1>4
<1>6. PICK i \in 1 .. Len(queue) : queue[i] = [dir |-> d, piece |-> used[d] + 1]
  BY <1>5 DEF QueueInv, Queued
<1>7. queue[i] # Sentinel /\ queue[i].dir = d /\ queue[i].piece = used[d] + 1
  BY <1>6, CopyIsNoSentinel
<1>8. i = 1
  <2> SUFFICES ASSUME i # 1 PROVE FALSE
    OBVIOUS
  <2>1. i \in 1 + 1 .. Len(queue)
    BY <1>2
  <2>2. queue[1].piece < queue[i].piece
    BY <2>1, <1>2, <1>3, <1>7 DEF QueueInv, Queued
  <2> QED BY <2>2, <1>1, <1>4, <1>7
<1> QED BY <1>1, <1>2, <1>4, <1>5, <1>7, <1>8

LEMMA PumpStep ==
    ASSUME WireInv, Grown, QueueInv, NEW d \in Dirs,
           PumpForwards(d) \/ PumpEnds(d)
    PROVE  QueueInv'
<1>1. /\ forwarded \in [Dirs -> Nat] /\ pump \in [Dirs -> {"reading", "queuing", "ended"}]
      /\ queued \in [Dirs -> Nat] /\ used \in [Dirs -> Nat]
      /\ UNCHANGED <<queue, queued, used, wire>>
      /\ \A e \in Dirs : Len(wire[e]) \in Nat
  BY DEF QueueInv, QueueTypeOK, PumpForwards, PumpEnds, ends, observed, WireInv, WireTypeOK
<1>2. QueueTypeOK'
  <2>1. forwarded' \in [Dirs -> Nat]
    BY <1>1 DEF PumpForwards, PumpEnds
  <2>2. pump' \in [Dirs -> {"reading", "queuing", "ended"}]
    BY <1>1 DEF PumpForwards, PumpEnds
  <2> QED BY <1>1, <2>1, <2>2 DEF QueueInv, QueueTypeOK
<1>3. Queued'
  BY <1>1 DEF QueueInv, Queued
<1>4. ASSUME NEW e \in Dirs PROVE Counted(e)'
  <2>1. Counted(e) BY DEF QueueInv
  <2> QED BY <1>1, <2>1 DEF Counted, PumpForwards, PumpEnds
<1> QED BY <1>2, <1>3, <1>4 DEF QueueInv

LEMMA CopyQueued ==
    ASSUME WireInv, QueueInv, NEW d \in Dirs, PumpQueue(d)
    PROVE  QueueInv'
<1> DEFINE p == forwarded[d]
           c == [dir |-> d, piece |-> p]
           n == Len(queue)
<1>1. /\ forwarded \in [Dirs -> Nat] /\ pump \in [Dirs -> {"reading", "queuing", "ended"}]
      /\ queued \in [Dirs -> Nat] /\ used \in [Dirs -> Nat]
      /\ queue \in Seq([dir : Dirs, piece : Nat] \cup {Sentinel})
      /\ UNCHANGED <<forwarded, used, wire>>
      /\ pump[d] = "queuing" /\ queue' = Append(queue, c)
      /\ queued' = [queued EXCEPT ![d] = @ + 1] /\ pump' = [pump EXCEPT ![d] = "reading"]
  BY DEF QueueInv, QueueTypeOK, PumpQueue, ends, observed
<1>2. p = queued[d] + 1 /\ queued'[d] = p /\ \A e \in Dirs : e # d => queued'[e] = queued[e]
  <2>1. Counted(d) BY DEF QueueInv
  <2> QED BY <1>1, <2>1 DEF Counted
<1>3. p \in Nat /\ c \in [dir : Dirs, piece : Nat] /\ c # Sentinel /\ c.dir = d /\ c.piece = p
  <2>1. p \in Nat BY <1>1
  <2> QED BY <2>1, CopyIsNoSentinel
<1>4. /\ queue' \in Seq([dir : Dirs, piece : Nat] \cup {Sentinel}) /\ Len(queue') = n + 1 /\ n \in Nat
      /\ queue'[n + 1] = c /\ \A i \in 1 .. n : queue'[i] = queue[i]
  <2> HIDE DEF c
  <2> QED BY <1>1, <1>3, AppendIs
<1>5. QueueTypeOK'
  BY <1>1, <1>2, <1>4 DEF QueueTypeOK
<1>6. ASSUME NEW e \in Dirs PROVE Counted(e)'
  <2>1. Counted(e) BY DEF QueueInv
  <2> QED BY <1>1, <1>2, <2>1 DEF Counted
<1>7. \A e \in Dirs : used[e] \in Nat /\ queued[e] \in Nat /\ queued'[e] \in Nat
                      /\ queued[e] <= queued'[e] /\ used[e] <= queued[e]
  <2>1. \A e \in Dirs : used[e] <= queued[e] BY DEF QueueInv, Counted
  <2> QED BY <1>1, <1>2, <2>1
<1> HIDE DEF c, n, p
<1>8. ASSUME NEW i \in 1 .. n + 1, queue'[i] # Sentinel
      PROVE  queue'[i].piece \in used[queue'[i].dir] + 1 .. queued'[queue'[i].dir]
  <2>1. CASE i = n + 1
    BY <2>1, <1>2, <1>3, <1>4, <1>7
  <2>2. CASE i \in 1 .. n
    <3>1. queue[i].dir \in Dirs /\ queue[i].piece \in used[queue[i].dir] + 1 .. queued[queue[i].dir]
      BY <2>2, <1>4, <1>8, CopyIs DEF QueueInv, Queued, n
    <3> QED BY <3>1, <2>2, <1>4, <1>7
  <2> QED BY <2>1, <2>2, <1>4
<1>9. ASSUME NEW i \in 1 .. n + 1, NEW j \in i + 1 .. n + 1, queue'[i] # Sentinel, queue'[j] # Sentinel,
             queue'[i].dir = queue'[j].dir
      PROVE  queue'[i].piece < queue'[j].piece
  <2>1. i \in 1 .. n /\ queue'[i] = queue[i] /\ queue[i].dir \in Dirs
        /\ queue[i].piece \in used[queue[i].dir] + 1 .. queued[queue[i].dir]
    BY <1>4, <1>9, CopyIs DEF QueueInv, Queued, n
  <2>2. CASE j = n + 1
    BY <2>1, <2>2, <1>2, <1>3, <1>4, <1>7, <1>9
  <2>3. CASE j \in 1 .. n
    BY <2>1, <2>3, <1>4, <1>9 DEF QueueInv, Queued, n
  <2> QED BY <2>2, <2>3, <1>4
<1>10. ASSUME NEW e \in Dirs, NEW q \in used[e] + 1 .. queued'[e]
       PROVE  \E i \in 1 .. n + 1 : queue'[i] = [dir |-> e, piece |-> q]
  <2>1. CASE q \in used[e] + 1 .. queued[e]
    <3>1. PICK i \in 1 .. n : queue[i] = [dir |-> e, piece |-> q]
      BY <2>1 DEF QueueInv, Queued, n
    <3> QED BY <3>1, <1>4
  <2>2. CASE e = d /\ q = p
    BY <2>2, <1>4 DEF c
  <2> QED BY <2>1, <2>2, <1>2, <1>7
<1>11. Queued'
  <2>1. Len(queue') = n + 1 /\ used' = used
    BY <1>1, <1>4
  <2> QED BY <2>1, <1>8, <1>9, <1>10 DEF Queued
<1> QED BY <1>5, <1>6, <1>11 DEF QueueInv

\* Taking the first item off the queue; u is what is used then.
LEMMA CopyTaken ==
    ASSUME QueueInv, queue # <<>>, queue' = Tail(queue), UNCHANGED <<forwarded, pump, queued>>,
           \A e \in Dirs : Len(wire[e]) <= Len(wire'[e]), WireInv, WireInv',
           \/ Head(queue) = Sentinel /\ used' = used
           \/ \E d \in Dirs : /\ Head(queue) # Sentinel /\ Head(queue).dir = d
                              /\ used' = [used EXCEPT ![d] = @ + 1]
    PROVE  QueueInv'
<1> DEFINE n == Len(queue)
<1>1. /\ forwarded \in [Dirs -> Nat] /\ pump \in [Dirs -> {"reading", "queuing", "ended"}]
      /\ queued \in [Dirs -> Nat] /\ used \in [Dirs -> Nat]
      /\ queue \in Seq([dir : Dirs, piece : Nat] \cup {Sentinel})
      /\ \A e \in Dirs : Len(wire[e]) \in Nat /\ Len(wire'[e]) \in Nat
  BY DEF QueueInv, QueueTypeOK, WireInv, WireTypeOK
<1>2. /\ queue' \in Seq([dir : Dirs, piece : Nat] \cup {Sentinel}) /\ Len(queue') = n - 1
      /\ n \in Nat \ {0} /\ queue[1] = Head(queue)
      /\ \A i \in 1 .. n - 1 : i + 1 \in 1 .. n /\ queue'[i] = queue[i + 1]
  BY <1>1, TailIs
<1>3. \A e \in Dirs : /\ used'[e] \in Nat /\ used[e] \in Nat /\ used[e] <= used'[e] /\ used'[e] <= queued[e]
                      /\ used'[e] <= used[e] + 1
                      /\ used'[e] # used[e] => queue[1] = [dir |-> e, piece |-> used[e] + 1]
  <2>1. CASE used' = used
    BY <2>1, <1>1 DEF QueueInv, Counted
  <2>2. ASSUME NEW d \in Dirs, Head(queue) # Sentinel, Head(queue).dir = d,
               used' = [used EXCEPT ![d] = @ + 1]
        PROVE  /\ used' \in [Dirs -> Nat]
               /\ \A e \in Dirs : /\ used[e] <= used'[e] /\ used'[e] <= queued[e]
                                  /\ used'[e] <= used[e] + 1
                                  /\ used'[e] # used[e] => queue[1] = [dir |-> e, piece |-> used[e] + 1]
    <3>0. used' \in [Dirs -> Nat] /\ used'[d] = used[d] + 1
          /\ \A e \in Dirs : e # d => used'[e] = used[e]
      BY <2>2, <1>1
    <3>1. Head(queue) = [dir |-> d, piece |-> used[d] + 1] /\ used[d] + 1 <= queued[d]
      BY <2>2, NextIsNext
    <3>2. \A e \in Dirs : used[e] <= queued[e] BY DEF QueueInv, Counted
    <3>3. \A e \in Dirs : used[e] \in Nat /\ queued[e] \in Nat
      BY <1>1
    <3> QED BY <3>0, <3>1, <3>2, <3>3, <1>2
  <2>3. used' \in [Dirs -> Nat]
    BY <2>1, <2>2, <1>1
  <2>4. \A e \in Dirs : used'[e] \in Nat /\ used[e] \in Nat
    BY <2>3, <1>1
  <2> QED BY <2>1, <2>2, <2>4
<1>4. used' \in [Dirs -> Nat]
  <2>1. CASE used' = used
    BY <2>1, <1>1
  <2>2. ASSUME NEW d \in Dirs, used' = [used EXCEPT ![d] = @ + 1] PROVE used' \in [Dirs -> Nat]
    BY <2>2, <1>1
  <2> QED BY <2>1, <2>2
<1>5. QueueTypeOK'
  BY <1>1, <1>2, <1>4 DEF QueueTypeOK
<1>6. ASSUME NEW e \in Dirs PROVE Counted(e)'
  <2>1. Counted(e) BY DEF QueueInv
  <2>2. /\ used'[e] <= queued[e] /\ Len(wire[e]) \in Nat /\ Len(wire'[e]) \in Nat
        /\ Len(wire[e]) <= Len(wire'[e]) /\ forwarded[e] \in Nat /\ queued[e] \in Nat
    BY <1>1, <1>3
  <2> QED BY <2>1, <2>2 DEF Counted
<1>7. ASSUME NEW i \in 1 .. n - 1, queue'[i] # Sentinel
      PROVE  queue'[i].piece \in used'[queue'[i].dir] + 1 .. queued[queue'[i].dir]
  <2> DEFINE e == queue[i + 1].dir
  <2>1. /\ i + 1 \in 1 .. n /\ queue'[i] = queue[i + 1] /\ e \in Dirs
        /\ queue[i + 1].piece \in used[e] + 1 .. queued[e] /\ queue[i + 1].piece \in Nat
    BY <1>2, <1>7, CopyIs DEF QueueInv, Queued
  <2>2. CASE used'[e] = used[e]
    BY <2>1, <2>2
  <2>3. CASE used'[e] # used[e]
    <3>1. queue[1] = [dir |-> e, piece |-> used[e] + 1] /\ used'[e] = used[e] + 1
      BY <2>1, <2>3, <1>3
    <3>2. queue[1] # Sentinel /\ queue[1].dir = e /\ queue[1].piece = used[e] + 1
      BY <3>1, CopyIsNoSentinel
    <3>3. i + 1 \in 1 + 1 .. n /\ 1 \in 1 .. n
      BY <2>1
    <3>4. queue[1].piece < queue[i + 1].piece
      BY <3>2, <3>3, <2>1, <1>7 DEF QueueInv, Queued
    <3>5. used[e] \in Nat /\ queued[e] \in Nat
      BY <2>1, <1>1
    <3>6. queue'[i].dir = e /\ queue'[i].piece = queue[i + 1].piece
      BY <2>1
    <3> HIDE DEF e
    <3> QED BY <3>1, <3>2, <3>4, <3>5, <3>6, <2>1
  <2> QED BY <2>2, <2>3
<1>8. ASSUME NEW i \in 1 .. n - 1, NEW j \in i + 1 .. n - 1, queue'[i] # Sentinel, queue'[j] # Sentinel,
             queue'[i].dir = queue'[j].dir
      PROVE  queue'[i].piece < queue'[j].piece
  <2>1. i + 1 \in 1 .. n /\ j + 1 \in (i + 1) + 1 .. n /\ queue'[i] = queue[i + 1] /\ queue'[j] = queue[j + 1]
    BY <1>2
  <2> QED BY <2>1, <1>8 DEF QueueInv, Queued
<1>9. ASSUME NEW e \in Dirs, NEW q \in used'[e] + 1 .. queued[e]
      PROVE  \E i \in 1 .. n - 1 : queue'[i] = [dir |-> e, piece |-> q]
  <2>1. q \in used[e] + 1 .. queued[e]
    BY <1>1, <1>3
  <2>2. PICK i \in 1 .. n : queue[i] = [dir |-> e, piece |-> q]
    BY <2>1 DEF QueueInv, Queued
  <2>3. i # 1
    <3> SUFFICES ASSUME i = 1 PROVE FALSE
      OBVIOUS
    <3>1. queue[1].dir = e /\ queue[1].piece = q /\ queue[1] # Sentinel
      BY <2>2, CopyIsNoSentinel
    <3>2. used'[e] # used[e]
      <4>1. Head(queue) # Sentinel /\ Head(queue).dir = e
        BY <3>1, <1>2
      <4> QED BY <4>1, <1>1
    <3>3. queue[1] = [dir |-> e, piece |-> used[e] + 1]
      BY <3>2, <1>3
    <3>4. q = used[e] + 1
      BY <3>1, <3>3, CopyIsNoSentinel
    <3> QED BY <3>2, <3>4, <1>1, <1>3
  <2>4. i - 1 \in 1 .. n - 1 /\ (i - 1) + 1 = i
    BY <2>3, <1>2
  <2>5. queue'[i - 1] = queue[i]
    BY <2>4, <1>2
  <2> QED BY <2>2, <2>4, <2>5
<1>10. Queued'
  <2> HIDE DEF n
  <2>1. Len(queue') = n - 1 BY <1>2
  <2> QED BY <2>1, <1>7, <1>8, <1>9 DEF Queued
<1> QED BY <1>5, <1>6, <1>10 DEF QueueInv

LEMMA SentinelQueued ==
    ASSUME QueueInv, WireInv, queue' = Append(queue, Sentinel), UNCHANGED <<forwarded, pump, queued, used, wire>>
    PROVE  QueueInv'
<1> DEFINE n == Len(queue)
<1>1. queue \in Seq([dir : Dirs, piece : Nat] \cup {Sentinel})
  BY DEF QueueInv, QueueTypeOK
<1>2. /\ queue' \in Seq([dir : Dirs, piece : Nat] \cup {Sentinel}) /\ Len(queue') = n + 1 /\ n \in Nat
      /\ queue'[n + 1] = Sentinel /\ \A i \in 1 .. n : queue'[i] = queue[i]
  BY <1>1, AppendIs
<1>3. QueueTypeOK'
  BY <1>2 DEF QueueInv, QueueTypeOK
<1>4. ASSUME NEW e \in Dirs PROVE Counted(e)'
  <2>1. Counted(e) BY DEF QueueInv
  <2> QED BY <2>1 DEF Counted
<1>5. ASSUME NEW i \in 1 .. n + 1, queue'[i] # Sentinel
      PROVE  i \in 1 .. n /\ queue'[i] = queue[i]
  BY <1>2, <1>5
<1>6. ASSUME NEW i \in 1 .. n + 1, NEW j \in i + 1 .. n + 1, queue'[i] # Sentinel, queue'[j] # Sentinel,
             queue'[i].dir = queue'[j].dir
      PROVE  queue'[i].piece < queue'[j].piece
  <2>1. i \in 1 .. n /\ queue'[i] = queue[i]
    BY <1>5, <1>6
  <2>2. j \in i + 1 .. n /\ queue'[j] = queue[j]
    BY <1>2, <1>6
  <2> QED BY <2>1, <2>2, <1>6 DEF QueueInv, Queued
<1>7. ASSUME NEW e \in Dirs, NEW q \in used[e] + 1 .. queued[e]
      PROVE  \E i \in 1 .. n + 1 : queue'[i] = [dir |-> e, piece |-> q]
  <2>1. PICK i \in 1 .. n : queue[i] = [dir |-> e, piece |-> q]
    BY <1>7 DEF QueueInv, Queued
  <2> QED BY <2>1, <1>2
<1>8. ASSUME NEW i \in 1 .. n + 1, queue'[i] # Sentinel
      PROVE  queue'[i].piece \in used[queue'[i].dir] + 1 .. queued[queue'[i].dir]
  BY <1>5, <1>8 DEF QueueInv, Queued
<1>9. Queued'
  <2> HIDE DEF n
  <2>1. Len(queue') = n + 1 BY <1>2
  <2> QED BY <2>1, <1>6, <1>7, <1>8 DEF Queued
<1> QED BY <1>3, <1>4, <1>9 DEF QueueInv

LEMMA QueueStep ==
    ASSUME WireInv, QueueInv, [RelayNext]_relayVars
    PROVE  QueueInv'
<1>1. WireInv' /\ Grown
  BY WireStep
<1>2. CASE UNCHANGED <<forwarded, pump, queue, queued, used>>
  <2>1. \A d \in Dirs : Len(wire[d]) \in Nat /\ Len(wire'[d]) \in Nat /\ Len(wire[d]) <= Len(wire'[d])
    BY <1>1 DEF WireInv, WireTypeOK, Grown
  <2>2. QueueTypeOK' /\ Queued'
    BY <1>2 DEF QueueInv, QueueTypeOK, Queued
  <2>3. ASSUME NEW d \in Dirs PROVE Counted(d)'
    <3>1. Counted(d) /\ forwarded[d] \in Nat BY DEF QueueInv, QueueTypeOK
    <3> QED BY <1>2, <2>1, <3>1 DEF Counted
  <2> QED BY <2>2, <2>3 DEF QueueInv
<1>3. ASSUME NEW d \in Dirs, ObserverTakes(d) PROVE QueueInv'
  <2>1. /\ queue # <<>> /\ queue' = Tail(queue) /\ UNCHANGED <<forwarded, pump, queued>>
        /\ Head(queue) # Sentinel /\ Head(queue).dir = d /\ used' = [used EXCEPT ![d] = @ + 1]
    BY <1>3 DEF ObserverTakes, pumps
  <2> QED BY <2>1, <1>1, CopyTaken DEF Grown
<1>4. ASSUME ObserverStops PROVE QueueInv'
  <2>1. /\ queue # <<>> /\ queue' = Tail(queue) /\ UNCHANGED <<forwarded, pump, queued, used>>
        /\ Head(queue) = Sentinel
    BY <1>4 DEF ObserverStops, pumps
  <2> QED BY <2>1, <1>1, CopyTaken DEF Grown
<1>5. ASSUME WaitReturns PROVE QueueInv'
  BY <1>5, SentinelQueued DEF WaitReturns, pumps, ends, observed
<1>6. \/ UNCHANGED <<forwarded, pump, queue, queued, used>>
      \/ \E d \in Dirs : PumpForwards(d) \/ PumpQueue(d) \/ PumpEnds(d) \/ ObserverTakes(d)
      \/ ObserverStops \/ WaitReturns
  BY DEF RelayNext, RelayMain, relayVars, pumps, observed, Say, Finish, ObserverDrains, HostCloses,
     ServerExits, Interrupted, KillsServer, Joins
<1> QED BY <1>1, <1>2, <1>3, <1>4, <1>5, <1>6, PumpStep, CopyQueued

LEMMA QueueStart == RelayInit => QueueInv
BY DEF RelayInit, QueueInv, QueueTypeOK, Queued, Counted

LEMMA UpToIs ==
    ASSUME NEW n \in Nat
    PROVE  /\ UpTo(n) \in Seq(Nat) /\ Len(UpTo(n)) = n /\ \A i \in 1 .. n : UpTo(n)[i] = i
           /\ Append(UpTo(n), n + 1) = UpTo(n + 1)
<1>1. UpTo(n) \in Seq(Nat) /\ Len(UpTo(n)) = n /\ \A i \in 1 .. n : UpTo(n)[i] = i
  BY DEF UpTo
<1>2. UpTo(n + 1) \in Seq(Nat) /\ Len(UpTo(n + 1)) = n + 1 /\ \A i \in 1 .. n + 1 : UpTo(n + 1)[i] = i
  BY DEF UpTo
<1> DEFINE s == UpTo(n)
           t == UpTo(n + 1)
<1> HIDE DEF s, t
<1>3. s \in Seq(Nat) /\ Len(s) = n /\ \A i \in 1 .. n : s[i] = i
  BY <1>1 DEF s
<1>4. Append(s, n + 1) \in Seq(Nat) /\ Len(Append(s, n + 1)) = n + 1
      /\ \A i \in 1 .. n + 1 : Append(s, n + 1)[i] = i
  BY <1>3
<1>5. Append(s, n + 1) = t
  BY <1>2, <1>4, SeqEqual DEF t
<1> QED BY <1>1, <1>5 DEF s, t

\* The two pieces around the next one to take.
LEMMA PiecesMeet ==
    ASSUME WireInv, NEW d \in Dirs, NEW u \in Nat, u + 1 <= Len(wire[d]),
           NEW p, p = wire[d][u + 1], NEW q, q = wire[d][u]
    PROVE  /\ p \in Piece /\ p.frame \in 1 .. Len(frames[d]) /\ p.frame <= MaxFrames
           /\ u = 0 => p.frame = 1 /\ p.part # "end"
           /\ u # 0 => /\ q \in Piece /\ q.frame \in 1 .. Len(frames[d])
                       /\ Completes(q) => p.frame = q.frame + 1 /\ p.part # "end"
                       /\ ~Completes(q) => p.frame = q.frame /\ p.part = "end"
<1>1. wire[d] \in Seq(Piece) /\ Wired(d) /\ Len(wire[d]) \in Nat
  BY DEF WireInv, WireTypeOK
<1>2. u + 1 \in 1 .. Len(wire[d]) /\ (u # 0 => u \in 1 .. Len(wire[d]) /\ u + 1 \in u + 1 .. Len(wire[d]))
  BY <1>1
<1>3. p \in Piece /\ (u # 0 => q \in Piece)
  BY <1>1, <1>2
<1>4. p.frame \in 1 .. Len(frames[d]) /\ (u # 0 => q.frame \in 1 .. Len(frames[d]))
  BY <1>1, <1>2 DEF Wired
<1>5. p.frame <= MaxFrames
  BY <1>3, RelayAssumption DEF Piece, RelayAssumption
<1>6. u = 0 => p.frame = 1 /\ p.part # "end"
  BY <1>1, <1>2 DEF Wired
<1>7. u # 0 /\ Completes(q) => p.frame = q.frame + 1 /\ p.part # "end"
  BY <1>1, <1>2 DEF Wired
<1>8. u # 0 /\ ~Completes(q) => p.frame = q.frame /\ p.part = "end"
  BY <1>1, <1>2 DEF Wired
<1> QED BY <1>3, <1>4, <1>5, <1>6, <1>7, <1>8

\* How many lines were handed over, and that they are frames.
LEMMA LinesAre ==
    ASSUME WireInv, QueueInv, ReadInv, NEW d \in Dirs
    PROVE  /\ LinesUsed(d) \in 0 .. Len(frames[d]) /\ Len(frames[d]) \in Nat
           /\ seen[d] \in Seq(Nat) /\ Len(seen[d]) = LinesUsed(d)
           /\ \A i \in 1 .. Len(seen[d]) : seen[d][i] = i
<1>1. used[d] \in Nat /\ used[d] <= Len(wire[d]) /\ wire[d] \in Seq(Piece) /\ Wired(d)
      /\ Len(frames[d]) \in Nat
  BY DEF QueueInv, QueueTypeOK, Counted, WireInv, WireTypeOK
<1>2. LinesUsed(d) \in 0 .. Len(frames[d])
  <2>1. CASE used[d] = 0
    BY <2>1, <1>1 DEF LinesUsed
  <2>2. CASE used[d] # 0
    <3>1. used[d] \in 1 .. Len(wire[d])
      BY <2>2, <1>1
    <3>2. wire[d][used[d]].frame \in 1 .. Len(frames[d])
      BY <3>1, <1>1 DEF Wired
    <3> QED BY <3>2, <2>2, <1>1 DEF LinesUsed
  <2> QED BY <2>1, <2>2
<1>3. seen[d] = UpTo(LinesUsed(d))
  BY DEF ReadInv, Reassembled
<1>4. LinesUsed(d) \in Nat
  BY <1>1, <1>2
<1> HIDE DEF LinesUsed
<1> QED BY <1>1, <1>2, <1>3, <1>4, UpToIs

\* A chunk completes the next line, or is the beginning of it.
LEMMA TakesNext ==
    ASSUME WireInv, QueueInv, ReadInv, NEW d \in Dirs, ObserverTakes(d),
           NEW p, p = wire[d][used[d] + 1], NEW n, n = Len(seen[d]) + 1
    PROVE  /\ p \in Piece /\ p.frame = n /\ n \in 1 .. Len(frames[d]) /\ n <= MaxFrames
           /\ Head(queue) = [dir |-> d, piece |-> used[d] + 1]
           /\ Completes(p) => Observe(d, n) /\ buffer'[d] = <<>>
           /\ ~Completes(p) => buffer'[d] = <<p>> /\ UNCHANGED <<seen, pending, mate>>
           /\ \A e \in Dirs : e # d => buffer'[e] = buffer[e] /\ used'[e] = used[e]
           /\ used'[d] = used[d] + 1 /\ used[d] + 1 <= queued[d]
           /\ UNCHANGED <<frames, answers, wire, overtaken, observer, queued>>
<1> DEFINE u == used[d]
           q == wire[d][u]
<1>1. /\ u \in Nat /\ used \in [Dirs -> Nat] /\ buffer \in [Dirs -> Seq(Piece)] /\ Counted(d)
      /\ queued[d] \in Nat /\ forwarded[d] \in Nat /\ Len(wire[d]) \in Nat
  BY DEF QueueInv, QueueTypeOK, ReadInv, ReadTypeOK, WireInv, WireTypeOK
<1>2. /\ queue # <<>> /\ Head(queue) # Sentinel /\ Head(queue).dir = d /\ observer = "running"
      /\ used' = [used EXCEPT ![d] = @ + 1]
      /\ UNCHANGED <<frames, answers, wire, overtaken, observer, queued>>
  BY DEF ObserverTakes, ends, pumps
<1>3. /\ Head(queue).piece = u + 1 /\ u + 1 <= queued[d]
      /\ Head(queue) = [dir |-> d, piece |-> u + 1]
  BY <1>2, NextIsNext
<1>4. IF Completes(p)
        THEN /\ Observe(d, LineOf(buffer[d], p))
             /\ buffer' = [buffer EXCEPT ![d] = <<>>]
        ELSE /\ buffer' = [buffer EXCEPT ![d] = Append(buffer[d], p)]
             /\ UNCHANGED <<seen, pending, mate>>
  BY <1>3 DEF ObserverTakes, BufferOf
<1>5. u + 1 <= Len(wire[d])
  BY <1>1, <1>3 DEF Counted
<1>6. /\ p \in Piece /\ p.frame \in 1 .. Len(frames[d]) /\ p.frame <= MaxFrames
      /\ u = 0 => p.frame = 1 /\ p.part # "end"
      /\ u # 0 => /\ q \in Piece /\ q.frame \in 1 .. Len(frames[d])
                  /\ Completes(q) => p.frame = q.frame + 1 /\ p.part # "end"
                  /\ ~Completes(q) => p.frame = q.frame /\ p.part = "end"
  BY <1>1, <1>5, PiecesMeet
<1>7. Len(seen[d]) = LinesUsed(d) /\ Len(frames[d]) \in Nat
  BY LinesAre
<1>8. LinesUsed(d) = IF u = 0 THEN 0 ELSE IF Completes(q) THEN q.frame ELSE q.frame - 1
  BY <1>2 DEF LinesUsed, Drained
<1>9. buffer[d] = IF u = 0 \/ Completes(q) THEN <<>> ELSE <<q>>
  BY DEF ReadInv, Reassembled
<1> HIDE DEF q, u
<1>10. p.frame = n
  BY <1>1, <1>6, <1>7, <1>8
<1>11. CASE Completes(p)
  <2>1. LineOf(buffer[d], p) = n
    <3>1. CASE u = 0 \/ Completes(q)
      <4>1. buffer[d] = <<>> /\ p.part # "end"
        BY <3>1, <1>6, <1>9
      <4>2. p.part = "line"
        BY <4>1, <1>11 DEF Completes
      <4> QED BY <4>1, <4>2, <1>10 DEF LineOf
    <3>2. CASE ~(u = 0 \/ Completes(q))
      <4>1. buffer[d] = <<q>> /\ p.part = "end" /\ p.frame = q.frame
        BY <3>2, <1>6, <1>9
      <4>2. buffer[d] # <<>> /\ Len(buffer[d]) = 1 /\ buffer[d][1] = q
        BY <4>1
      <4> QED BY <4>1, <4>2, <1>10 DEF LineOf
    <3> QED BY <3>1, <3>2
  <2>2. buffer' = [buffer EXCEPT ![d] = <<>>] /\ Observe(d, n)
    BY <1>4, <1>11, <2>1
  <2>3. buffer'[d] = <<>> /\ \A e \in Dirs : e # d => buffer'[e] = buffer[e]
    BY <2>2, <1>1
  <2> QED BY <2>2, <2>3, <1>1, <1>2, <1>3, <1>6, <1>7, <1>10, <1>11 DEF u
<1>12. CASE ~Completes(p)
  <2>1. buffer[d] = <<>>
    BY <1>6, <1>9, <1>12 DEF Completes
  <2>2. buffer' = [buffer EXCEPT ![d] = <<p>>]
    BY <2>1, <1>4, <1>12
  <2>3. buffer'[d] = <<p>> /\ \A e \in Dirs : e # d => buffer'[e] = buffer[e]
    BY <2>2, <1>1
  <2> QED BY <2>3, <1>1, <1>2, <1>3, <1>4, <1>6, <1>7, <1>10, <1>12 DEF u
<1> QED BY <1>11, <1>12

\* The final drain hands over the line that lacks its newline.
LEMMA DrainsLast ==
    ASSUME WireInv, QueueInv, ReadInv, NEW d \in Dirs, ObserverDrains(d),
           NEW n, n = Len(seen[d]) + 1
    PROVE  /\ UNCHANGED <<frames, answers, wire, queue, used, queued, buffer, overtaken>>
           /\ observer = Drain(d) /\ observer' = (IF d = "request" THEN "drain_response" ELSE "ended")
           /\ \/ /\ used[d] # 0 /\ wire[d][used[d]].part = "text" /\ wire[d][used[d]].frame = n
                 /\ n \in 1 .. Len(frames[d]) /\ n <= MaxFrames /\ Observe(d, n)
              \/ /\ used[d] = 0 \/ wire[d][used[d]].part # "text"
                 /\ UNCHANGED <<seen, pending, mate>>
<1> DEFINE u == used[d]
           q == wire[d][u]
<1>1. /\ UNCHANGED <<frames, answers, wire, queue, used, queued, buffer, overtaken>>
      /\ observer = Drain(d) /\ observer' = (IF d = "request" THEN "drain_response" ELSE "ended")
      /\ IF buffer[d] # <<>> /\ buffer[d][1].part = "text"
           THEN Observe(d, buffer[d][1].frame)
           ELSE UNCHANGED <<seen, pending, mate>>
  BY DEF ObserverDrains, ends, pumps
<1>2. /\ u \in Nat /\ Counted(d) /\ Wired(d) /\ wire[d] \in Seq(Piece) /\ Len(wire[d]) \in Nat
      /\ queued[d] \in Nat /\ forwarded[d] \in Nat
  BY DEF QueueInv, QueueTypeOK, WireInv, WireTypeOK
<1>3. Len(seen[d]) = LinesUsed(d) /\ Len(frames[d]) \in Nat
  BY LinesAre
<1>4. ~Drained(d)
  BY <1>1 DEF Drain, Drained, Dirs
<1>5. u # 0 => u \in 1 .. Len(wire[d])
  BY <1>2 DEF Counted
<1>6. u # 0 => q \in Piece /\ q.frame \in 1 .. Len(frames[d])
  BY <1>2, <1>5 DEF Wired
<1>7. buffer[d] = IF u = 0 \/ Completes(q) THEN <<>> ELSE <<q>>
  BY DEF ReadInv, Reassembled
<1>8. LinesUsed(d) = IF u = 0 THEN 0 ELSE IF Completes(q) THEN q.frame ELSE q.frame - 1
  BY <1>4 DEF LinesUsed
<1> HIDE DEF u, q
<1>9. CASE u # 0 /\ q.part = "text"
  <2>1. ~Completes(q)
    BY <1>9 DEF Completes
  <2>2. buffer[d] # <<>> /\ buffer[d][1] = q
    BY <1>7, <1>9, <2>1
  <2>3. n = q.frame /\ n \in 1 .. Len(frames[d])
    BY <2>1, <1>3, <1>6, <1>8, <1>9
  <2>4. n <= MaxFrames
    BY <2>3, <1>6, <1>9, RelayAssumption DEF Piece, RelayAssumption
  <2>5. Observe(d, n)
    BY <1>1, <1>9, <2>2, <2>3
  <2> QED BY <1>1, <1>9, <2>3, <2>4, <2>5 DEF u, q
<1>10. CASE ~(u # 0 /\ q.part = "text")
  <2>1. ~(buffer[d] # <<>> /\ buffer[d][1].part = "text")
    <3>1. CASE u = 0 \/ Completes(q)
      BY <3>1, <1>7
    <3>2. CASE ~(u = 0 \/ Completes(q))
      <4>1. buffer[d][1] = q
        BY <3>2, <1>7
      <4> QED BY <4>1, <3>2, <1>10
    <3> QED BY <3>1, <3>2
  <2> QED BY <1>1, <1>10, <2>1 DEF u, q
<1> QED BY <1>9, <1>10

LEMMA ReadStep ==
    ASSUME WireInv, QueueInv, ReadInv, [RelayNext]_relayVars
    PROVE  ReadInv'
<1>0. WireInv' /\ Grown /\ QueueInv'
  BY WireStep, QueueStep
<1>1. \A d \in Dirs : used[d] \in Nat /\ used[d] <= Len(wire[d]) /\ wire[d] \in Seq(Piece)
  BY DEF QueueInv, QueueTypeOK, Counted, WireInv, WireTypeOK
<1>2. \A d \in Dirs : used[d] # 0 => wire'[d][used[d]] = wire[d][used[d]]
  <2> SUFFICES ASSUME NEW d \in Dirs, used[d] # 0 PROVE wire'[d][used[d]] = wire[d][used[d]]
    OBVIOUS
  <2>1. used[d] \in 1 .. Len(wire[d])
    BY <1>1
  <2> QED BY <2>1, <1>0 DEF Grown
<1>3. ASSUME UNCHANGED <<used, buffer, seen>>,
             observer' = observer \/ (observer' = "drain_request" /\ observer = "running")
      PROVE  ReadInv'
  <2>1. ReadTypeOK'
    BY <1>3 DEF ReadInv, ReadTypeOK
  <2>2. ASSUME NEW d \in Dirs PROVE Reassembled(d)'
    <3>1. Reassembled(d) /\ (Drained(d)' <=> Drained(d))
      BY <1>3 DEF ReadInv, Drained, Dirs
    <3>2. LinesUsed(d)' = LinesUsed(d)
      BY <1>2, <1>3, <3>1 DEF LinesUsed
    <3> QED BY <1>2, <1>3, <3>1, <3>2 DEF Reassembled
  <2> QED BY <2>1, <2>2 DEF ReadInv
<1>4. ASSUME NEW d \in Dirs, ObserverTakes(d) PROVE ReadInv'
  <2> DEFINE p == wire[d][used[d] + 1]
             n == Len(seen[d]) + 1
  <2>1. /\ p \in Piece /\ p.frame = n /\ n \in 1 .. Len(frames[d]) /\ n <= MaxFrames
        /\ Completes(p) => Observe(d, n) /\ buffer'[d] = <<>>
        /\ ~Completes(p) => buffer'[d] = <<p>> /\ UNCHANGED <<seen, pending, mate>>
        /\ \A e \in Dirs : e # d => buffer'[e] = buffer[e] /\ used'[e] = used[e]
        /\ used'[d] = used[d] + 1 /\ used[d] + 1 <= queued[d]
        /\ UNCHANGED <<frames, answers, wire, overtaken, observer, queued>>
    <3> HIDE DEF p, n
    <3> QED BY <1>4, TakesNext DEF p, n
  <2>2. /\ seen \in [Dirs -> Seq(Nat)] /\ buffer \in [Dirs -> Seq(Piece)] /\ observer = "running"
        /\ DOMAIN buffer' = Dirs
    BY <1>4 DEF ReadInv, ReadTypeOK, ObserverTakes
  <2>3. seen[d] = UpTo(n - 1) /\ n \in Nat \ {0} /\ n - 1 \in Nat /\ \A e \in Dirs : Reassembled(e)
    <3>1. Len(seen[d]) \in Nat /\ seen[d] = UpTo(Len(seen[d]))
      <4>1. Len(seen[d]) = LinesUsed(d) /\ seen[d] \in Seq(Nat)
        BY LinesAre
      <4>2. seen[d] = UpTo(LinesUsed(d))
        BY DEF ReadInv, Reassembled
      <4> QED BY <4>1, <4>2
    <3>2. n - 1 = Len(seen[d]) /\ n \in Nat \ {0}
      BY <3>1
    <3> QED BY <3>1, <3>2 DEF ReadInv
  <2>4. \A e \in Dirs : Drained(e)' <=> Drained(e)
    BY <2>1 DEF Drained
  <2>5. ~Drained(d)
    BY <2>2 DEF Drained, Dirs
  <2> HIDE DEF p, n
  <2>6. used[d] \in Nat /\ used'[d] # 0 /\ wire'[d][used'[d]] = p
    BY <1>1, <2>1 DEF p
  <2>7. LinesUsed(d)' = IF Completes(p) THEN n ELSE n - 1
    BY <2>1, <2>4, <2>5, <2>6 DEF LinesUsed
  <2>8. seen' = IF Completes(p) THEN [seen EXCEPT ![d] = Append(@, n)] ELSE seen
    BY <2>1 DEF Observe
  <2>9. seen'[d] = UpTo(LinesUsed(d)')
    <3>1. CASE Completes(p)
      <4>1. seen'[d] = Append(UpTo(n - 1), n)
        BY <3>1, <2>2, <2>3, <2>8
      <4>2. (n - 1) + 1 = n
        BY <2>3
      <4>3. Append(UpTo(n - 1), (n - 1) + 1) = UpTo((n - 1) + 1)
        BY <2>3, UpToIs
      <4> QED BY <3>1, <4>1, <4>2, <4>3, <2>7
    <3>2. CASE ~Completes(p)
      BY <3>2, <2>3, <2>7, <2>8
    <3> QED BY <3>1, <3>2
  <2>10. Reassembled(d)'
    <3>1. buffer'[d] = IF Completes(p) THEN <<>> ELSE <<p>>
      BY <2>1
    <3> QED BY <3>1, <2>6, <2>9 DEF Reassembled
  <2>11. ASSUME NEW e \in Dirs, e # d PROVE Reassembled(e)'
    <3>1. UNCHANGED <<buffer[e], used[e], wire, seen[e]>> /\ Reassembled(e)
      BY <2>1, <2>2, <2>3, <2>8, <2>11
    <3>2. LinesUsed(e)' = LinesUsed(e)
      BY <3>1, <2>4 DEF LinesUsed
    <3> QED BY <3>1, <3>2 DEF Reassembled
  <2>12. ReadTypeOK'
    <3>1. buffer' \in [Dirs -> Seq(Piece)]
      <4>1. buffer'[d] \in Seq(Piece)
        <5>1. <<>> \in Seq(Piece) /\ <<p>> \in Seq(Piece)
          BY <2>1
        <5> QED BY <5>1, <2>1
      <4>2. buffer' = [e \in Dirs |-> buffer'[e]]
        BY <1>4, <2>2 DEF ObserverTakes
      <4> QED BY <4>1, <4>2, <2>1, <2>2
    <3>2. seen' \in [Dirs -> Seq(Nat)]
      <4>1. Append(seen[d], n) \in Seq(Nat)
        BY <2>2, <2>3
      <4> QED BY <4>1, <2>2, <2>8
    <3> QED BY <3>1, <3>2, <2>1, <2>2 DEF ReadTypeOK
  <2> QED BY <2>10, <2>11, <2>12 DEF ReadInv
<1>5. ASSUME NEW d \in Dirs, ObserverDrains(d) PROVE ReadInv'
  <2> DEFINE q == wire[d][used[d]]
             n == Len(seen[d]) + 1
  <2>1. /\ UNCHANGED <<frames, answers, wire, queue, used, queued, buffer, overtaken>>
        /\ observer = Drain(d) /\ observer' = (IF d = "request" THEN "drain_response" ELSE "ended")
        /\ \/ /\ used[d] # 0 /\ q.part = "text" /\ q.frame = n
              /\ n \in 1 .. Len(frames[d]) /\ n <= MaxFrames /\ Observe(d, n)
           \/ /\ used[d] = 0 \/ q.part # "text"
              /\ UNCHANGED <<seen, pending, mate>>
    <3> HIDE DEF q, n
    <3> QED BY <1>5, DrainsLast DEF q, n
  <2>2. seen \in [Dirs -> Seq(Nat)] /\ \A e \in Dirs : Reassembled(e)
    BY DEF ReadInv, ReadTypeOK
  <2>3. seen[d] = UpTo(n - 1) /\ n - 1 \in Nat /\ (n - 1) + 1 = n /\ LinesUsed(d) = n - 1
    <3>1. Len(seen[d]) \in Nat /\ seen[d] = UpTo(Len(seen[d])) /\ LinesUsed(d) = Len(seen[d])
      <4>1. Len(seen[d]) = LinesUsed(d) /\ seen[d] \in Seq(Nat)
        BY LinesAre
      <4>2. seen[d] = UpTo(LinesUsed(d))
        BY DEF ReadInv, Reassembled
      <4> QED BY <4>1, <4>2
    <3>2. n - 1 = Len(seen[d]) /\ (n - 1) + 1 = n
      BY <3>1
    <3> QED BY <3>1, <3>2
  <2>4. Drained(d)' /\ ~Drained(d) /\ \A e \in Dirs : e # d => (Drained(e)' <=> Drained(e))
    BY <2>1 DEF Drained, Drain, Dirs
  <2>5. ASSUME NEW e \in Dirs, e # d, seen'[e] = seen[e] PROVE Reassembled(e)'
    <3>1. LinesUsed(e)' = LinesUsed(e)
      BY <2>1, <2>4, <2>5 DEF LinesUsed
    <3> QED BY <2>1, <2>2, <2>5, <3>1 DEF Reassembled
  <2>6. UNCHANGED <<wire, used>>
    BY <2>1
  <2> HIDE DEF n
  <2>7. CASE used[d] # 0 /\ q.part = "text" /\ q.frame = n /\ Observe(d, n)
    <3>1. seen' = [seen EXCEPT ![d] = Append(@, n)]
      BY <2>7 DEF Observe
    <3>2. seen'[d] = UpTo(n)
      <4>1. seen'[d] = Append(UpTo(n - 1), (n - 1) + 1)
        BY <3>1, <2>2, <2>3
      <4> QED BY <4>1, <2>3, UpToIs
    <3>3. LinesUsed(d)' = n
      BY <2>4, <2>6, <2>7 DEF LinesUsed
    <3>4. Reassembled(d)'
      BY <3>2, <3>3, <2>1, <2>2 DEF Reassembled
    <3>5. seen' \in [Dirs -> Seq(Nat)] /\ \A e \in Dirs : e # d => seen'[e] = seen[e]
      <4>1. UpTo(n) \in Seq(Nat)
        <5>1. n \in Nat BY <2>3
        <5> QED BY <5>1, UpToIs
      <4> QED BY <4>1, <3>1, <3>2, <2>2
    <3>6. ReadTypeOK'
      BY <3>5, <2>1 DEF ReadInv, ReadTypeOK
    <3> QED BY <3>4, <3>5, <3>6, <2>5 DEF ReadInv
  <2>8. CASE (used[d] = 0 \/ q.part # "text") /\ UNCHANGED <<seen, pending, mate>>
    <3>1. LinesUsed(d)' = LinesUsed(d)
      BY <2>4, <2>6, <2>8 DEF LinesUsed
    <3>2. Reassembled(d)'
      BY <3>1, <2>1, <2>2, <2>8 DEF Reassembled
    <3>3. ReadTypeOK'
      BY <2>1, <2>8 DEF ReadInv, ReadTypeOK
    <3> QED BY <3>2, <3>3, <2>5, <2>8 DEF ReadInv
  <2> QED BY <2>1, <2>7, <2>8
<1>7. ASSUME ObserverStops PROVE ReadInv'
  BY <1>3, <1>7 DEF ObserverStops
<1>6. \/ UNCHANGED <<used, buffer, seen, observer>> \/ ObserverStops
      \/ \E d \in Dirs : ObserverTakes(d) \/ ObserverDrains(d)
  BY DEF RelayNext, RelayMain, relayVars, pumps, observed, Say, Finish, HostCloses,
     ServerExits, Interrupted, KillsServer, Joins, PumpForwards, PumpQueue, PumpEnds,
     WaitReturns
<1>8. CASE UNCHANGED <<used, buffer, seen, observer>>
  BY <1>3, <1>8
<1> QED BY <1>4, <1>5, <1>6, <1>7, <1>8

LEMMA ReadStart == RelayInit => ReadInv
<1>1. UpTo(0) = <<>>
  BY DEF UpTo
<1> QED BY <1>1 DEF RelayInit, ReadInv, ReadTypeOK, Reassembled, LinesUsed

\* What precedes on the queue goes on doing so.
LEMMA PrecedesStays ==
    ASSUME QueueInv, NEW c \in Nat, NEW p, Precedes(c, p),
           \/ UNCHANGED <<queue, used>>
           \/ used' = used /\ \E x \in [dir : Dirs, piece : Nat] \cup {Sentinel} : queue' = Append(queue, x)
           \/ queue # <<>> /\ queue' = Tail(queue) /\ Head(queue) = Sentinel /\ used' = used
           \/ \E d \in Dirs : /\ queue # <<>> /\ queue' = Tail(queue)
                              /\ Head(queue) # Sentinel /\ Head(queue).dir = d
                              /\ used' = [used EXCEPT ![d] = @ + 1]
    PROVE  Precedes(c, p)'
<1> DEFINE n == Len(queue)
           first == [dir |-> "request", piece |-> c]
           second == [dir |-> "response", piece |-> p]
<1>1. queue \in Seq([dir : Dirs, piece : Nat] \cup {Sentinel}) /\ used \in [Dirs -> Nat] /\ n \in Nat
      /\ "request" \in Dirs
  BY DEF QueueInv, QueueTypeOK, Dirs
<1>2. first # Sentinel /\ first.dir = "request" /\ first.piece = c
  BY CopyIsNoSentinel
<1> HIDE DEF first, second
<1>3. CASE c <= used["request"]
  <2>1. used["request"] \in Nat /\ used'["request"] \in Nat /\ used["request"] <= used'["request"]
    BY <1>1
  <2> QED BY <1>3, <2>1 DEF Precedes
<1>4. ASSUME NEW i \in 1 .. n, NEW j \in i + 1 .. n, queue[i] = first, queue[j] = second
      PROVE  Precedes(c, p)'
  <2>1. CASE UNCHANGED <<queue, used>>
    BY <2>1 DEF Precedes
  <2>2. ASSUME NEW x \in [dir : Dirs, piece : Nat] \cup {Sentinel}, queue' = Append(queue, x)
        PROVE  Precedes(c, p)'
    <3>1. Len(queue') = n + 1 /\ \A y \in 1 .. n : queue'[y] = queue[y]
      BY <1>1, <2>2, AppendIs
    <3>2. i \in 1 .. Len(queue') /\ j \in i + 1 .. Len(queue') /\ j \in 1 .. n
      BY <1>1, <3>1
    <3> QED BY <3>1, <3>2, <1>4 DEF Precedes, first, second
  <2>3. ASSUME queue # <<>>, queue' = Tail(queue), i # 1 PROVE Precedes(c, p)'
    <3>1. Len(queue') = n - 1 /\ \A y \in 1 .. n - 1 : queue'[y] = queue[y + 1]
      <4>1. Len(queue') = n - 1 /\ \A y \in 1 .. Len(queue') : queue'[y] = queue[y + 1]
        BY <1>1, <2>3, TailIs
      <4> QED BY <4>1
    <3>2. i - 1 \in 1 .. Len(queue') /\ j - 1 \in (i - 1) + 1 .. Len(queue')
          /\ (i - 1) + 1 = i /\ (j - 1) + 1 = j /\ i - 1 \in 1 .. n - 1 /\ j - 1 \in 1 .. n - 1
      <4>1. n \in Nat /\ i \in 1 .. n /\ j \in i + 1 .. n /\ i # 1 /\ Len(queue') = n - 1
        BY <1>1, <2>3, <3>1
      <4> HIDE DEF n
      <4>2. \A l : l = n - 1 => /\ i - 1 \in 1 .. l /\ j - 1 \in (i - 1) + 1 .. l
                                /\ (i - 1) + 1 = i /\ (j - 1) + 1 = j
        BY <4>1
      <4> QED BY <4>1, <4>2
    <3>3. queue'[i - 1] = queue[i] /\ queue'[j - 1] = queue[j]
      BY <3>1, <3>2
    <3> QED BY <3>2, <3>3, <1>4 DEF Precedes, first, second
  <2>4. ASSUME queue # <<>>, i = 1 PROVE Head(queue) = first
    BY <1>1, <1>4, <2>4, TailIs
  <2>5. CASE queue # <<>> /\ queue' = Tail(queue) /\ Head(queue) = Sentinel /\ used' = used
    BY <2>3, <2>4, <2>5, <1>2
  <2>6. ASSUME NEW d \in Dirs, queue # <<>>, queue' = Tail(queue),
               Head(queue) # Sentinel, Head(queue).dir = d, used' = [used EXCEPT ![d] = @ + 1]
        PROVE  Precedes(c, p)'
    <3>1. CASE i = 1
      <4>1. d = "request" /\ Head(queue).piece = c
        BY <2>4, <2>6, <3>1, <1>2
      <4>2. c = used[d] + 1
        BY <4>1, <2>6, NextIsNext
      <4>3. used'["request"] = c
        BY <4>1, <4>2, <2>6, <1>1
      <4> QED BY <4>3 DEF Precedes
    <3> QED BY <3>1, <2>3, <2>6
  <2> QED BY <2>1, <2>2, <2>5, <2>6
<1> QED BY <1>3, <1>4 DEF Precedes, first, second

LEMMA PrecededStep ==
    ASSUME WireInv, QueueInv, PairTypeOK, Preceded, [RelayNext]_relayVars
    PROVE  Preceded' /\ overtaken \subseteq overtaken' /\ overtaken' \subseteq 1 .. MaxFrames
<1>0. WireInv' /\ Grown /\ QueueInv'
  BY WireStep, QueueStep
<1>1. \A d \in Dirs : /\ used[d] \in Nat /\ queued[d] \in Nat /\ used[d] <= queued[d]
                      /\ queued[d] <= forwarded[d] /\ forwarded[d] <= Len(wire[d]) /\ forwarded[d] \in Nat
                      /\ wire[d] \in Seq(Piece) /\ Len(wire[d]) \in Nat
  BY DEF QueueInv, QueueTypeOK, Counted, WireInv, WireTypeOK
<1>2. "request" \in Dirs /\ "response" \in Dirs
  BY DEF Dirs
<1>3. \A d \in Dirs : \A i \in 1 .. queued[d] :
         wire'[d][i] = wire[d][i] /\ wire[d][i] \in Piece /\ wire[d][i].frame \in 1 .. Len(frames[d])
  <2> SUFFICES ASSUME NEW d \in Dirs, NEW i \in 1 .. queued[d]
               PROVE  wire'[d][i] = wire[d][i] /\ wire[d][i] \in Piece
                      /\ wire[d][i].frame \in 1 .. Len(frames[d])
    OBVIOUS
  <2>1. i \in 1 .. Len(wire[d])
    BY <1>1
  <2>2. Wired(d) BY DEF WireInv
  <2> QED BY <2>1, <2>2, <1>0, <1>1 DEF Grown, Wired
<1>4. \A p \in 1 .. queued["response"] :
         answers'[wire[("response")][p].frame] = answers[wire["response"][p].frame]
  BY <1>0, <1>2, <1>3 DEF Grown
<1>5. ASSUME overtaken \subseteq overtaken', \A d \in Dirs : queued[d] <= queued'[d] /\ queued'[d] \in Nat,
             \A c \in Nat, p \in 1 .. queued["response"] : Precedes(c, p) => Precedes(c, p)',
             NEW p \in 1 .. queued["response"]
      PROVE  LET q == wire'["response"][p] IN
             q.part # "head" /\ answers'[q.frame] # 0 /\ q.frame \notin overtaken' =>
               \E c \in 1 .. queued'["request"] :
                  /\ wire'["request"][c].frame = answers'[q.frame]
                  /\ Completes(wire'["request"][c]) /\ Precedes(c, p)'
  <2> DEFINE q == wire["response"][p]
  <2>1. wire'["response"][p] = q /\ answers'[q.frame] = answers[q.frame]
    BY <1>2, <1>3, <1>4
  <2> SUFFICES ASSUME q.part # "head", answers[q.frame] # 0, q.frame \notin overtaken'
               PROVE  \E c \in 1 .. queued'["request"] :
                        /\ wire'["request"][c].frame = answers'[q.frame]
                        /\ Completes(wire'["request"][c]) /\ Precedes(c, p)'
    BY <2>1
  <2>2. PICK c \in 1 .. queued["request"] :
           /\ wire["request"][c].frame = answers[q.frame]
           /\ Completes(wire["request"][c]) /\ Precedes(c, p)
    BY <1>5 DEF Preceded
  <2>3. wire'["request"][c] = wire["request"][c] /\ c \in Nat /\ c \in 1 .. queued'["request"]
    BY <1>1, <1>2, <1>3, <1>5
  <2>4. Precedes(c, p)'
    BY <2>2, <2>3, <1>5
  <2> QED BY <2>1, <2>2, <2>3, <2>4
<1>6. ASSUME UNCHANGED <<overtaken, queued>>,
             \A c \in Nat, p \in 1 .. queued["response"] : Precedes(c, p) => Precedes(c, p)'
      PROVE  Preceded' /\ overtaken \subseteq overtaken' /\ overtaken' \subseteq 1 .. MaxFrames
  <2>1. queued' = queued /\ \A d \in Dirs : queued[d] <= queued'[d] /\ queued'[d] \in Nat
    BY <1>1, <1>6
  <2>2. Preceded'
    <3>1. ASSUME NEW p \in 1 .. queued'["response"]
          PROVE  LET q == wire'["response"][p] IN
                 q.part # "head" /\ answers'[q.frame] # 0 /\ q.frame \notin overtaken' =>
                   \E c \in 1 .. queued'["request"] :
                      /\ wire'["request"][c].frame = answers'[q.frame]
                      /\ Completes(wire'["request"][c]) /\ Precedes(c, p)'
      BY <2>1, <1>5, <1>6
    <3> QED BY <3>1 DEF Preceded
  <2> QED BY <2>2, <1>6 DEF PairTypeOK
<1>7. CASE UNCHANGED <<overtaken, queued, queue, used>>
  BY <1>6, <1>7 DEF Precedes
<1>8. ASSUME ObserverStops \/ WaitReturns \/ \E d \in Dirs : ObserverTakes(d)
      PROVE  Preceded' /\ overtaken \subseteq overtaken' /\ overtaken' \subseteq 1 .. MaxFrames
  <2>1. UNCHANGED <<overtaken, queued>>
    BY <1>8 DEF ObserverStops, WaitReturns, ObserverTakes, pumps
  <2>2. \/ used' = used /\ \E x \in [dir : Dirs, piece : Nat] \cup {Sentinel} : queue' = Append(queue, x)
        \/ queue # <<>> /\ queue' = Tail(queue) /\ Head(queue) = Sentinel /\ used' = used
        \/ \E d \in Dirs : /\ queue # <<>> /\ queue' = Tail(queue)
                           /\ Head(queue) # Sentinel /\ Head(queue).dir = d
                           /\ used' = [used EXCEPT ![d] = @ + 1]
    <3>1. CASE ObserverStops BY <3>1 DEF ObserverStops
    <3>2. CASE WaitReturns BY <3>2 DEF WaitReturns, observed
    <3>3. ASSUME NEW d \in Dirs, ObserverTakes(d) PROVE <2>2
      BY <3>3 DEF ObserverTakes
    <3> QED BY <3>1, <3>2, <3>3, <1>8
  <2>3. \A c \in Nat, p \in 1 .. queued["response"] : Precedes(c, p) => Precedes(c, p)'
    BY <2>2, PrecedesStays
  <2> QED BY <2>1, <2>3, <1>6
<1>9. ASSUME NEW d \in Dirs, PumpQueue(d)
      PROVE  Preceded' /\ overtaken \subseteq overtaken' /\ overtaken' \subseteq 1 .. MaxFrames
  <2> DEFINE last == forwarded[d]
             x == [dir |-> d, piece |-> last]
             n == Len(queue)
  <2>1. /\ queue' = Append(queue, x) /\ pump[d] = "queuing"
        /\ queued' = [queued EXCEPT ![d] = @ + 1]
        /\ overtaken' = (IF Overtakes(d) THEN overtaken \cup {wire[d][last].frame} ELSE overtaken)
        /\ UNCHANGED <<used, wire, answers, frames>>
    BY <1>9 DEF PumpQueue, ends, observed
  <2>2. last = queued[d] + 1 /\ last \in 1 .. Len(wire[d])
    <3>1. Counted(d) BY DEF QueueInv
    <3> QED BY <3>1, <2>1, <1>1 DEF Counted
  <2>3. queued'[d] = last /\ (\A e \in Dirs : e # d => queued'[e] = queued[e])
        /\ \A e \in Dirs : queued[e] <= queued'[e] /\ queued'[e] \in Nat
    BY <1>1, <2>1, <2>2 DEF QueueInv, QueueTypeOK
  <2>4. x \in [dir : Dirs, piece : Nat]
    BY <1>1
  <2>5. queue \in Seq([dir : Dirs, piece : Nat] \cup {Sentinel})
    BY DEF QueueInv, QueueTypeOK
  <2>6. Len(queue') = n + 1 /\ n \in Nat /\ queue'[n + 1] = x /\ \A i \in 1 .. n : queue'[i] = queue[i]
    <3> HIDE DEF x
    <3> QED BY <2>1, <2>4, <2>5, AppendIs
  <2>7. \A c \in Nat, p \in 1 .. queued["response"] : Precedes(c, p) => Precedes(c, p)'
    BY <2>1, <2>4, PrecedesStays
  <2>8. overtaken \subseteq overtaken' /\ overtaken' \subseteq 1 .. MaxFrames
    <3>1. wire[d][last] \in Piece
      BY <1>1, <2>2
    <3> QED BY <3>1, <2>1 DEF PairTypeOK, Piece
  <2> HIDE DEF x, last, n
  <2>9. ASSUME NEW p \in 1 .. queued'["response"]
        PROVE  LET q == wire'["response"][p] IN
               q.part # "head" /\ answers'[q.frame] # 0 /\ q.frame \notin overtaken' =>
                 \E c \in 1 .. queued'["request"] :
                    /\ wire'["request"][c].frame = answers'[q.frame]
                    /\ Completes(wire'["request"][c]) /\ Precedes(c, p)'
    <3>1. CASE p \in 1 .. queued["response"]
      BY <3>1, <2>3, <2>7, <2>8, <1>5
    <3>2. CASE p \notin 1 .. queued["response"]
      <4>1. d = "response" /\ p = last
        BY <3>2, <2>2, <2>3, <1>1, <1>2
      <4> DEFINE q == wire["response"][p]
      <4>2. wire' = wire /\ answers' = answers
        BY <2>1
      <4> SUFFICES ASSUME q.part # "head", answers[q.frame] # 0, q.frame \notin overtaken'
                   PROVE  \E c \in 1 .. queued'["request"] :
                            /\ wire["request"][c].frame = answers[q.frame]
                            /\ Completes(wire["request"][c]) /\ Precedes(c, p)'
        BY <4>2
      <4>3. ~Overtakes(d)
        BY <2>1, <4>1
      <4>4. PICK c \in 1 .. queued["request"] :
               wire["request"][c].frame = answers[q.frame] /\ Completes(wire["request"][c])
        BY <4>1, <4>3 DEF Overtakes, last
      <4>5. CASE c <= used["request"]
        BY <4>4, <4>5, <2>1, <2>3, <1>1, <1>2 DEF Precedes
      <4>6. CASE ~(c <= used["request"])
        <5>1. c \in used["request"] + 1 .. queued["request"]
          BY <4>6, <1>1, <1>2
        <5>2. PICK i \in 1 .. n : queue[i] = [dir |-> "request", piece |-> c]
          BY <5>1, <1>2 DEF QueueInv, Queued, n
        <5>3. i \in 1 .. Len(queue') /\ n + 1 \in i + 1 .. Len(queue')
              /\ queue'[i] = [dir |-> "request", piece |-> c]
              /\ queue'[n + 1] = [dir |-> "response", piece |-> p]
          BY <5>2, <2>6, <4>1 DEF x
        <5>4. Precedes(c, p)'
          BY <5>3 DEF Precedes
        <5>5. c \in 1 .. queued'["request"]
          BY <2>3, <1>1, <1>2
        <5> QED BY <5>4, <5>5, <4>4
      <4> QED BY <4>5, <4>6
    <3> QED BY <3>1, <3>2
  <2> QED BY <2>8, <2>9 DEF Preceded
<1>10. \/ UNCHANGED <<overtaken, queued, queue, used>> \/ ObserverStops \/ WaitReturns
       \/ \E d \in Dirs : ObserverTakes(d) \/ PumpQueue(d)
  BY DEF RelayNext, RelayMain, relayVars, pumps, observed, Say, Finish, HostCloses,
     ServerExits, Interrupted, KillsServer, Joins, PumpForwards, PumpEnds, ObserverDrains
<1> QED BY <1>7, <1>8, <1>9, <1>10

\* A response that is handed over, and was not overtaken, finds that the
\* request it answers was.
LEMMA AnswerKnown ==
    ASSUME WireInv, QueueInv, ReadInv, Preceded, NEW p \in 1 .. queued["response"],
           p <= used["response"] \/ (queue # <<>> /\ Head(queue) = [dir |-> "response", piece |-> p]),
           NEW q, q = wire["response"][p],
           q.part # "head", answers[q.frame] # 0, q.frame \notin overtaken
    PROVE  answers[q.frame] \in 1 .. Len(seen["request"])
<1> DEFINE u == used["request"]
           w == wire["request"]
<1>1. /\ u \in Nat /\ w \in Seq(Piece) /\ Wired("request") /\ u <= Len(w)
      /\ used["response"] \in Nat /\ queued["response"] \in Nat /\ queued["request"] \in Nat
      /\ queue \in Seq([dir : Dirs, piece : Nat] \cup {Sentinel})
      /\ Len(seen["request"]) = LinesUsed("request")
  BY LinesAre DEF Dirs, WireInv, WireTypeOK, QueueInv, QueueTypeOK, Counted
<1>2. PICK c \in 1 .. queued["request"] :
         w[c].frame = answers[q.frame] /\ Completes(w[c]) /\ Precedes(c, p)
  BY DEF Preceded
<1>3. c <= u
  <2> SUFFICES ASSUME NEW i \in 1 .. Len(queue), NEW j \in i + 1 .. Len(queue),
                      queue[j] = [dir |-> "response", piece |-> p]
               PROVE  FALSE
    BY <1>2 DEF Precedes
  <2>1. j \in 1 .. Len(queue) /\ j \in 1 + 1 .. Len(queue) /\ 1 \in 1 .. Len(queue)
    BY <1>1
  <2>2. queue[j] # Sentinel /\ queue[j].dir = "response" /\ queue[j].piece = p
    BY CopyIsNoSentinel
  <2>3. p \in used["response"] + 1 .. queued["response"]
    BY <2>1, <2>2 DEF QueueInv, Queued
  <2>4. Head(queue) = [dir |-> "response", piece |-> p] /\ queue # <<>>
    BY <2>3, <1>1
  <2>5. queue[1] = [dir |-> "response", piece |-> p]
    BY <2>4, <1>1, TailIs
  <2>6. queue[1] # Sentinel /\ queue[1].dir = "response" /\ queue[1].piece = p
    BY <2>5, CopyIsNoSentinel
  <2>7. p < p
    BY <2>1, <2>2, <2>6 DEF QueueInv, Queued
  <2> QED BY <2>7
<1>4. c \in 1 .. Len(w) /\ u \in 1 .. Len(w) /\ w[c].frame \in Nat \ {0} /\ w[u].frame \in Nat
      /\ w[c].frame >= 1
  <2>1. c \in 1 .. Len(w) /\ u \in 1 .. Len(w)
    BY <1>1, <1>2, <1>3
  <2>2. w[c] \in Piece /\ w[u] \in Piece
    BY <2>1, <1>1
  <2> QED BY <2>1, <2>2 DEF Piece
<1>5. LinesUsed("request") >= w[c].frame /\ LinesUsed("request") \in Nat
  <2>1. CASE c = u
    BY <2>1, <1>1, <1>2, <1>4 DEF LinesUsed
  <2>2. CASE c # u
    <3>1. u \in c + 1 .. Len(w)
      BY <2>2, <1>1, <1>3, <1>4
    <3>2. w[c].frame <= w[u].frame /\ w[c].frame # w[u].frame
      BY <3>1, <1>1, <1>2, <1>4 DEF Wired
    <3> DEFINE a == w[c].frame
               b == w[u].frame
    <3>3. u # 0 /\ LinesUsed("request") \in {b, b - 1}
      BY <2>2, <1>1, <1>3, <1>4 DEF LinesUsed
    <3>4. a \in Nat /\ b \in Nat /\ a <= b /\ a # b
      BY <3>2, <1>4
    <3> HIDE DEF a, b
    <3>5. b - 1 \in Nat /\ b - 1 >= a /\ b >= a
      BY <3>4
    <3> QED BY <3>3, <3>4, <3>5 DEF a
  <2> QED BY <2>1, <2>2
<1> QED BY <1>1, <1>2, <1>4, <1>5

\* What a line is, by the frame it is.
LEMMA FrameIs ==
    ASSUME WireInv, NEW d \in Dirs, NEW n \in 1 .. Len(frames[d]), NEW f, f = frames[d][n]
    PROVE  f \in [id : Keys \cup {None}, method : BOOLEAN, json : BOOLEAN]
<1>1. frames[d] \in Seq(HostFrames \cup ServerFrames)
  BY DEF WireInv, WireTypeOK
<1>2. f \in HostFrames \cup ServerFrames
  BY <1>1
<1> QED BY <1>2, RelayAssumption DEF RelayAssumption

\* The next line of the host: a request is stashed under its id.
LEMMA RequestSeen ==
    ASSUME WireInv, QueueInv, ReadInv, PairTypeOK, Stashed, Mated, Found,
           NEW n, n = Len(seen["request"]) + 1, n \in 1 .. Len(frames["request"]), n <= MaxFrames,
           Observe("request", n), UNCHANGED <<frames, answers, overtaken>>
    PROVE  PairTypeOK' /\ Stashed' /\ Mated' /\ Found'
<1> DEFINE s == Len(seen["request"])
           r == Len(seen["response"])
           f == frames["request"][n]
<1>0. "request" \in Dirs /\ "response" \in Dirs /\ "request" # "response"
  BY DEF Dirs
<1>1. /\ s \in Nat /\ r \in Nat /\ n = s + 1 /\ n \in 1 .. MaxFrames
      /\ seen \in [Dirs -> Seq(Nat)] /\ pending \in [Keys -> Numbers]
      /\ mate \in [1 .. MaxFrames -> Numbers] /\ MaxFrames \in Nat
  BY <1>0, LinesAre, RelayAssumption DEF RelayAssumption, PairTypeOK, ReadInv, ReadTypeOK
<1>2. f \in [id : Keys \cup {None}, method : BOOLEAN, json : BOOLEAN]
  BY <1>0, FrameIs
<1>3. /\ Len(seen'["request"]) = s + 1 /\ seen'["response"] = seen["response"]
  <2>1. seen' = [seen EXCEPT !["request"] = Append(@, n)]
    BY DEF Observe
  <2> QED BY <2>1, <1>0, <1>1
<1>4. mate' = mate
      /\ pending' = IF Requested(n) THEN [pending EXCEPT ![f.id] = n] ELSE pending
  <2>1. n # Garbled
    BY <1>1 DEF Garbled
  <2>2. CASE f.json
    <3>1. ClassifyAndWrite("request", n)
      BY <2>1, <2>2 DEF Observe
    <3>2. Kind("request", f) # "response" /\ (Kind("request", f) = "request" <=> f.method /\ f.id # None)
      BY <1>2 DEF Kind
    <3> QED BY <2>2, <3>1, <3>2 DEF ClassifyAndWrite, Requested
  <2>3. CASE ~f.json
    BY <2>3 DEF Observe, Requested
  <2> QED BY <2>2, <2>3
<1>5. Requested(n) => f.id \in Keys
  BY <1>2 DEF Requested
<1>6. pending' \in [Keys -> Numbers] /\ \A k \in Keys :
         pending'[k] = IF Requested(n) /\ k = f.id THEN n ELSE pending[k]
  BY <1>1, <1>4, <1>5 DEF Numbers
<1> HIDE DEF s, r, f
<1>7. ASSUME NEW k \in Keys, pending'[k] # 0
      PROVE  /\ pending'[k] \in 1 .. s + 1 /\ frames["request"][pending'[k]].id = k
             /\ \A q \in 1 .. MaxFrames : mate[q] # pending'[k]
  <2>1. CASE Requested(n) /\ k = f.id
    <3>1. pending'[k] = n /\ frames["request"][n].id = k
      BY <2>1, <1>6 DEF f
    <3>2. ASSUME NEW q \in 1 .. MaxFrames, mate[q] = n PROVE FALSE
      <4>1. n \in 1 .. s
        BY <3>2, <1>1 DEF Mated, s
      <4> QED BY <4>1, <1>1
    <3>3. n \in 1 .. s + 1
      BY <1>1
    <3>4. \A q \in 1 .. MaxFrames : mate[q] # n
      BY <3>2
    <3> QED BY <3>1, <3>3, <3>4
  <2>2. CASE ~(Requested(n) /\ k = f.id)
    <3>1. pending'[k] = pending[k] /\ pending[k] # 0
      BY <2>2, <1>6, <1>7
    <3>2. /\ pending[k] \in 1 .. s /\ frames["request"][pending[k]].id = k
          /\ \A q \in 1 .. MaxFrames : mate[q] # pending[k]
      BY <3>1 DEF Stashed, s
    <3> QED BY <3>1, <3>2, <1>1
  <2> QED BY <2>1, <2>2
<1>8. ASSUME NEW m \in 1 .. s + 1, Requested(m), Alone(m),
             \A q \in 1 .. r : ~SameId(m, q)
      PROVE  pending'[frames["request"][m].id] = m
  <2>1. CASE m = n
    BY <2>1, <1>5, <1>6, <1>8 DEF f
  <2>2. CASE m # n
    <3>1. m \in 1 .. s /\ m \in 1 .. Len(frames["request"])
      BY <2>2, <1>1
    <3>2. pending[frames["request"][m].id] = m
      BY <3>1, <1>8 DEF Stashed, s, r
    <3>3. frames["request"][m].id \in Keys
      <4>1. frames["request"][m] \in [id : Keys \cup {None}, method : BOOLEAN, json : BOOLEAN]
        BY <3>1, <1>0, FrameIs
      <4> QED BY <4>1, <1>8 DEF Requested
    <3>4. ~(Requested(n) /\ frames["request"][m].id = f.id)
      BY <2>2, <1>8 DEF Alone, Requested, f
    <3> QED BY <3>2, <3>3, <3>4, <1>6
  <2> QED BY <2>1, <2>2
<1>9. Stashed'
  <2>1. \A m, q : Requested(m)' = Requested(m) /\ Alone(m)' = Alone(m) /\ SameId(m, q)' = SameId(m, q)
    BY DEF Requested, Alone, SameId
  <2> QED BY <2>1, <1>3, <1>4, <1>7, <1>8 DEF Stashed, r
<1>10. Mated'
  <2>1. ASSUME NEW q \in 1 .. MaxFrames, mate[q] # 0
        PROVE  /\ mate[q] \in 1 .. s + 1 /\ q \in 1 .. r
               /\ SameId(mate[q], q) /\ \A p \in 1 .. MaxFrames : mate[p] = mate[q] => p = q
    BY <2>1, <1>1 DEF Mated, s, r
  <2>2. \A m, q : SameId(m, q)' = SameId(m, q)
    BY DEF SameId
  <2> QED BY <2>1, <2>2, <1>3, <1>4 DEF Mated, r
<1>11. Found'
  <2>1. \A m, q : Unambiguous(m, q)' = Unambiguous(m, q)
    BY DEF Unambiguous, SameId
  <2> QED BY <2>1, <1>3, <1>4 DEF Found
<1>12. PairTypeOK'
  BY <1>4, <1>6 DEF PairTypeOK
<1> QED BY <1>9, <1>10, <1>11, <1>12

\* The next line of the server: a response takes what is under its id.
LEMMA ResponseSeen ==
    ASSUME WireInv, QueueInv, ReadInv, PairTypeOK, Stashed, Mated, Found,
           NEW n, n = Len(seen["response"]) + 1, n \in 1 .. Len(frames["response"]), n <= MaxFrames,
           Observe("response", n), UNCHANGED <<frames, answers, overtaken>>,
           answers[n] # 0 /\ n \notin overtaken => answers[n] \in 1 .. Len(seen["request"])
    PROVE  PairTypeOK' /\ Stashed' /\ Mated' /\ Found'
<1> DEFINE s == Len(seen["request"])
           r == Len(seen["response"])
           g == frames["response"][n]
           isResponse == g.json /\ ~g.method /\ g.id # None
<1>0. "request" \in Dirs /\ "response" \in Dirs /\ "request" # "response"
  BY DEF Dirs
<1>1. /\ s \in Nat /\ r \in Nat /\ n = r + 1 /\ n \in 1 .. MaxFrames
      /\ seen \in [Dirs -> Seq(Nat)] /\ pending \in [Keys -> Numbers]
      /\ mate \in [1 .. MaxFrames -> Numbers] /\ MaxFrames \in Nat
  BY <1>0, LinesAre, RelayAssumption DEF RelayAssumption, PairTypeOK, ReadInv, ReadTypeOK
<1>2. g \in [id : Keys \cup {None}, method : BOOLEAN, json : BOOLEAN]
  BY <1>0, FrameIs
<1>3. /\ Len(seen'["response"]) = r + 1 /\ seen'["request"] = seen["request"]
  <2>1. seen' = [seen EXCEPT !["response"] = Append(@, n)]
    BY DEF Observe
  <2> QED BY <2>1, <1>0, <1>1
<1>4. /\ pending' = IF isResponse THEN [pending EXCEPT ![g.id] = 0] ELSE pending
      /\ mate' = IF isResponse THEN [mate EXCEPT ![n] = pending[g.id]] ELSE mate
  <2>1. n # Garbled
    BY <1>1 DEF Garbled
  <2>2. CASE g.json
    <3>1. ClassifyAndWrite("response", n)
      BY <2>1, <2>2 DEF Observe
    <3>2. Kind("response", g) # "request" /\ (Kind("response", g) = "response" <=> ~g.method /\ g.id # None)
      BY <1>2 DEF Kind
    <3> QED BY <2>2, <3>1, <3>2 DEF ClassifyAndWrite, Popped
  <2>3. CASE ~g.json
    BY <2>3 DEF Observe
  <2> QED BY <2>2, <2>3
<1>5. isResponse => g.id \in Keys
  BY <1>2
<1>6. /\ pending' \in [Keys -> Numbers] /\ mate' \in [1 .. MaxFrames -> Numbers]
      /\ \A k \in Keys : pending'[k] = IF isResponse /\ k = g.id THEN 0 ELSE pending[k]
      /\ \A q \in 1 .. MaxFrames : mate'[q] = IF isResponse /\ q = n THEN pending[g.id] ELSE mate[q]
  BY <1>1, <1>4, <1>5 DEF Numbers
<1>7. mate[n] = 0
  BY <1>1 DEF Mated
<1>8. ASSUME NEW k \in Keys, pending[k] # 0
      PROVE  /\ pending[k] \in 1 .. s /\ frames["request"][pending[k]].id = k
             /\ \A q \in 1 .. MaxFrames : mate[q] # pending[k]
  BY <1>8 DEF Stashed
<1> HIDE DEF s, r, g, isResponse
<1>9. ASSUME NEW k \in Keys, pending'[k] # 0
      PROVE  /\ pending'[k] \in 1 .. s /\ frames["request"][pending'[k]].id = k
             /\ \A q \in 1 .. MaxFrames : mate'[q] # pending'[k]
  <2>1. pending'[k] = pending[k] /\ pending[k] # 0 /\ ~(isResponse /\ k = g.id)
    BY <1>6, <1>9
  <2>2. ASSUME NEW q \in 1 .. MaxFrames, mate'[q] = pending[k] PROVE FALSE
    <3>1. isResponse /\ q = n /\ pending[g.id] = pending[k]
      BY <2>1, <2>2, <1>6, <1>8
    <3>2. frames["request"][pending[g.id]].id = g.id
      BY <3>1, <2>1, <1>5, <1>8
    <3> QED BY <3>1, <3>2, <2>1, <1>8
  <2> QED BY <2>1, <2>2, <1>8
<1>10. ASSUME NEW m \in 1 .. s, Requested(m), Alone(m),
              \A q \in 1 .. r + 1 : ~SameId(m, q)
       PROVE  pending'[frames["request"][m].id] = m
  <2>1. \A q \in 1 .. r : ~SameId(m, q)
    BY <1>1, <1>10
  <2>2. pending[frames["request"][m].id] = m
    BY <2>1, <1>10 DEF Stashed, s, r
  <2>3. frames["request"][m].id \in Keys
    <3>1. m \in 1 .. Len(frames["request"])
      BY <1>0, <1>1, LinesAre DEF s
    <3>2. frames["request"][m] \in [id : Keys \cup {None}, method : BOOLEAN, json : BOOLEAN]
      BY <3>1, <1>0, FrameIs
    <3> QED BY <3>2, <1>10 DEF Requested
  <2>4. frames["request"][m].id # g.id
    <3>1. n \in 1 .. r + 1
      BY <1>1
    <3> QED BY <3>1, <1>10 DEF SameId, g
  <2> QED BY <2>2, <2>3, <2>4, <1>6
<1>11. Stashed'
  <2>1. \A m, q : Requested(m)' = Requested(m) /\ Alone(m)' = Alone(m) /\ SameId(m, q)' = SameId(m, q)
    BY DEF Requested, Alone, SameId
  <2> QED BY <2>1, <1>3, <1>9, <1>10 DEF Stashed, s
<1>12. ASSUME NEW q \in 1 .. MaxFrames, mate'[q] # 0
       PROVE  /\ mate'[q] \in 1 .. s /\ q \in 1 .. r + 1 /\ SameId(mate'[q], q)
              /\ \A p \in 1 .. MaxFrames : mate'[p] = mate'[q] => p = q
  <2>1. CASE isResponse /\ q = n
    <3>1. mate'[q] = pending[g.id] /\ pending[g.id] # 0 /\ g.id \in Keys
      BY <2>1, <1>5, <1>6, <1>12
    <3>2. \A p \in 1 .. MaxFrames : p # n => mate'[p] # pending[g.id]
      BY <3>1, <1>6, <1>8
    <3>3. SameId(pending[g.id], n)
      BY <3>1, <1>8 DEF SameId, g
    <3> QED BY <2>1, <3>1, <3>2, <3>3, <1>1, <1>8
  <2>2. CASE ~(isResponse /\ q = n)
    <3>1. mate'[q] = mate[q] /\ mate[q] # 0
      BY <2>2, <1>6, <1>12
    <3>2. /\ mate[q] \in 1 .. s /\ q \in 1 .. r /\ SameId(mate[q], q)
          /\ \A p \in 1 .. MaxFrames : mate[p] = mate[q] => p = q
      BY <3>1 DEF Mated, s, r
    <3>3. ASSUME NEW p \in 1 .. MaxFrames, mate'[p] = mate[q] PROVE p = q
      <4>1. CASE isResponse /\ p = n
        <5>1. pending[g.id] = mate[q] /\ g.id \in Keys
          BY <4>1, <3>3, <1>5, <1>6
        <5> QED BY <5>1, <3>1, <1>8
      <4>2. CASE ~(isResponse /\ p = n)
        BY <4>2, <3>2, <3>3, <1>6
      <4> QED BY <4>1, <4>2
    <3> QED BY <3>1, <3>2, <3>3, <1>1
  <2> QED BY <2>1, <2>2
<1>13. Mated'
  <2>1. \A m, q : SameId(m, q)' = SameId(m, q)
    BY DEF SameId
  <2> QED BY <2>1, <1>3, <1>12 DEF Mated, s
<1>14. ASSUME NEW q \in 1 .. r + 1, answers[q] # 0, Unambiguous(answers[q], q), q \notin overtaken
       PROVE  mate'[q] = answers[q]
  <2>1. CASE q # n
    <3>1. q \in 1 .. r /\ q \in 1 .. MaxFrames
      BY <2>1, <1>1
    <3>2. mate[q] = answers[q]
      BY <3>1, <1>14 DEF Found, r
    <3> QED BY <3>1, <3>2, <2>1, <1>6
  <2>2. CASE q = n
    <3> DEFINE m == answers[n]
    <3>1. m \in 1 .. s
      BY <2>2, <1>14 DEF s
    <3>2. g.json /\ ~g.method /\ g.id # None /\ frames["request"][m] = [g EXCEPT !.method = TRUE]
      BY <2>2, <1>1, <1>14 DEF WireInv, AnswersMatch, g
    <3>3. isResponse /\ frames["request"][m].id = g.id /\ Requested(m)
      BY <3>2, <1>2 DEF isResponse, Requested
    <3>4. Alone(m) /\ \A p \in 1 .. r : ~SameId(m, p)
      <4>1. Unambiguous(m, n)
        BY <2>2, <1>14
      <4>2. \A p \in 1 .. r : p \in 1 .. n - 1
        BY <1>1
      <4> HIDE DEF m, r
      <4> QED BY <4>1, <4>2 DEF Unambiguous, Alone
    <3>5. pending[g.id] = m
      BY <3>1, <3>3, <3>4 DEF Stashed, s, r
    <3> QED BY <2>2, <3>3, <3>5, <1>1, <1>6
  <2> QED BY <2>1, <2>2
<1>15. Found'
  <2>1. \A m, q : Unambiguous(m, q)' = Unambiguous(m, q)
    BY DEF Unambiguous, SameId
  <2> QED BY <2>1, <1>3, <1>14 DEF Found
<1>16. PairTypeOK'
  BY <1>6 DEF PairTypeOK
<1> QED BY <1>11, <1>13, <1>15, <1>16

\* Further frames change nothing of what was handed over.
LEMMA PairsStay ==
    ASSUME WireInv, WireInv', Grown, QueueInv, ReadInv, PairTypeOK, Stashed, Mated, Found,
           UNCHANGED <<seen, pending, mate>>, overtaken \subseteq overtaken',
           overtaken' \subseteq 1 .. MaxFrames
    PROVE  PairTypeOK' /\ Stashed' /\ Mated' /\ Found'
<1> DEFINE s == Len(seen["request"])
           r == Len(seen["response"])
<1>0. "request" \in Dirs /\ "response" \in Dirs
  BY DEF Dirs
<1>1. /\ s \in Nat /\ r \in Nat /\ s <= Len(frames["request"]) /\ r <= Len(frames["response"])
      /\ Len(frames["request"]) \in Nat /\ Len(frames["response"]) \in Nat
      /\ Len(frames'["request"]) \in Nat /\ Len(frames'["response"]) \in Nat
      /\ Len(frames["request"]) <= Len(frames'["request"])
      /\ Len(frames["response"]) <= Len(frames'["response"])
  BY <1>0, LinesAre DEF WireInv, WireTypeOK, Grown
<1>2. /\ \A m \in 1 .. Len(frames["request"]) : frames'["request"][m] = frames["request"][m]
      /\ \A q \in 1 .. Len(frames["response"]) :
             frames'["response"][q] = frames["response"][q] /\ answers'[q] = answers[q]
  BY <1>0 DEF Grown
<1>3. \A m \in 1 .. Len(frames["request"]) :
         /\ Requested(m)' <=> Requested(m)
         /\ Alone(m)' => Alone(m)
         /\ \A q \in 1 .. Len(frames["response"]) : SameId(m, q)' <=> SameId(m, q)
  <2> SUFFICES ASSUME NEW m \in 1 .. Len(frames["request"])
               PROVE  /\ Requested(m)' <=> Requested(m)
                      /\ Alone(m)' => Alone(m)
                      /\ \A q \in 1 .. Len(frames["response"]) : SameId(m, q)' <=> SameId(m, q)
    OBVIOUS
  <2>1. Requested(m)' <=> Requested(m)
    BY <1>2 DEF Requested
  <2>2. ASSUME Alone(m)' PROVE Alone(m)
    <3>1. \A i \in 1 .. Len(frames["request"]) : i \in 1 .. Len(frames'["request"])
      BY <1>1
    <3> QED BY <2>2, <3>1, <1>2 DEF Alone
  <2>3. \A q \in 1 .. Len(frames["response"]) : SameId(m, q)' <=> SameId(m, q)
    BY <1>2 DEF SameId
  <2> QED BY <2>1, <2>2, <2>3
<1>4. (\A m \in 1 .. s : m \in 1 .. Len(frames["request"]))
      /\ (\A q \in 1 .. r : q \in 1 .. Len(frames["response"]))
  BY <1>1
<1>5. /\ \A k \in Keys : pending[k] # 0 =>
            /\ pending[k] \in 1 .. s /\ frames["request"][pending[k]].id = k
            /\ \A n \in 1 .. MaxFrames : mate[n] # pending[k]
      /\ \A m \in 1 .. s :
            /\ Requested(m) /\ Alone(m)
            /\ \A q \in 1 .. r : ~SameId(m, q)
            => pending[frames["request"][m].id] = m
  BY DEF Stashed
<1>6. \A n \in 1 .. MaxFrames : mate[n] # 0 =>
         /\ mate[n] \in 1 .. s /\ n \in 1 .. r /\ SameId(mate[n], n)
         /\ \A q \in 1 .. MaxFrames : mate[q] = mate[n] => q = n
  BY DEF Mated
<1> HIDE DEF s, r
<1>7. \A k \in Keys : pending[k] # 0 =>
         /\ pending[k] \in 1 .. s /\ frames'["request"][pending[k]].id = k
         /\ \A n \in 1 .. MaxFrames : mate[n] # pending[k]
  BY <1>2, <1>4, <1>5
<1>8. ASSUME NEW m \in 1 .. s, Requested(m)', Alone(m)', \A q \in 1 .. r : ~SameId(m, q)'
      PROVE  pending[frames'["request"][m].id] = m
  <2>1. m \in 1 .. Len(frames["request"])
    BY <1>4
  <2>2. Requested(m) /\ Alone(m) /\ frames'["request"][m] = frames["request"][m]
    BY <2>1, <1>2, <1>3, <1>8
  <2>3. \A q \in 1 .. r : ~SameId(m, q)
    BY <2>1, <1>3, <1>4, <1>8
  <2> QED BY <2>2, <2>3, <1>5
<1>9. Stashed'
  BY <1>7, <1>8 DEF Stashed, s, r
<1>10. Mated'
  <2>1. ASSUME NEW n \in 1 .. MaxFrames, mate[n] # 0 PROVE SameId(mate[n], n)'
    <3>1. mate[n] \in 1 .. Len(frames["request"]) /\ n \in 1 .. Len(frames["response"]) /\ SameId(mate[n], n)
      BY <2>1, <1>4, <1>6
    <3>2. frames'["request"][mate[n]] = frames["request"][mate[n]]
          /\ frames'["response"][n] = frames["response"][n]
      BY <3>1, <1>2
    <3> QED BY <3>1, <3>2 DEF SameId
  <2> QED BY <2>1, <1>6 DEF Mated, s, r
<1>11. Found'
  <2> SUFFICES ASSUME NEW n \in 1 .. Len(seen["response"]), answers'[n] # 0,
                      Unambiguous(answers[n], n)', answers'[n] = answers[n], n \notin overtaken'
               PROVE  mate[n] = answers[n]
    <3>1. \A n \in 1 .. Len(seen["response"]) : answers'[n] = answers[n]
      BY <1>2, <1>4 DEF r
    <3> QED BY <3>1 DEF Found, Unambiguous, SameId
  <2>1. n \in 1 .. r /\ n \in 1 .. Len(frames["response"]) /\ n \in Nat
    BY <1>4, <1>1 DEF r
  <2>2. answers[n] \in 1 .. Len(frames["request"])
    <3>1. n \in 1 .. MaxFrames
      <4>1. Len(frames["request"]) + Len(frames["response"]) <= MaxFrames /\ MaxFrames \in Nat
        BY RelayAssumption DEF WireInv, WireTypeOK, RelayAssumption
      <4> DEFINE a == Len(frames["request"])
                 b == Len(frames["response"])
      <4>2. a \in Nat /\ b \in Nat /\ a + b <= MaxFrames /\ MaxFrames \in Nat /\ n \in 1 .. b
        BY <4>1, <2>1, <1>1
      <4> HIDE DEF a, b
      <4> QED BY <4>2
    <3> QED BY <3>1 DEF WireInv, AnswersMatch
  <2> DEFINE m == answers[n]
  <2> HIDE DEF m
  <2>3. ASSUME NEW i \in 1 .. Len(frames["request"]),
               frames["request"][i].id = frames["request"][m].id, frames["request"][i].method
        PROVE  i = m
    <3>1. i \in 1 .. Len(frames'["request"]) /\ frames'["request"][i] = frames["request"][i]
          /\ frames'["request"][m] = frames["request"][m]
      BY <2>2, <1>1, <1>2 DEF m
    <3>2. Unambiguous(m, n)'
      BY DEF Unambiguous, SameId, m
    <3> QED BY <2>3, <3>1, <3>2 DEF Unambiguous, m
  <2>4. ASSUME NEW q \in 1 .. n - 1, SameId(m, q) PROVE FALSE
    <3>1. q \in 1 .. Len(frames["response"])
      BY <2>1, <1>1
    <3>2. SameId(m, q)'
      BY <2>2, <2>4, <3>1, <1>2 DEF SameId, m
    <3> QED BY <2>4, <3>2 DEF Unambiguous, SameId, m
  <2>5. Unambiguous(m, n)
    BY <2>3, <2>4 DEF Unambiguous
  <2> QED BY <2>1, <2>5 DEF Found, r, m
<1>12. PairTypeOK'
  BY DEF PairTypeOK
<1> QED BY <1>9, <1>10, <1>11, <1>12

LEMMA PairStep ==
    ASSUME WireInv, QueueInv, ReadInv, PairInv, [RelayNext]_relayVars
    PROVE  PairInv'
<1>0. WireInv' /\ Grown /\ Preceded' /\ overtaken \subseteq overtaken' /\ overtaken' \subseteq 1 .. MaxFrames
  BY WireStep, PrecededStep DEF PairInv
<1>1. PairTypeOK /\ Preceded /\ Stashed /\ Mated /\ Found
  BY DEF PairInv
<1>2. CASE UNCHANGED <<seen, pending, mate>>
  <2>1. PairTypeOK' /\ Stashed' /\ Mated' /\ Found'
    BY <1>0, <1>1, <1>2, PairsStay
  <2> QED BY <2>1, <1>0 DEF PairInv
<1>3. ASSUME NEW d \in Dirs, NEW n, n = Len(seen[d]) + 1, n \in 1 .. Len(frames[d]), n <= MaxFrames,
             Observe(d, n), UNCHANGED <<frames, answers, overtaken>>,
             d = "response" /\ answers[n] # 0 /\ n \notin overtaken
                 => answers[n] \in 1 .. Len(seen["request"])
      PROVE  PairInv'
  <2>1. PairTypeOK' /\ Stashed' /\ Mated' /\ Found'
    <3>1. CASE d = "request"
      BY <3>1, <1>1, <1>3, RequestSeen
    <3>2. CASE d = "response"
      BY <3>2, <1>1, <1>3, ResponseSeen
    <3> QED BY <3>1, <3>2 DEF Dirs
  <2> QED BY <2>1, <1>0 DEF PairInv
<1>4. ASSUME NEW d \in Dirs, ObserverTakes(d) PROVE PairInv'
  <2> DEFINE p == wire[d][used[d] + 1]
             n == Len(seen[d]) + 1
  <2>1. /\ p \in Piece /\ p.frame = n /\ n \in 1 .. Len(frames[d]) /\ n <= MaxFrames
        /\ Head(queue) = [dir |-> d, piece |-> used[d] + 1]
        /\ Completes(p) => Observe(d, n) /\ buffer'[d] = <<>>
        /\ ~Completes(p) => buffer'[d] = <<p>> /\ UNCHANGED <<seen, pending, mate>>
        /\ used[d] + 1 <= queued[d]
        /\ UNCHANGED <<frames, answers, wire, overtaken, observer, queued>>
    <3> HIDE DEF p, n
    <3> QED BY <1>4, TakesNext DEF p, n
  <2>2. CASE Completes(p)
    <3>1. ASSUME d = "response", answers[n] # 0, n \notin overtaken
          PROVE  answers[n] \in 1 .. Len(seen["request"])
      <4>1. used[d] + 1 \in 1 .. queued["response"]
        BY <2>1, <3>1 DEF QueueInv, QueueTypeOK
      <4>2. queue # <<>> /\ Head(queue) = [dir |-> "response", piece |-> used[d] + 1]
        BY <1>4, <2>1, <3>1 DEF ObserverTakes
      <4>3. p = wire["response"][used[d] + 1] /\ p.part # "head"
        BY <2>2, <3>1 DEF Completes
      <4> HIDE DEF p, n
      <4> QED BY <2>1, <3>1, <4>1, <4>2, <4>3, <1>1, AnswerKnown
    <3> HIDE DEF p
    <3>2. n = Len(seen[d]) + 1
      OBVIOUS
    <3> HIDE DEF n
    <3> QED BY <2>1, <2>2, <3>1, <3>2, <1>3
  <2>3. CASE ~Completes(p)
    BY <2>1, <2>3, <1>2
  <2> QED BY <2>2, <2>3
<1>5. ASSUME NEW d \in Dirs, ObserverDrains(d) PROVE PairInv'
  <2> DEFINE q == wire[d][used[d]]
             n == Len(seen[d]) + 1
  <2>1. /\ UNCHANGED <<frames, answers, wire, queue, used, queued, buffer, overtaken>>
        /\ \/ /\ used[d] # 0 /\ q.part = "text" /\ q.frame = n
              /\ n \in 1 .. Len(frames[d]) /\ n <= MaxFrames /\ Observe(d, n)
           \/ UNCHANGED <<seen, pending, mate>>
    <3> HIDE DEF q, n
    <3> QED BY <1>5, DrainsLast DEF q, n
  <2>2. CASE /\ used[d] # 0 /\ q.part = "text" /\ q.frame = n
             /\ n \in 1 .. Len(frames[d]) /\ n <= MaxFrames /\ Observe(d, n)
    <3>1. ASSUME d = "response", answers[n] # 0, n \notin overtaken
          PROVE  answers[n] \in 1 .. Len(seen["request"])
      <4>1. used[d] \in 1 .. queued["response"] /\ used[d] <= used["response"]
        BY <2>2, <3>1 DEF QueueInv, QueueTypeOK, Counted
      <4>3. q = wire["response"][used[d]] /\ q.part # "head"
        BY <2>2, <3>1
      <4>4. q.frame = n
        BY <2>2
      <4> HIDE DEF q, n
      <4> QED BY <3>1, <4>1, <4>3, <4>4, <1>1, AnswerKnown
    <3>2. n = Len(seen[d]) + 1
      OBVIOUS
    <3> HIDE DEF q, n
    <3> QED BY <2>1, <2>2, <3>1, <3>2, <1>3
  <2>3. CASE UNCHANGED <<seen, pending, mate>>
    BY <2>3, <1>2
  <2> QED BY <2>1, <2>2, <2>3
<1>6. \/ UNCHANGED <<seen, pending, mate>>
      \/ \E d \in Dirs : ObserverTakes(d) \/ ObserverDrains(d)
  BY DEF RelayNext, RelayMain, relayVars, observed, Say, Finish, HostCloses, ServerExits, Interrupted,
     KillsServer, Joins, PumpForwards, PumpQueue, PumpEnds, WaitReturns, ObserverStops
<1> QED BY <1>2, <1>4, <1>5, <1>6

LEMMA PairStart == RelayInit => PairInv
<1> SUFFICES ASSUME RelayInit PROVE PairInv
  OBVIOUS
<1>1. /\ queued["response"] = 0 /\ seen["request"] = <<>> /\ seen["response"] = <<>>
      /\ \A k \in Keys : pending[k] = 0
      /\ \A n \in 1 .. MaxFrames : mate[n] = 0
  BY DEF RelayInit, Dirs
<1>2. PairTypeOK
  BY RelayAssumption DEF RelayAssumption, RelayInit, PairTypeOK, Numbers
<1>3. Preceded
  BY <1>1 DEF Preceded
<1>4. Stashed /\ Mated /\ Found
  BY <1>1 DEF Stashed, Mated, Found
<1> QED BY <1>2, <1>3, <1>4 DEF PairInv

\* What the wires carry, what the observer's queue holds, what was read of it
\* and what was paired: the inductive invariant of the relay.
RelayInv == WireInv /\ QueueInv /\ ReadInv /\ PairInv

\* Every reachable state of the relay satisfies the four parts.
THEOREM RelayInvariant == RelaySpec => []RelayInv
<1>1. RelayInit => RelayInv
  BY WireStart, QueueStart, ReadStart, PairStart DEF RelayInv
<1>2. RelayInv /\ [RelayNext]_relayVars => RelayInv'
  BY WireStep, QueueStep, ReadStep, PairStep DEF RelayInv
<1> QED BY <1>1, <1>2, PTL DEF RelaySpec

\* A pair has one request and one response of the same id, and a response gets
\* the request it answers, for any ids, frames, cuts and interleaving of the
\* pumps and the observer (_classify_and_write).
THEOREM ResponsesFound == RelaySpec => []ResponsesFindRequests
<1>1. RelayInv => ResponsesFindRequests
  <2> SUFFICES ASSUME RelayInv PROVE ResponsesFindRequests
    OBVIOUS
  <2>1. /\ Mated /\ Found /\ \A i \in 1 .. Len(seen["response"]) : seen["response"][i] = i
    BY LinesAre DEF RelayInv, PairInv, Dirs
  <2> QED BY <2>1 DEF Mated, Found, ResponsesFindRequests
<1> QED BY <1>1, RelayInvariant, PTL

LEMMA Narrowed ==
    ASSUME NEW S, NEW T, NEW q \in Seq(S), \A i \in 1 .. Len(q) : q[i] \in T
    PROVE  q \in Seq(T)
OBVIOUS

\* The processes and run() stand where they can.
Standing ==
    /\ host \in BOOLEAN /\ server \in {"running", "exited"}
    /\ main \in {"waiting", "terminating", "joining", "returned"}

\* No wire holds more than two pieces of a frame.
LEMMA WiresFit ==
    ASSUME WireInv, NEW d \in Dirs
    PROVE  Len(wire[d]) \in 0 .. MaxPieces /\ MaxPieces \in Nat
<1>1. wire[d] \in Seq(Piece) /\ Wired(d) /\ MaxFrames \in Nat
  BY RelayAssumption DEF WireInv, WireTypeOK, RelayAssumption
<1>2. CASE Len(wire[d]) = 0
  BY <1>1, <1>2 DEF MaxPieces
<1>3. CASE Len(wire[d]) # 0
  <2> DEFINE i == Len(wire[d])
  <2>1. i \in 1 .. Len(wire[d]) /\ i \in Nat
    BY <1>1, <1>3
  <2>2. wire[d][i] \in Piece /\ i <= 2 * wire[d][i].frame
    BY <2>1, <1>1 DEF Wired
  <2>3. wire[d][i].frame \in 1 .. MaxFrames
    BY <2>2 DEF Piece
  <2> QED BY <2>1, <2>2, <2>3, <1>1 DEF MaxPieces
<1> QED BY <1>2, <1>3

\* Every variable of the relay keeps its type.
THEOREM RelayTypes == RelaySpec => []RelayTypeOK
<1>1. RelayInit => Standing
  BY DEF RelayInit, Standing
<1>2. Standing /\ [RelayNext]_relayVars => Standing'
  <2> SUFFICES ASSUME Standing, [RelayNext]_relayVars PROVE Standing'
    OBVIOUS
  <2>1. \/ UNCHANGED <<host, server, main>>
        \/ HostCloses \/ ServerExits \/ Interrupted \/ RelayMain
    BY DEF RelayNext, relayVars, ends, Say, Finish, PumpForwards, PumpQueue, PumpEnds,
       ObserverStops, ObserverTakes, ObserverDrains
  <2>2. CASE UNCHANGED <<host, server, main>>
    BY <2>2 DEF Standing
  <2>3. CASE HostCloses \/ ServerExits \/ Interrupted
    BY <2>3 DEF Standing, HostCloses, ServerExits, Interrupted, ends
  <2>4. CASE RelayMain
    BY <2>4 DEF Standing, RelayMain, KillsServer, WaitReturns, Joins, ends
  <2> QED BY <2>1, <2>2, <2>3, <2>4
<1>3. RelayInv /\ Standing => RelayTypeOK
  <2> SUFFICES ASSUME RelayInv, Standing PROVE RelayTypeOK
    OBVIOUS
  <2>1. WireInv /\ WireTypeOK /\ QueueInv /\ QueueTypeOK /\ Queued /\ ReadInv /\ ReadTypeOK /\ PairTypeOK
    BY DEF RelayInv, WireInv, QueueInv, ReadInv, PairInv
  <2>2. \A d \in Dirs : Len(wire[d]) \in 0 .. MaxPieces /\ MaxPieces \in Nat
    BY <2>1, WiresFit
  <2>3. \A d \in Dirs : forwarded[d] \in 0 .. MaxPieces /\ queued[d] \in 0 .. MaxPieces
                        /\ used[d] \in 0 .. MaxPieces
    <3> SUFFICES ASSUME NEW d \in Dirs
                 PROVE  /\ forwarded[d] \in 0 .. MaxPieces /\ queued[d] \in 0 .. MaxPieces
                        /\ used[d] \in 0 .. MaxPieces
      OBVIOUS
    <3>1. /\ used[d] <= queued[d] /\ queued[d] <= forwarded[d] /\ forwarded[d] <= Len(wire[d])
          /\ used[d] \in Nat /\ queued[d] \in Nat /\ forwarded[d] \in Nat
      BY <2>1 DEF QueueInv, QueueTypeOK, Counted
    <3> QED BY <2>2, <3>1
  <2>4. /\ forwarded \in [Dirs -> 0 .. MaxPieces] /\ queued \in [Dirs -> 0 .. MaxPieces]
        /\ used \in [Dirs -> 0 .. MaxPieces]
    BY <2>1, <2>3 DEF QueueTypeOK
  <2>5. queue \in Seq(Item)
    <3>1. ASSUME NEW i \in 1 .. Len(queue) PROVE queue[i] \in Item
      <4>1. CASE queue[i] = Sentinel
        BY <4>1 DEF Item, Sentinel
      <4>2. CASE queue[i] # Sentinel
        <5> DEFINE d == queue[i].dir
                   p == queue[i].piece
        <5>1. queue[i] = [dir |-> d, piece |-> p] /\ d \in Dirs /\ p \in used[d] + 1 .. queued[d]
          BY <2>1, <4>2, CopyIs DEF Queued
        <5> HIDE DEF d, p
        <5>2. p \in 1 .. MaxPieces
          BY <2>2, <2>3, <5>1
        <5>3. [dir |-> d, piece |-> p] \in [dir : Dirs, piece : 1 .. MaxPieces]
          BY <5>1, <5>2
        <5> QED BY <5>1, <5>3 DEF Item
      <4> QED BY <4>1, <4>2
    <3>2. queue \in Seq([dir : Dirs, piece : Nat] \cup {Sentinel})
      BY <2>1 DEF QueueTypeOK
    <3> QED BY <3>1, <3>2
  <2>6. seen \in [Dirs -> Seq(1 .. Garbled)]
    <3>1. ASSUME NEW d \in Dirs PROVE seen[d] \in Seq(1 .. Garbled)
      <4> DEFINE a == Len(frames["request"])
                 b == Len(frames["response"])
                 l == Len(seen[d])
      <4>1. /\ seen[d] \in Seq(Nat) /\ l \in 0 .. Len(frames[d])
            /\ \A i \in 1 .. l : seen[d][i] = i
        BY <2>1, LinesAre
      <4>2. a \in Nat /\ b \in Nat /\ a + b <= MaxFrames /\ MaxFrames \in Nat
            /\ (Len(frames[d]) = a \/ Len(frames[d]) = b)
        BY <2>1, RelayAssumption DEF RelayAssumption, WireTypeOK, Dirs
      <4> HIDE DEF a, b, l
      <4>3. \A i \in 1 .. l : i \in 1 .. Garbled
        BY <4>1, <4>2 DEF Garbled
      <4>4. \A i \in 1 .. Len(seen[d]) : seen[d][i] \in 1 .. Garbled
        BY <4>1, <4>3 DEF l
      <4> QED BY <4>1, <4>4, Narrowed
    <3> QED BY <2>1, <3>1 DEF ReadTypeOK
  <2>7. \A d \in Dirs : Len(wire[d]) <= MaxPieces
    BY <2>2
  <2> QED BY <2>1, <2>4, <2>5, <2>6, <2>7
          DEF RelayTypeOK, Standing, WireTypeOK, QueueTypeOK, ReadTypeOK, PairTypeOK
<1> QED BY <1>1, <1>2, <1>3, RelayInvariant, PTL DEF RelaySpec

-----------------------------------------------------------------------------
(* The relay is a tap.                                                     *)

\* The lines whose text is in the first i pieces of a wire.
TextIn(d, i) ==
    IF i = 0 THEN 0
    ELSE IF wire[d][i].part = "head" THEN wire[d][i].frame - 1 ELSE wire[d][i].frame

LEMMA TextGrows ==
    ASSUME WireInv, NEW d \in Dirs, NEW j \in 0 .. Len(wire[d]), NEW i \in 0 .. j
    PROVE  TextIn(d, i) \in Nat /\ TextIn(d, j) \in Nat /\ TextIn(d, i) <= TextIn(d, j)
<1> DEFINE w == wire[d]
<1>1. w \in Seq(Piece) /\ Wired(d) /\ Len(w) \in Nat
  BY DEF WireInv, WireTypeOK
<1>2. \A k \in 1 .. Len(w) : w[k] \in Piece /\ w[k].frame \in Nat \ {0}
  <2> SUFFICES ASSUME NEW k \in 1 .. Len(w) PROVE w[k] \in Piece /\ w[k].frame \in Nat \ {0}
    OBVIOUS
  <2>1. w[k] \in Piece
    BY <1>1
  <2>2. w[k].frame \in 1 .. MaxFrames
    BY <2>1 DEF Piece
  <2> QED BY <2>1, <2>2, RelayAssumption DEF RelayAssumption
<1>3. TextIn(d, i) \in Nat /\ TextIn(d, j) \in Nat
  <2>1. ASSUME NEW k \in 0 .. Len(w) PROVE TextIn(d, k) \in Nat
    <3>1. CASE k = 0 BY <3>1 DEF TextIn
    <3>2. CASE k # 0
      <4>1. k \in 1 .. Len(w) /\ w[k].frame \in Nat \ {0}
        BY <3>2, <1>2
      <4> DEFINE f == w[k].frame
      <4>2. TextIn(d, k) \in {f, f - 1}
        BY <3>2 DEF TextIn
      <4>3. f \in Nat \ {0}
        BY <4>1
      <4> HIDE DEF f
      <4> QED BY <4>2, <4>3
    <3> QED BY <3>1, <3>2
  <2>2. i \in 0 .. Len(w) /\ j \in 0 .. Len(w)
    BY <1>1
  <2> QED BY <2>1, <2>2
<1>4. CASE i = 0
  BY <1>3, <1>4 DEF TextIn
<1>5. CASE i # 0 /\ i = j
  BY <1>3, <1>5
<1>6. CASE i # 0 /\ i # j
  <2> DEFINE a == w[i].frame
             b == w[j].frame
  <2>1. i \in 1 .. Len(w) /\ j \in i + 1 .. Len(w) /\ j \in 1 .. Len(w) /\ j # 0
    BY <1>1, <1>6
  <2>2. a \in Nat /\ b \in Nat /\ a <= b
    BY <2>1, <1>1, <1>2 DEF Wired
  <2>3. a = b => w[j].part # "head"
    <3> SUFFICES ASSUME a = b PROVE w[j].part = "end"
      OBVIOUS
    <3>1. j = i + 1 /\ ~Completes(w[i])
      BY <2>1, <1>1 DEF Wired
    <3> QED BY <3>1, <2>1, <1>1 DEF Wired
  <2>4. TextIn(d, i) \in {a, a - 1} /\ TextIn(d, j) = (IF w[j].part = "head" THEN b - 1 ELSE b)
    BY <2>1, <1>6 DEF TextIn
  <2> HIDE DEF a, b, w
  <2>5. CASE w[j].part = "head"
    BY <1>3, <2>2, <2>3, <2>4, <2>5
  <2>6. CASE w[j].part # "head"
    BY <1>3, <2>2, <2>4, <2>6
  <2> QED BY <2>5, <2>6
<1> QED BY <1>3, <1>4, <1>5, <1>6

\* That holds of every state, and so of the next one.
Rising ==
    \A d \in Dirs : \A j \in 0 .. Len(wire[d]) : \A i \in 0 .. j :
        TextIn(d, i) \in Nat /\ TextIn(d, j) \in Nat /\ TextIn(d, i) <= TextIn(d, j)

LEMMA TextRises == WireInv => Rising
BY TextGrows DEF Rising

LEMMA TextRisesOn == WireInv' => Rising'
BY TextRises, PTL

\* So does the count of the lines that were handed over.
Counting == \A d \in Dirs : seen[d] = UpTo(LinesUsed(d)) /\ LinesUsed(d) \in Nat

LEMMA LinesCounted == WireInv /\ QueueInv /\ ReadInv => Counting
<1> SUFFICES ASSUME WireInv, QueueInv, ReadInv, NEW d \in Dirs
             PROVE  seen[d] = UpTo(LinesUsed(d)) /\ LinesUsed(d) \in Nat
  BY DEF Counting
<1>1. LinesUsed(d) \in Nat
  BY LinesAre
<1> QED BY <1>1 DEF ReadInv, Reassembled

LEMMA LinesCount ==
    ASSUME WireInv', QueueInv', ReadInv', NEW d \in Dirs
    PROVE  seen'[d] = UpTo(LinesUsed(d)') /\ LinesUsed(d)' \in Nat
<1>1. (WireInv /\ QueueInv /\ ReadInv)' => Counting'
  BY LinesCounted, PTL
<1> QED BY <1>1 DEF Counting

LEMMA TapPrefix ==
    ASSUME NEW m \in Nat, NEW n \in Nat, m <= n
    PROVE  RelayTap!IsPrefix(UpTo(m), UpTo(n))
<1>1. Len(UpTo(m)) = m /\ Len(UpTo(n)) = n
  BY DEF UpTo
<1>2. SubSeq(UpTo(m), 1, m) = SubSeq(UpTo(n), 1, m)
  BY DEF UpTo
<1> QED BY <1>1, <1>2 DEF RelayTap!IsPrefix

\* What was observed is behind what was forwarded, and both only grow.
LEMMA TapGrows ==
    ASSUME RelayInv, RelayInv', [RelayNext]_relayVars, NEW d \in Dirs
    PROVE  /\ LinesForwarded(d) \in Nat /\ LinesForwarded(d)' \in Nat
           /\ LinesForwarded(d) <= LinesForwarded(d)'
           /\ Len(seen[d]) \in Nat /\ Len(seen'[d]) \in Nat /\ Len(seen[d]) <= Len(seen'[d])
           /\ Len(seen'[d]) <= LinesForwarded(d)'
           /\ seen[d] = UpTo(Len(seen[d])) /\ seen'[d] = UpTo(Len(seen'[d]))
<1>1. WireInv /\ WireInv' /\ QueueInv /\ QueueInv' /\ ReadInv /\ ReadInv' /\ Grown
  BY WireStep DEF RelayInv
<1>2. /\ used'[d] \in Nat /\ used'[d] <= forwarded'[d]
      /\ forwarded[d] \in Nat /\ forwarded'[d] \in Nat
      /\ forwarded[d] <= Len(wire[d]) /\ forwarded'[d] <= Len(wire'[d])
      /\ Len(wire[d]) \in Nat /\ Len(wire'[d]) \in Nat /\ Len(wire[d]) <= Len(wire'[d])
  <2>1. Counted(d) /\ Counted(d)' /\ queued'[d] \in Nat /\ queued[d] \in Nat /\ used[d] \in Nat
        /\ used'[d] \in Nat /\ forwarded[d] \in Nat /\ forwarded'[d] \in Nat
        /\ Len(wire[d]) \in Nat /\ Len(wire'[d]) \in Nat /\ Len(wire[d]) <= Len(wire'[d])
    BY <1>1 DEF QueueInv, QueueTypeOK, WireInv, WireTypeOK, Grown
  <2> QED BY <2>1 DEF Counted
<1>3. forwarded[d] <= forwarded'[d]
  <2>1. \/ forwarded' = forwarded
        \/ \E e \in Dirs : forwarded' = [forwarded EXCEPT ![e] = @ + 1]
    BY DEF RelayNext, RelayMain, relayVars, pumps, Say, Finish, HostCloses, ServerExits,
       Interrupted, KillsServer, Joins, PumpForwards, PumpQueue, PumpEnds, WaitReturns,
       ObserverStops, ObserverTakes, ObserverDrains
  <2>2. forwarded \in [Dirs -> Nat]
    BY <1>1 DEF QueueInv, QueueTypeOK
  <2> QED BY <2>1, <2>2
<1>4. LinesForwarded(d) = TextIn(d, forwarded[d]) /\ LinesForwarded(d)' = TextIn(d, forwarded[d])'
  BY DEF LinesForwarded, TextIn
<1>5. TextIn(d, forwarded[d]) \in Nat /\ TextIn(d, forwarded[d])' \in Nat
      /\ TextIn(d, forwarded[d]) <= TextIn(d, forwarded[d])'
  <2> DEFINE i == forwarded[d]
             Later(k) == IF k = 0 THEN 0
                         ELSE IF wire'[d][k].part = "head" THEN wire'[d][k].frame - 1
                         ELSE wire'[d][k].frame
  <2>1. \A j \in 0 .. Len(wire'[d]) : \A k \in 0 .. j :
           Later(k) \in Nat /\ Later(j) \in Nat /\ Later(k) <= Later(j)
    BY <1>1, TextRisesOn DEF Rising, TextIn
  <2>2. TextIn(d, i) = Later(i)
    <3>1. i # 0 => wire'[d][i] = wire[d][i]
      BY <1>1, <1>2 DEF Grown
    <3> QED BY <3>1 DEF TextIn
  <2>3. TextIn(d, forwarded[d])' = Later(forwarded'[d])
    BY DEF TextIn
  <2>4. forwarded'[d] \in 0 .. Len(wire'[d]) /\ i \in 0 .. forwarded'[d]
    BY <1>2, <1>3
  <2> HIDE DEF Later, i
  <2>5. Later(i) \in Nat /\ Later(forwarded'[d]) \in Nat /\ Later(i) <= Later(forwarded'[d])
    BY <2>1, <2>4
  <2> QED BY <2>2, <2>3, <2>5 DEF i
<1>6. Len(seen'[d]) <= LinesForwarded(d)'
  <2> DEFINE Later(k) == IF k = 0 THEN 0
                         ELSE IF wire'[d][k].part = "head" THEN wire'[d][k].frame - 1
                         ELSE wire'[d][k].frame
             u == used'[d]
             l == wire'[d][u]
  <2>1. \A j \in 0 .. Len(wire'[d]) : \A k \in 0 .. j :
           Later(k) \in Nat /\ Later(j) \in Nat /\ Later(k) <= Later(j)
    BY <1>1, TextRisesOn DEF Rising, TextIn
  <2>2. LinesForwarded(d)' = Later(forwarded'[d])
    BY DEF LinesForwarded
  <2>3. seen'[d] = UpTo(LinesUsed(d)') /\ LinesUsed(d)' \in Nat
    BY <1>1, LinesCount
  <2>4. LinesUsed(d)' <= Later(u)
    <3>1. CASE u = 0
      BY <3>1 DEF LinesUsed
    <3>2. CASE u # 0
      <4>1. wire'[d] \in Seq(Piece) /\ u \in 1 .. Len(wire'[d])
        BY <3>2, <1>1, <1>2 DEF WireInv, WireTypeOK
      <4>2. l \in Piece
        BY <4>1
      <4>3. l.frame \in Nat /\ l.frame >= 1
        BY <4>2, RelayAssumption DEF RelayAssumption, Piece
      <4>4. Later(u) = (IF l.part = "head" THEN l.frame - 1 ELSE l.frame)
        BY <3>2
      <4>5. \/ LinesUsed(d)' = l.frame /\ l.part # "head"
            \/ LinesUsed(d)' = l.frame - 1
        BY <3>2 DEF LinesUsed, Completes
      <4> HIDE DEF Later, l, u
      <4> QED BY <4>3, <4>4, <4>5
    <3> QED BY <3>1, <3>2
  <2>5. u \in 0 .. forwarded'[d] /\ forwarded'[d] \in 0 .. Len(wire'[d])
    BY <1>2
  <2> HIDE DEF Later, u, l
  <2>6. Later(u) \in Nat /\ Later(forwarded'[d]) \in Nat /\ Later(u) <= Later(forwarded'[d])
    BY <2>1, <2>5
  <2>7. Len(seen'[d]) = LinesUsed(d)'
    BY <2>3, UpToIs
  <2> QED BY <2>2, <2>3, <2>4, <2>6, <2>7
<1>7. Len(seen[d]) \in Nat /\ seen[d] = UpTo(Len(seen[d]))
  <2>1. seen[d] = UpTo(LinesUsed(d)) /\ Len(seen[d]) = LinesUsed(d) /\ LinesUsed(d) \in Nat
    <3>1. LinesUsed(d) \in 0 .. Len(frames[d]) /\ Len(frames[d]) \in Nat /\ Len(seen[d]) = LinesUsed(d)
      BY <1>1, LinesAre
    <3>2. seen[d] = UpTo(LinesUsed(d))
      BY <1>1 DEF ReadInv, Reassembled
    <3> QED BY <3>1, <3>2
  <2> QED BY <2>1
<1>8. Len(seen'[d]) \in Nat /\ seen'[d] = UpTo(Len(seen'[d]))
  <2>1. seen'[d] = UpTo(LinesUsed(d)') /\ LinesUsed(d)' \in Nat
    BY <1>1, LinesCount
  <2>2. Len(seen'[d]) = LinesUsed(d)'
    BY <2>1, UpToIs
  <2> QED BY <2>1, <2>2
<1>9. Len(seen[d]) <= Len(seen'[d])
  <2>1. \/ seen' = seen
        \/ \E e \in Dirs, n \in Nat : seen' = [seen EXCEPT ![e] = Append(@, n)]
    <3>1. ASSUME NEW e \in Dirs, ObserverTakes(e) PROVE <2>1
      <4> DEFINE p == wire[e][used[e] + 1]
                 n == Len(seen[e]) + 1
      <4>1. /\ p.frame = n /\ n \in 1 .. Len(frames[e])
            /\ Completes(p) => Observe(e, n)
            /\ ~Completes(p) => seen' = seen
        <5> HIDE DEF p, n
        <5> QED BY <3>1, <1>1, TakesNext DEF p, n
      <4> HIDE DEF p, n
      <4> QED BY <4>1 DEF Observe
    <3>2. ASSUME NEW e \in Dirs, ObserverDrains(e) PROVE <2>1
      <4> DEFINE n == Len(seen[e]) + 1
      <4>1. (n \in 1 .. Len(frames[e]) /\ Observe(e, n)) \/ seen' = seen
        <5> HIDE DEF n
        <5> QED BY <3>2, <1>1, DrainsLast DEF n
      <4> HIDE DEF n
      <4> QED BY <4>1 DEF Observe
    <3>3. seen' = seen \/ \E e \in Dirs : ObserverTakes(e) \/ ObserverDrains(e)
      BY DEF RelayNext, RelayMain, relayVars, observed, Say, Finish, HostCloses, ServerExits,
         Interrupted, KillsServer, Joins, PumpForwards, PumpQueue, PumpEnds, WaitReturns,
         ObserverStops
    <3> QED BY <3>1, <3>2, <3>3
  <2>2. seen \in [Dirs -> Seq(Nat)]
    BY <1>1 DEF ReadInv, ReadTypeOK
  <2>3. ASSUME NEW e \in Dirs, NEW n \in Nat, seen' = [seen EXCEPT ![e] = Append(@, n)]
        PROVE  Len(seen[d]) <= Len(seen'[d])
    <3>1. CASE d = e
      <4>1. seen'[d] = Append(seen[d], n) /\ seen[d] \in Seq(Nat)
        BY <2>2, <2>3, <3>1
      <4>2. Len(seen'[d]) = Len(seen[d]) + 1 /\ Len(seen[d]) \in Nat
        BY <4>1, AppendIs
      <4> QED BY <4>2
    <3>2. CASE d # e
      BY <2>2, <2>3, <3>2, <1>7
    <3> QED BY <3>1, <3>2
  <2>4. CASE seen' = seen
    BY <2>4, <1>7
  <2> QED BY <2>1, <2>3, <2>4
<1> QED BY <1>4, <1>5, <1>6, <1>7, <1>8, <1>9

\* The observer of the relay implements the abstract tap: what it was handed is
\* always a beginning of the lines that were forwarded (_pipe_observed,
\* _observer_worker).
THEOREM RelayTaps == RelaySpec => RelayImplementsTap
<1> DEFINE passing == [d \in Dirs |-> [n \in 1 .. LinesForwarded(d) |-> n]]
<1>1. RelayInit => RelayTap!TapInit
  BY DEF RelayInit, RelayTap!TapInit, LinesForwarded
<1>2. RelayInv /\ RelayInv' /\ [RelayNext]_relayVars => [RelayTap!Carry]_<<passing, seen>>
  <2> SUFFICES ASSUME RelayInv, RelayInv', [RelayNext]_relayVars PROVE RelayTap!Carry
    OBVIOUS
  <2>1. ASSUME NEW d \in Dirs
        PROVE  /\ RelayTap!IsPrefix(UpTo(LinesForwarded(d)), UpTo(LinesForwarded(d)'))
               /\ RelayTap!IsPrefix(seen[d], seen'[d])
               /\ RelayTap!IsPrefix(seen'[d], UpTo(LinesForwarded(d)'))
    BY TapGrows, TapPrefix
  <2> QED BY <2>1 DEF RelayTap!Carry, RelayTap!IsPrefix, UpTo
<1> QED BY <1>1, <1>2, RelayInvariant, PTL DEF RelaySpec, RelayImplementsTap, RelayTap!TapSpec

==============================================================================
