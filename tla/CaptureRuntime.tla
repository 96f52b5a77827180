--------------------------- MODULE CaptureRuntime ---------------------------
(***************************************************************************)
(* The runtime of the content scripts: it watches the conversation shown   *)
(* on a page and sends the background what is new.  State advances when a  *)
(* capture is sent and is put back when the answer is a refusal; captures  *)
(* overlap, and the page moves on meanwhile.  The background takes a       *)
(* capture for a duplicate that looks like one it has seen within seconds. *)
(*                                                                         *)
(* A message is its conversation, its place and how much of it there is;   *)
(* a fingerprint sees the beginning of each message.                       *)
(***************************************************************************)
EXTENDS Naturals, Sequences

CONSTANTS
    Convs,          \* conversations of the site
    Sites,          \* site options: full, hooked, bothRoles
    FpLimit,        \* how much of a message its fingerprint sees
    GateLimit,      \* how much of it the background's fingerprint sees
    MaxMessages,    \* bound: messages of a conversation
    MaxLength,      \* bound: how long a message gets
    Slots,          \* bound: captures in flight
    MaxMoves,       \* bound: navigations and manual captures
    MaxRefusals     \* bound: captures that are refused

ASSUME RuntimeAssumption ==
    /\ Convs # {}
    /\ Sites \subseteq [full : BOOLEAN, hooked : BOOLEAN, bothRoles : BOOLEAN]
    /\ FpLimit \in Nat \ {0} /\ GateLimit \in Nat \ {0}
    /\ MaxMessages \in Nat /\ MaxLength \in Nat \ {0}
    /\ Slots \subseteq Nat \ {0} /\ MaxMoves \in Nat /\ MaxRefusals \in Nat

VARIABLES
    site,       \* options of the site
    url,        \* the conversation location.href names
    dom,        \* the conversation the page shows
    text,       \* per conversation, how long each of its messages is
    streaming,  \* isStreaming()
    watched,    \* whether the observer's container is in the page
    timer,      \* debounceTimer is set
    lastHref,   \* of the polling hook
    sentFingerprint,
    sentCount,
    flight,     \* captures that have not been answered
    latest,     \* history: the slot of the capture that set the two above, or 0
    hashes,     \* keys in recentHashes of captures that are in flight or were refused
    accepted,   \* history: messages the background has accepted
    muddled,    \* history: what is sent counts messages that were not accepted
    moves,      \* history: navigations and manual captures
    refusals    \* history: captures that were refused

runtimeVars == <<site, url, dom, text, streaming, watched, timer, lastHref, sentFingerprint,
                 sentCount, flight, latest, hashes, accepted, muddled, moves, refusals>>
pageVars == <<url, dom, text, streaming, watched>>
sent     == <<sentFingerprint, sentCount, latest, muddled>>
tally    == <<accepted, moves, refusals>>
inbox    == <<flight, hashes>>

PageMessages == Convs \X (1 .. MaxMessages) \X (1 .. FpLimit)
Prints       == UNION {[1 .. n -> Convs \X (1 .. FpLimit)] : n \in 0 .. MaxMessages}
GateKeys     == Convs \X SUBSET (Convs \X (1 .. MaxMessages) \X (1 .. GateLimit))
Sends        == [messages : SUBSET PageMessages, prevFp : Prints, prevCount : 0 .. MaxMessages,
                 key : GateKeys]
NoSend       == [none |-> TRUE]

RuntimeTypeOK ==
    /\ site \in Sites /\ url \in Convs /\ dom \in Convs /\ lastHref \in Convs
    /\ text \in [Convs -> Seq(1 .. MaxLength)] /\ \A c \in Convs : Len(text[c]) <= MaxMessages
    /\ streaming \in BOOLEAN /\ watched \in BOOLEAN /\ timer \in BOOLEAN
    /\ sentFingerprint \in Prints /\ sentCount \in 0 .. MaxMessages
    /\ flight \in [Slots -> Sends \cup {NoSend}] /\ latest \in Slots \cup {0}
    /\ hashes \subseteq GateKeys
    /\ accepted \subseteq PageMessages /\ muddled \in BOOLEAN
    /\ moves \in 0 .. MaxMoves /\ refusals \in 0 .. MaxRefusals

RuntimeInit ==
    /\ site \in Sites /\ url = (CHOOSE c \in Convs : TRUE) /\ dom = url /\ lastHref = url
    /\ text = [c \in Convs |-> <<>>]
    /\ streaming = FALSE /\ watched = TRUE
    /\ timer = TRUE             \* startObserver schedules the first attempt
    /\ sentFingerprint = <<>> /\ sentCount = 0
    /\ flight = [k \in Slots |-> NoSend] /\ latest = 0 /\ hashes = {}
    /\ accepted = {} /\ muddled = FALSE /\ moves = 0 /\ refusals = 0

-----------------------------------------------------------------------------
(* The page                                                                *)

\* What a mutation of the container does: schedule().
Mutates == timer' = (timer \/ watched)

Appends ==
    /\ dom = url /\ Len(text[dom]) < MaxMessages
    /\ text' = [text EXCEPT ![dom] = Append(@, 1)]
    /\ streaming' \in {streaming, TRUE}
    /\ Mutates
    /\ UNCHANGED <<site, url, dom, watched, lastHref, sent, inbox, tally>>

Grows ==
    /\ text[dom] # <<>> /\ text[dom][Len(text[dom])] < MaxLength
    /\ text' = [text EXCEPT ![dom][Len(text[dom])] = @ + 1]
    /\ Mutates
    /\ UNCHANGED <<site, url, dom, streaming, watched, lastHref, sent, inbox, tally>>

\* The stop button the site is known by goes, outside the container.
StreamingEnds ==
    /\ streaming /\ streaming' = FALSE
    /\ UNCHANGED <<site, url, dom, text, watched, timer, lastHref, sent, inbox, tally>>

\* onNavChange
NavChange ==
    /\ sentFingerprint' = <<>> /\ sentCount' = 0 /\ latest' = 0 /\ muddled' = FALSE
    /\ timer' = TRUE

\* The URL changes first; pushState, replaceState and popstate are hooked on
\* some sites.
Navigates(c) ==
    /\ moves < MaxMoves /\ moves' = moves + 1
    /\ c # url /\ url' = c
    /\ IF site.hooked THEN NavChange ELSE UNCHANGED <<timer, sent>>
    /\ UNCHANGED <<site, dom, text, streaming, watched, lastHref, inbox, accepted, refusals>>

\* The page follows, and may put a new container in place of the old one.
PageFollows ==
    /\ dom # url /\ dom' = url
    /\ watched' \in {watched, FALSE}
    /\ timer' = (timer \/ watched)
    /\ UNCHANGED <<site, url, text, streaming, lastHref, sent, inbox, tally>>

PollNoticesUrl ==
    /\ url # lastHref /\ lastHref' = url
    /\ NavChange
    /\ UNCHANGED <<site, pageVars, inbox, tally>>

-----------------------------------------------------------------------------
(* captureNow                                                              *)

\* fingerprintConversation: the first 160 characters of every message.
Seen(n) == IF n < FpLimit THEN n ELSE FpLimit
Fingerprint == [i \in 1 .. Len(text[dom]) |-> <<dom, Seen(text[dom][i])>>]

\* The messages on the page, each as far as its fingerprint sees it.
Shown == [i \in 1 .. Len(text[dom]) |-> <<dom, i, Seen(text[dom][i])>>]

\* Streaming, or a page that so far shows only one of the roles: look again
\* in STREAM_CHECK_MS.
Defers == streaming \/ (site.bothRoles /\ Len(text[dom]) = 1)

\* The messages a capture carries.
Payload(count) ==
    LET all == {Shown[i] : i \in 1 .. Len(Shown)} IN
    IF site.full THEN all
    ELSE IF count >= Len(Shown) THEN {Shown[Len(Shown)]}
    ELSE {Shown[i] : i \in count + 1 .. Len(Shown)}

\* A message list that was counted before the page showed this conversation.
CountsAnother(fp) == fp # <<>> /\ fp[1][1] # dom

\* handleCapture up to the post: a capture with the session hint and the
\* beginnings of one that was seen in the last five seconds, which is open,
\* is taken for a duplicate.  One of a capture that is stored by then adds
\* nothing to what both fingerprints see, skipped or not.
Beginning(n) == IF n < GateLimit THEN n ELSE GateLimit
GateKey(messages) == <<url, {<<m[1], m[2], Beginning(m[3])>> : m \in messages}>>

\* A duplicate is answered like a capture that was stored, also when the one
\* before it was refused; that answer changes nothing on the page.
Skipped(key) == key \in hashes /\ latest' = 0 /\ UNCHANGED inbox

\* A capture that is posted takes a free slot.
Posted(messages, fp, count, key) ==
    /\ hashes' = hashes \cup {key}
    /\ \E k \in Slots :
          /\ flight[k] = NoSend /\ \A j \in Slots : j < k => flight[j] # NoSend
          /\ flight' = [flight EXCEPT ![k] =
                [messages |-> messages, prevFp |-> fp, prevCount |-> count, key |-> key]]
          /\ latest' = k

InFlight(key) == \E k \in Slots : flight[k] # NoSend /\ flight[k].key = key

\* Whether an attempt that finds the page unfinished is followed by another.
GivesUp == FALSE
LooksAgain == TRUE

\* Nothing is sent; what was sent may be forgotten.
Keeps(fp) == latest' = IF fp = sentFingerprint THEN latest ELSE 0

\* One attempt, from what is remembered as sent.
Attempt(fp, count, muddle) ==
    \/ /\ ~streaming
       /\ text[dom] = <<>> \/ (~Defers /\ Fingerprint = fp)
       /\ timer' = FALSE /\ UNCHANGED inbox /\ Keeps(fp)
       /\ sentFingerprint' = fp /\ sentCount' = count /\ muddled' = muddle
    \/ /\ Defers
       /\ timer' = LooksAgain /\ UNCHANGED inbox /\ Keeps(fp)
       /\ sentFingerprint' = fp /\ sentCount' = count /\ muddled' = muddle
    \/ /\ ~Defers /\ text[dom] # <<>> /\ Fingerprint # fp
       /\ timer' = FALSE
       /\ sentFingerprint' = Fingerprint /\ sentCount' = Len(text[dom])
       /\ \/ /\ Posted(Payload(count), fp, count, GateKey(Payload(count)))
             /\ muddled' = (muddle \/ CountsAnother(fp))
          \/ /\ Skipped(GateKey(Payload(count)))
             /\ muddled' = (muddle \/ CountsAnother(fp) \/ ~InFlight(GateKey(Payload(count))))

TimerFires ==
    /\ timer /\ Attempt(sentFingerprint, sentCount, muddled)
    /\ UNCHANGED <<site, pageVars, lastHref, tally>>

\* triggerCapture
Triggered ==
    /\ moves < MaxMoves /\ moves' = moves + 1
    /\ Attempt(<<>>, 0, FALSE)
    /\ UNCHANGED <<site, pageVars, lastHref, accepted, refusals>>

-----------------------------------------------------------------------------
(* The background                                                          *)

\* postToIngestAPI has stored or queued the capture.
Accepted(k) ==
    /\ flight[k] # NoSend
    /\ accepted' = accepted \cup flight[k].messages
    /\ flight' = [flight EXCEPT ![k] = NoSend]
    /\ hashes' = hashes \ {flight[k].key}
    /\ latest' = IF latest = k THEN 0 ELSE latest
    /\ UNCHANGED <<site, pageVars, timer, lastHref, sentFingerprint, sentCount, muddled, moves,
                   refusals>>

\* lastError, ok = FALSE, or sendMessage threw.
KeptAsSent(s) == <<sentFingerprint, sentCount>>
PutBack(s) == <<s.prevFp, s.prevCount>>

\* Something else was sent or reset since: what is put back is out of date.
Crossed(k) == latest # k

Refused(k) ==
    /\ flight[k] # NoSend /\ refusals < MaxRefusals
    /\ refusals' = refusals + 1
    /\ sentFingerprint' = PutBack(flight[k])[1] /\ sentCount' = PutBack(flight[k])[2]
    /\ muddled' = (muddled \/ Crossed(k))
    /\ latest' = 0
    /\ flight' = [flight EXCEPT ![k] = NoSend]
    /\ UNCHANGED <<site, pageVars, timer, lastHref, hashes, accepted, moves>>

RuntimeNext ==
    \/ Appends \/ Grows \/ StreamingEnds
    \/ \E c \in Convs : Navigates(c)
    \/ PageFollows \/ PollNoticesUrl
    \/ TimerFires \/ Triggered
    \/ \E k \in Slots : Accepted(k) \/ Refused(k)

RuntimeSpec == RuntimeInit /\ [][RuntimeNext]_runtimeVars

-----------------------------------------------------------------------------
(* Properties                                                              *)

\* The messages the background has or is about to answer for.
Given == accepted \cup UNION {flight[k].messages : k \in {j \in Slots : flight[j] # NoSend}}

\* When the runtime has nothing to send, every message shown was given to the
\* background, the last one (all of them on sites that send all) in the form
\* shown, as far as both fingerprints see it; unless answers crossed with
\* other captures, the count was of another conversation, or a refused capture
\* was tried again and taken for a duplicate (captureNow and its rollback,
\* isDuplicate).
SentMeansGiven ==
    sentFingerprint = Fingerprint /\ ~muddled =>
        \A i \in 1 .. Len(Shown) :
            \E n \in 1 .. FpLimit :
                /\ <<dom, i, n>> \in Given
                /\ (site.full \/ i = Len(Shown)) => Beginning(n) = Beginning(Shown[i][3])

\* A message that stays on the page is accepted in the end, unless a capture
\* is refused or the page puts a new container in place of the observed one
\* (schedule, captureNow, startObserver).
ShownIsAccepted ==
    \A c \in Convs, i \in 1 .. MaxMessages :
        dom = c /\ url = c /\ Len(text[c]) >= i /\ (site.bothRoles => i > 1)
            ~> \/ \E n \in 1 .. FpLimit : <<c, i, n>> \in accepted
               \/ dom # c \/ url # c \/ ~watched \/ muddled \/ refusals > 0

=============================================================================
