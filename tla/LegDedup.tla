------------------------------ MODULE LegDedup ------------------------------
(***************************************************************************)
(* CaptureDedup: of the legs that saw the same exchange, the first to      *)
(* claim it is the primary, for as long as the window lasts.  A claim      *)
(* reads the clock, then takes the lock; entries are kept in the order in  *)
(* which they were last claimed, and expire from the far end.              *)
(***************************************************************************)
EXTENDS Integers, Sequences

CONSTANTS
    Legs,       \* the capture legs, each with a thread
    Claimed,    \* (pair_id, fingerprint)
    Window,     \* window_s
    MaxEntries, \* max_entries
    MaxClock,   \* bound: the time
    MaxClaims   \* bound: claims

ASSUME DedupAssumption ==
    /\ Window \in Nat \ {0} /\ MaxEntries \in Nat \ {0}
    /\ MaxClock \in Nat /\ MaxClaims \in Nat

VARIABLES
    clock,      \* time.time()
    reading,    \* per leg, the time it has read and not used yet, or -1
    entries,    \* _entries, the least recently used first
    answered    \* history: the claims so far, in the order of the lock

dedupVars == <<clock, reading, entries, answered>>

Entry == [key : Claimed, first : 0 .. MaxClock, primary : Legs]
Claim == [key : Claimed, leg : Legs, at : 0 .. MaxClock, isPrimary : BOOLEAN, primary : Legs,
          late : BOOLEAN, pushed : SUBSET Claimed]

DedupTypeOK ==
    /\ clock \in 0 .. MaxClock /\ reading \in [Legs -> -1 .. MaxClock]
    /\ entries \in Seq(Entry) /\ Len(entries) <= MaxEntries
    /\ answered \in Seq(Claim) /\ Len(answered) <= MaxClaims

DedupInit ==
    /\ clock = 0 /\ reading = [l \in Legs |-> -1]
    /\ entries = <<>> /\ answered = <<>>

Tick ==
    /\ clock < MaxClock /\ clock' = clock + 1
    /\ UNCHANGED <<reading, entries, answered>>

ReadsClock(l) ==
    /\ reading[l] = -1 /\ Len(answered) < MaxClaims
    /\ reading' = [reading EXCEPT ![l] = clock]
    /\ UNCHANGED <<clock, entries, answered>>

\* _evict_expired pops entries that were first seen before the window, up to
\* the first one that was not: n of them.
ExpiredAtEdge(e, now) == e.first <= now - Window
Expired(e, now) == e.first < now - Window

Evicts(n, now) ==
    /\ \A i \in 1 .. n : Expired(entries[i], now)
    /\ n < Len(entries) => ~Expired(entries[n + 1], now)

\* The entries but that of a key, which has at most one.
Without(s, k) ==
    IF \E i \in DOMAIN s : s[i].key = k
      THEN LET at == CHOOSE i \in DOMAIN s : s[i].key = k
           IN  SubSeq(s, 1, at - 1) \o SubSeq(s, at + 1, Len(s))
      ELSE s

\* _enforce_cap pushes out the entry at the far end.
UnderCap(new) == IF Len(new) > MaxEntries THEN Tail(new) ELSE new

\* A fresh primary.
Primary(l, k, now, left) ==
    LET new == Append(Without(left, k), [key |-> k, first |-> now, primary |-> l])
    IN  /\ entries' = UnderCap(new)
        /\ answered' = Append(answered,
              [key |-> k, leg |-> l, at |-> now, isPrimary |-> TRUE, primary |-> l,
               late |-> \E i \in DOMAIN answered : answered[i].at > now,
               pushed |-> IF Len(new) > MaxEntries THEN {new[1].key} ELSE {}])

\* A duplicate, whose entry moves to the near end as it is.
Duplicate(l, k, now, left, e) ==
    /\ entries' = Append(Without(left, k), e)
    /\ answered' = Append(answered,
          [key |-> k, leg |-> l, at |-> now, isPrimary |-> FALSE, primary |-> e.primary,
           late |-> \E i \in DOMAIN answered : answered[i].at > now,
           pushed |-> {}])

\* claim, under the lock.
Hits(e, k, now) == e.key = k /\ now - e.first <= Window

Claims(l, k) ==
    /\ reading[l] # -1 /\ Len(answered) < MaxClaims
    /\ \E n \in 0 .. Len(entries) :
          LET left == SubSeq(entries, n + 1, Len(entries)) IN
          /\ Evicts(n, reading[l])
          /\ \/ /\ \A i \in DOMAIN left : ~Hits(left[i], k, reading[l])
                /\ Primary(l, k, reading[l], left)
             \/ \E i \in DOMAIN left :
                /\ Hits(left[i], k, reading[l])
                /\ Duplicate(l, k, reading[l], left, left[i])
    /\ reading' = [reading EXCEPT ![l] = -1]
    /\ UNCHANGED clock

DedupNext == Tick \/ \E l \in Legs : ReadsClock(l) \/ \E k \in Claimed : Claims(l, k)

DedupSpec == DedupInit /\ [][DedupNext]_dedupVars

-----------------------------------------------------------------------------
(* Properties                                                              *)

\* What one key was claimed for, in the order of the lock.
Earlier(j) == {i \in 1 .. j - 1 : answered[i].key = answered[j].key /\ answered[i].isPrimary}

\* A claim is a duplicate exactly if the key has a primary within the window
\* before it, and is then told the last one; unless the claim read the clock
\* before another that overtook it to the lock, or the cap had pushed the
\* key's entry out since (claim, _evict_expired, _enforce_cap).
OnePrimaryPerWindow ==
    \A j \in DOMAIN answered :
        LET last == CHOOSE i \in Earlier(j) : \A n \in Earlier(j) : n <= i IN
        IF answered[j].isPrimary
          THEN \/ answered[j].late \/ Earlier(j) = {}
               \/ \E n \in last + 1 .. j - 1 : answered[j].key \in answered[n].pushed
               \/ answered[j].at - answered[last].at > Window
          ELSE /\ Earlier(j) # {}
               /\ answered[j].primary = answered[last].leg
               /\ answered[j].at - answered[last].at <= Window

=============================================================================
