------------------------- MODULE SdkFunctionsProofs -------------------------
(***************************************************************************)
(* Proofs about SdkFunctions, for any URLs, numbers, eras and word size.   *)
(***************************************************************************)
EXTENDS SdkFunctions, FiniteSetTheorems, WellFoundedInduction, TLAPS

\* What a step evaluates.
LEMMA StepCases ==
    ASSUME [Next]_vars
    PROVE  \/ DoNewClient
           \/ DoResolveToken
           \/ DoPublishBulk
           \/ call'.fn \in {"parseMessages", "parsePresence"}
           \/ UNCHANGED call
  BY DEF Next, vars, DoParseMessages, DoParsePresence,
     Evaluate

-----------------------------------------------------------------------------
(* The manager URL.                                                        *)

\* A configured manager is used or refused, and never replaced.
THEOREM ManagersAreNeverReplaced == Spec => []ManagerIsNeverReplaced
<1>1. Init => ManagerIsNeverReplaced
  BY DEF Init, ManagerIsNeverReplaced
<1>2. ManagerIsNeverReplaced /\ [Next]_vars => ManagerIsNeverReplaced'
  <2> SUFFICES ASSUME ManagerIsNeverReplaced, [Next]_vars
               PROVE  ManagerIsNeverReplaced'
    OBVIOUS
  <2>1. CASE DoNewClient
    <3>1. PICK config \in Configs, env \in URLs :
            call' = [fn |-> "NewClient",
                     arg |-> [config |-> config, env |-> env],
                     res |-> NewClient(config, env)]
      BY <2>1 DEF DoNewClient, Evaluate
    <3>2. config.url \in URLs
      BY DEF Configs
    <3> QED
      BY <3>1, <3>2, TextAssumption
         DEF ManagerIsNeverReplaced, NewClient, ResolveManagerURL, TrimSpace,
             Empty, URLs
  <2>2. CASE UNCHANGED call
    BY <2>2 DEF ManagerIsNeverReplaced
  <2> QED
    BY <2>1, <2>2, StepCases
       DEF DoResolveToken, DoPublishBulk, Evaluate, ManagerIsNeverReplaced
<1> QED
  BY <1>1, <1>2, PTL DEF Spec

-----------------------------------------------------------------------------
(* Expiry and refresh.                                                     *)

\* In its range, int64 arithmetic is that of the integers.
LEMMA WrapIsIdentity ==
    ASSUME NEW n \in Int, n >= 0 - HalfWord, n < HalfWord
    PROVE  Wrap(n) = n
<1>1. HalfWord \in Nat \ {0}
  BY NumberAssumption
<1>2. n + HalfWord \in 0 .. 2 * HalfWord - 1
  BY <1>1
<1>3. (n + HalfWord) % (2 * HalfWord) = n + HalfWord
  BY <1>1, <1>2
<1> QED
  BY <1>1, <1>3 DEF Wrap

\* An instant of the era survives the conversion from seconds.
LEMMA EraIsScaled ==
    ASSUME NEW s \in Era
    PROVE  /\ s \in Nat /\ s * Scale \in Nat \ {0}
           /\ s < Threshold /\ s * Scale >= Threshold
           /\ Wrap(s * Scale) = s * Scale
<1>1. /\ s \in Nat \ {0} /\ s < Threshold
      /\ s * Scale >= Threshold /\ s * Scale < HalfWord
  BY EraAssumption, NumberAssumption
<1>2. Scale \in Nat /\ HalfWord \in Nat /\ Threshold \in Nat \ {0}
  BY NumberAssumption
<1>3. s * Scale \in Nat
  BY <1>1, <1>2
<1>4. Wrap(s * Scale) = s * Scale
  BY <1>1, <1>2, <1>3, WrapIsIdentity
<1> QED
  BY <1>1, <1>2, <1>3, <1>4

\* The three ways to write an instant mean the same.
LEMMA WrittenInstantIsParsed ==
    ASSUME NEW s \in Era, NEW text \in Writes(s)
    PROVE  parseExpiresAt(text) = s * Scale
  BY EraIsScaled, NumberAssumption
     DEF Writes, parseExpiresAt, Numeral, ISO

LEMMA SilentTextIsZero ==
    ASSUME NEW text \in {Junk, Missing, Numeral(0)}
    PROVE  ~(parseExpiresAt(text) > 0)
<1>1. 0 * Scale = 0 /\ Wrap(0) = 0 /\ 0 < Threshold
  BY NumberAssumption, WrapIsIdentity
<1> QED
  BY <1>1 DEF parseExpiresAt, Junk, Missing, Numeral

\* Whatever field of a token says when it expires, and in whatever unit, the
\* expiry is that instant.
LEMMA ExpiryIsFound ==
    ASSUME NEW tok \in Tokens, NEW s \in Era, Says(tok, s)
    PROVE  expiryFromToken(tok) = s * Scale
<1>1. CASE tok.ExpiresAt \in Writes(s)
  BY <1>1, WrittenInstantIsParsed, EraIsScaled DEF expiryFromToken
<1>2. CASE tok.ExpiresAt \in {Junk, Missing, Numeral(0)} /\ tok.Exp = s
  <2>1. s > 0
    BY EraAssumption
  <2> QED
    BY <1>2, <2>1, SilentTextIsZero, EraIsScaled DEF expiryFromToken
<1>3. CASE /\ tok.ExpiresAt \in {Junk, Missing, Numeral(0)}
           /\ tok.Exp <= 0 /\ tok.jwt = s
  <2>1. tok.Exp \in Int
    BY NumberAssumption DEF Tokens
  <2>2. ~(tok.Exp > 0)
    BY <1>3, <2>1
  <2> QED
    BY <1>3, <2>2, SilentTextIsZero, EraIsScaled DEF expiryFromToken
<1> QED
  BY <1>1, <1>2, <1>3 DEF Says

LEMMA ProductGrows ==
    ASSUME NEW m \in Int, NEW n \in Int, m <= n, NEW u \in Nat
    PROVE  m * u <= n * u /\ (0 <= m => 0 <= m * u) /\ m * u \in Int
  BY SMT

\* The delay of a refresh, for an expiry of the era.
LEMMA DelayIsAhead ==
    ASSUME NEW s \in Era, NEW now \in Nows
    PROVE  RefreshDelay(s * Scale, now)
             = (IF s * Scale - Lead < now THEN 0 ELSE s * Scale - Lead - now)
                 * Unit
<1> DEFINE ms == s * Scale
           left == ms - now - Lead
<1>1. /\ ms \in Nat /\ ms > 0 /\ now \in Nat /\ Lead \in Nat
      /\ Unit \in Nat /\ HalfWord \in Nat /\ HalfWord > 0
  BY EraIsScaled, NumberAssumption
<1>2. ms < HalfWord /\ left >= 0 - HalfWord /\ (ms - now) * Unit < HalfWord
  BY EraAssumption
<1>3. RefreshDelay(ms, now)
        = Wrap((IF Wrap(left) < 0 THEN 0 ELSE Wrap(left)) * Unit)
  BY <1>1 DEF RefreshDelay
<1> HIDE DEF ms
<1>4. left \in Int /\ left < HalfWord
  BY <1>1, <1>2
<1>5. Wrap(left) = left
  BY <1>2, <1>4, WrapIsIdentity
<1>6. CASE ms - Lead < now
  <2>1. left < 0
    BY <1>1, <1>6
  <2>2. 0 * Unit = 0 /\ Wrap(0) = 0
    BY <1>1, WrapIsIdentity
  <2> QED
    BY <1>3, <1>5, <1>6, <2>1, <2>2 DEF ms
<1>7. CASE ~(ms - Lead < now)
  <2>1. 0 <= left /\ left <= ms - now /\ left = ms - Lead - now
    BY <1>1, <1>7
  <2>2. /\ left * Unit \in Int /\ 0 <= left * Unit
        /\ left * Unit <= (ms - now) * Unit
    BY <1>1, <1>4, <2>1, ProductGrows
  <2>3. (ms - now) * Unit \in Int
    BY <1>1
  <2> HIDE DEF left
  <2>4. Wrap(left * Unit) = left * Unit
    BY <1>1, <1>2, <2>2, <2>3, WrapIsIdentity
  <2> QED
    BY <1>3, <1>5, <1>7, <2>1, <2>4 DEF ms
<1> QED
  BY <1>6, <1>7

\* A refresh is due a lead ahead of the expiry, and at once if that is past,
\* whatever the lead, the era and the units, as long as no delay in the era
\* overflows a Duration.
THEOREM RefreshesAreAhead == Spec => []RefreshIsAhead
<1>1. Init => RefreshIsAhead
  BY DEF Init, RefreshIsAhead
<1>2. RefreshIsAhead /\ [Next]_vars => RefreshIsAhead'
  <2> SUFFICES ASSUME RefreshIsAhead, [Next]_vars PROVE RefreshIsAhead'
    OBVIOUS
  <2>1. CASE DoResolveToken
    <3>1. PICK tok \in Tokens, now \in Nows :
            call' = [fn |-> "resolveToken", arg |-> [tok |-> tok, now |-> now],
                     res |->
                       [expMs |-> expiryFromToken(tok),
                        delay |-> RefreshDelay(expiryFromToken(tok), now)]]
      BY <2>1 DEF DoResolveToken, Evaluate
    <3> QED
      BY <3>1, ExpiryIsFound, DelayIsAhead DEF RefreshIsAhead
  <2>2. CASE UNCHANGED call
    BY <2>2 DEF RefreshIsAhead
  <2> QED
    BY <2>1, <2>2, StepCases
       DEF DoNewClient, DoPublishBulk, Evaluate, RefreshIsAhead
<1> QED
  BY <1>1, <1>2, PTL DEF Spec

-----------------------------------------------------------------------------
(* Bulk publishes.                                                         *)

\* What Publish returns for a message that is not nil.
LEMMA PublishReports ==
    ASSUME NEW body \in Bodies, NEW turn \in Turns, body.form # "nil"
    PROVE  /\ Publish(body, turn) # ""
           /\ Publish(body, turn) = Success
                <=> /\ body.form = "sized" /\ body.size <= MaxMessageSize
                    /\ turn.connected /\ turn.reply = "ack"
<1>1. body.form = "sized" \/ body.form = "unserializable"
  BY DEF Bodies
<1>2. turn.reply \in {"ack", "error", "timeout"} /\ turn.connected \in BOOLEAN
  BY DEF Turns
<1>3. body.form = "sized" =>
        (body.size > MaxMessageSize <=> ~(body.size <= MaxMessageSize))
  BY NumberAssumption DEF Bodies
<1>4. validateMessageSize(body)
        = IF body.form = "unserializable" THEN "failed to serialize"
          ELSE IF body.size > MaxMessageSize THEN "too large" ELSE Success
  BY DEF validateMessageSize
<1>5. CASE validateMessageSize(body) = Success
  <2>1. Publish(body, turn) = IF ~turn.connected THEN "not connected"
                              ELSE IF turn.reply = "ack" THEN Success
                              ELSE turn.reply
    BY <1>5 DEF Publish
  <2> QED
    BY <1>1, <1>2, <1>3, <1>4, <1>5, <2>1 DEF Success
<1>6. CASE validateMessageSize(body) # Success
  <2>1. Publish(body, turn) = IF ~turn.connected THEN "not connected"
                              ELSE validateMessageSize(body)
    BY <1>6 DEF Publish
  <2> QED
    BY <1>1, <1>2, <1>3, <1>4, <1>6, <2>1 DEF Success
<1> QED
  BY <1>5, <1>6

\* A message of a bulk succeeds if it is usable, the connection is up and it is
\* acked in its turn; nothing else it depends on, and no result stays empty.
THEOREM BulksReportEach == Spec => []BulkReportsEach
<1>1. Init => BulkReportsEach
  <2>1. Init => call.fn # "PublishBulk"
    BY DEF Init
  <2> QED
    BY <2>1, Zenon DEF BulkReportsEach
<1>2. BulkReportsEach /\ [Next]_vars => BulkReportsEach'
  <2> SUFFICES ASSUME BulkReportsEach, [Next]_vars PROVE BulkReportsEach'
    OBVIOUS
  <2>1. CASE DoPublishBulk
    <3>1. PICK connected \in BOOLEAN, n \in 1 .. MaxLen :
            \E messages \in [1 .. n -> BulkMessages],
               turns \in [1 .. n -> Turns] :
              call' = [fn |-> "PublishBulk",
                       arg |-> [connected |-> connected,
                                messages |-> messages, turns |-> turns],
                       res |-> PublishBulk(connected, messages, turns)]
      BY <2>1 DEF DoPublishBulk, Evaluate
    <3>2. PICK messages \in [1 .. n -> BulkMessages],
               turns \in [1 .. n -> Turns] :
            call' = [fn |-> "PublishBulk",
                     arg |-> [connected |-> connected,
                              messages |-> messages, turns |-> turns],
                     res |-> PublishBulk(connected, messages, turns)]
      BY <3>1
    <3>0. SUFFICES ASSUME connected PROVE BulkReportsEach'
      BY <3>2 DEF BulkReportsEach
    <3> DEFINE res == PublishBulk(connected, messages, turns)
               Usable(i) == /\ messages[i].named
                            /\ messages[i].body.form = "sized"
                            /\ messages[i].body.size <= MaxMessageSize
    <3>3. DOMAIN res = 1 .. n /\ DOMAIN messages = 1 .. n
      BY <3>0 DEF PublishBulk
    <3>4. ASSUME NEW i \in 1 .. n
          PROVE  /\ res[i] # ""
                 /\ res[i] = Success
                      <=> /\ Usable(i)
                          /\ turns[i].connected /\ turns[i].reply = "ack"
      <4>1. messages[i].body \in Bodies /\ turns[i] \in Turns
        BY DEF BulkMessages
      <4>2. res[i] = IF ~messages[i].named \/ messages[i].body.form = "nil"
                     THEN "missing channel or message"
                     ELSE Publish(messages[i].body, turns[i])
        BY <3>0 DEF PublishBulk
      <4> HIDE DEF res
      <4>3. CASE messages[i].named /\ messages[i].body.form # "nil"
        BY <4>1, <4>2, <4>3, PublishReports
      <4>4. CASE ~messages[i].named \/ messages[i].body.form = "nil"
        BY <4>2, <4>4 DEF Success
      <4> QED
        BY <4>3, <4>4
    <3>5. /\ call'.arg.messages = messages /\ call'.arg.turns = turns
          /\ call'.res = res
      BY <3>2
    <3> HIDE DEF res
    <3> QED
      BY <3>3, <3>4, <3>5 DEF BulkReportsEach
  <2>2. CASE UNCHANGED call
    BY <2>2 DEF BulkReportsEach
  <2>3. CASE call'.fn # "PublishBulk"
    BY <2>3, Zenon DEF BulkReportsEach
  <2> QED
    BY <2>1, <2>2, <2>3, StepCases DEF DoNewClient, DoResolveToken, Evaluate
<1> QED
  BY <1>1, <1>2, PTL DEF Spec

-----------------------------------------------------------------------------
(* Selected: its loop, by induction over the entries it has gone through.  *)

\* A set of numbers that is not empty has a least one.
LEMMA NatMin ==
    ASSUME NEW S, S \subseteq Nat, S # {}
    PROVE  \E n \in S : \A m \in S : n <= m
<1> DEFINE R == {p \in Nat \X Nat : p[1] < p[2]}
<1>1. IsWellFoundedOn(R, Nat)
  <2>1. OpToRel(<, Nat) = R
    BY DEF OpToRel
  <2> QED
    BY <2>1, NatLessThanWellFounded
<1>2. \A a, b \in Nat : a < b => <<a, b>> \in R
  OBVIOUS
<1> HIDE DEF R
<1>3. PICK x \in S : \A y \in S : ~ (<<y, x>> \in R)
  BY <1>1, WFMin
<1>4. \A y \in S : ~(y < x)
  BY <1>2, <1>3
<1> QED
  BY <1>4

\* Induction, for a property given as the set of the numbers that have it.
LEMMA NatInduct ==
    ASSUME NEW S, S \subseteq Nat, 0 \in S, \A n \in S : n + 1 \in S
    PROVE  S = Nat
<1> DEFINE T == Nat \ S
<1> SUFFICES ASSUME T # {} PROVE FALSE
  OBVIOUS
<1>1. PICK x \in T : \A y \in T : x <= y
  BY NatMin, Zenon
<1>2. x \in Nat /\ x # 0 /\ x - 1 \in Nat /\ x - 1 \notin T
  BY <1>1
<1> QED
  BY <1>1, <1>2

\* How Selected computes its result.
Loop(kept, s, I, k) ==
    kept = [n \in 0 .. k |->
              IF n = 0 THEN <<>>
              ELSE IF n \in I THEN Append(kept[n - 1], s[n]) ELSE kept[n - 1]]

\* The loop has a value after every entry.
LEMMA LoopIsDefined ==
    ASSUME NEW s, NEW I, NEW k \in Nat
    PROVE  \E kept : Loop(kept, s, I, k)
<1> DEFINE S == {n \in Nat : \E kept : Loop(kept, s, I, n)}
<1>1. 0 \in S
  <2>1. Loop([n \in 0 .. 0 |-> <<>>], s, I, 0)
    BY DEF Loop
  <2> QED
    BY <2>1
<1>2. ASSUME NEW n \in S PROVE n + 1 \in S
  <2>1. PICK g : Loop(g, s, I, n)
    OBVIOUS
  <2> DEFINE next == IF n + 1 \in I THEN Append(g[n], s[n + 1]) ELSE g[n]
             h == [i \in 0 .. n + 1 |-> IF i = n + 1 THEN next ELSE g[i]]
  <2>2. n \in Nat
    OBVIOUS
  <2> HIDE DEF next
  <2>3. \A i \in 0 .. n : h[i] = g[i]
    BY <2>2
  <2>4. ASSUME NEW i \in 0 .. n + 1
        PROVE  h[i] = IF i = 0 THEN <<>>
                      ELSE IF i \in I THEN Append(h[i - 1], s[i])
                      ELSE h[i - 1]
    <3>1. CASE i = n + 1
      <4>1. h[i] = next /\ h[i - 1] = g[n] /\ i # 0
        BY <2>2, <2>3, <3>1
      <4> QED
        BY <3>1, <4>1 DEF next
    <3>2. CASE i \in 0 .. n
      <4>1. g[i] = IF i = 0 THEN <<>>
                   ELSE IF i \in I THEN Append(g[i - 1], s[i]) ELSE g[i - 1]
        BY <2>1, <2>2, <3>2 DEF Loop
      <4>2. i # 0 => h[i - 1] = g[i - 1]
        BY <2>2, <2>3, <3>2
      <4> QED
        BY <2>3, <3>2, <4>1, <4>2
    <3> QED
      BY <2>2, <3>1, <3>2
  <2>5. Loop(h, s, I, n + 1)
    BY <2>4 DEF Loop
  <2> QED
    BY <2>2, <2>5
<1>3. S = Nat
  <2> HIDE DEF S
  <2>1. S \subseteq Nat
    BY DEF S
  <2> QED
    BY <1>1, <1>2, <2>1, NatInduct
<1> QED
  BY <1>3

\* Selected is the end of its loop.
LEMMA SelectedIsLoop ==
    ASSUME NEW s, NEW I, Len(s) \in Nat
    PROVE  \E kept : Loop(kept, s, I, Len(s)) /\ Selected(s, I) = kept[Len(s)]
<1> DEFINE kept[n \in 0 .. Len(s)] ==
             IF n = 0 THEN <<>>
             ELSE IF n \in I THEN Append(kept[n - 1], s[n]) ELSE kept[n - 1]
<1>1. kept = CHOOSE g : Loop(g, s, I, Len(s))
  BY DEF Loop
<1>2. Selected(s, I) = kept[Len(s)]
  BY DEF Selected
<1> HIDE DEF kept
<1>3. Loop(kept, s, I, Len(s))
  BY <1>1, LoopIsDefined
<1> QED
  BY <1>2, <1>3

\* The places in I up to n.
LEMMA PlacesUpTo ==
    ASSUME NEW I, NEW L \in Nat, I \subseteq 1 .. L, NEW n \in 0 .. L
    PROVE  /\ IsFiniteSet(I \cap 1 .. n)
           /\ Cardinality(I \cap 1 .. n) \in Nat
           /\ \A i \in I \cap 1 .. n :
                 /\ Cardinality(I \cap 1 .. i) \in Nat \ {0}
                 /\ Cardinality(I \cap 1 .. i) <= Cardinality(I \cap 1 .. n)
<1>1. ASSUME NEW i \in Nat PROVE IsFiniteSet(I \cap 1 .. i)
  <2>1. IsFiniteSet(1 .. i)
    BY FS_Interval
  <2> QED
    BY <2>1, FS_Subset
<1>2. \A i \in Nat : Cardinality(I \cap 1 .. i) \in Nat
  BY <1>1, FS_CardinalityType
<1>3. ASSUME NEW i \in I \cap 1 .. n
      PROVE  /\ Cardinality(I \cap 1 .. i) # 0
             /\ Cardinality(I \cap 1 .. i) <= Cardinality(I \cap 1 .. n)
  <2>1. i \in I \cap 1 .. i /\ i \in Nat /\ n \in Nat
    OBVIOUS
  <2>2. I \cap 1 .. i \subseteq I \cap 1 .. n
    OBVIOUS
  <2>3. Cardinality(I \cap 1 .. i) # 0
    BY <1>1, <2>1, FS_EmptySet
  <2>4. Cardinality(I \cap 1 .. i) <= Cardinality(I \cap 1 .. n)
    BY <1>1, <2>1, <2>2, FS_Subset
  <2> QED
    BY <2>3, <2>4
<1> QED
  BY <1>1, <1>2, <1>3

\* One place more is counted if it is in I.
LEMMA OnePlaceMore ==
    ASSUME NEW I, NEW L \in Nat, I \subseteq 1 .. L, NEW n \in Nat, n < L
    PROVE  Cardinality(I \cap 1 .. n + 1)
             = Cardinality(I \cap 1 .. n) + (IF n + 1 \in I THEN 1 ELSE 0)
<1>1. IsFiniteSet(I \cap 1 .. n)
  BY PlacesUpTo
<1>2. CASE n + 1 \in I
  <2>1. I \cap 1 .. n + 1 = (I \cap 1 .. n) \cup {n + 1}
    BY <1>2
  <2>2. n + 1 \notin I \cap 1 .. n
    OBVIOUS
  <2> QED
    BY <1>1, <1>2, <2>1, <2>2, FS_AddElement
<1>3. CASE n + 1 \notin I
  <2>1. I \cap 1 .. n + 1 = I \cap 1 .. n
    BY <1>3
  <2>2. Cardinality(I \cap 1 .. n) \in Nat
    BY <1>1, FS_CardinalityType
  <2> QED
    BY <1>3, <2>1, <2>2
<1> QED
  BY <1>2, <1>3

\* Selected keeps exactly the entries at the places in I, in their order.
LEMMA SelectedKeeps ==
    ASSUME NEW T, NEW s \in Seq(T), NEW I, I \subseteq 1 .. Len(s)
    PROVE  LET out == Selected(s, I)
           IN /\ out \in Seq(T)
              /\ Len(out) = Cardinality(I)
              /\ \A i \in I : /\ Cardinality(I \cap 1 .. i) \in DOMAIN out
                              /\ out[Cardinality(I \cap 1 .. i)] = s[i]
<1> DEFINE L == Len(s)
           Rank(i) == Cardinality(I \cap 1 .. i)
<1>1. L \in Nat
  OBVIOUS
<1>2. PICK kept : Loop(kept, s, I, L) /\ Selected(s, I) = kept[L]
  BY <1>1, SelectedIsLoop
<1> DEFINE Good(n) == /\ kept[n] \in Seq(T)
                      /\ Len(kept[n]) = Rank(n)
                      /\ \A i \in I \cap 1 .. n : kept[n][Rank(i)] = s[i]
           S == {n \in Nat : n <= L => Good(n)}
<1> HIDE DEF L, Rank
<1>3. 0 \in S
  <2>1. kept[0] = <<>>
    BY <1>1, <1>2 DEF Loop
  <2>2. I \cap 1 .. 0 = {}
    OBVIOUS
  <2>3. Rank(0) = 0
    BY <2>2, FS_EmptySet DEF Rank
  <2>4. Good(0)
    BY <2>1, <2>2, <2>3
  <2> HIDE DEF Good
  <2> QED
    BY <2>4
<1>4. ASSUME NEW n \in S PROVE n + 1 \in S
  <2> SUFFICES ASSUME n + 1 <= L PROVE Good(n + 1)
    OBVIOUS
  <2>1. n \in Nat /\ n < L /\ n + 1 \in 1 .. L /\ Good(n)
    BY <1>1
  <2>2. kept[n + 1] = IF n + 1 \in I THEN Append(kept[n], s[n + 1])
                      ELSE kept[n]
    <3>1. \A i \in 0 .. L :
            kept[i] = IF i = 0 THEN <<>>
                      ELSE IF i \in I THEN Append(kept[i - 1], s[i])
                      ELSE kept[i - 1]
      BY <1>2 DEF Loop
    <3>2. n + 1 \in 0 .. L /\ n + 1 # 0 /\ (n + 1) - 1 = n
      BY <2>1
    <3> QED
      BY <3>1, <3>2
  <2>3. s[n + 1] \in T
    BY <2>1 DEF L
  <2>4. Rank(n + 1) = Rank(n) + (IF n + 1 \in I THEN 1 ELSE 0)
    BY <1>1, <2>1, OnePlaceMore DEF L, Rank
  <2>5. /\ Rank(n) \in Nat
        /\ \A i \in I \cap 1 .. n :
              Rank(i) \in Nat \ {0} /\ Rank(i) <= Rank(n)
    <3>1. n \in 0 .. L /\ I \subseteq 1 .. L
      BY <2>1 DEF L
    <3> QED
      BY <1>1, <3>1, PlacesUpTo DEF Rank
  <2>6. Rank(n) \in Nat /\ \A i \in I \cap 1 .. n : Rank(i) \in 1 .. Rank(n)
    BY <2>5
  <2>7. CASE n + 1 \in I
    <3>1. kept[n + 1] = Append(kept[n], s[n + 1])
      BY <2>2, <2>7
    <3>2. kept[n + 1] \in Seq(T) /\ Len(kept[n + 1]) = Rank(n + 1)
      BY <2>1, <2>3, <2>4, <2>6, <2>7, <3>1
    <3>3. ASSUME NEW i \in I \cap 1 .. n PROVE kept[n + 1][Rank(i)] = s[i]
      BY <2>1, <2>3, <2>6, <3>1
    <3>4. kept[n + 1][Rank(n + 1)] = s[n + 1]
      BY <2>1, <2>3, <2>4, <2>6, <2>7, <3>1
    <3>5. \A i \in I \cap 1 .. n + 1 : i \in I \cap 1 .. n \/ i = n + 1
      BY <2>1
    <3> QED
      BY <3>2, <3>3, <3>4, <3>5
  <2>8. CASE n + 1 \notin I
    <3>1. I \cap 1 .. n + 1 = I \cap 1 .. n
      BY <2>1, <2>8
    <3> QED
      BY <2>1, <2>2, <2>4, <2>6, <2>8, <3>1
  <2> QED
    BY <2>7, <2>8
<1>5. S = Nat
  <2> HIDE DEF S
  <2>1. S \subseteq Nat
    BY DEF S
  <2> QED
    BY <1>3, <1>4, <2>1, NatInduct
<1>6. Good(L)
  BY <1>1, <1>5
<1>7. I \cap 1 .. L = I
  BY DEF L
<1>8. \A i \in I : Rank(i) \in 1 .. Rank(L)
  <2>1. L \in 0 .. L /\ I \subseteq 1 .. L
    BY <1>1 DEF L
  <2>2. /\ Rank(L) \in Nat
        /\ \A i \in I \cap 1 .. L :
              Rank(i) \in Nat \ {0} /\ Rank(i) <= Rank(L)
    BY <1>1, <2>1, PlacesUpTo DEF Rank
  <2> QED
    BY <1>7, <2>2
<1>9. Rank(L) = Cardinality(I)
  BY <1>7 DEF Rank
<1>10. kept[L] \in Seq(T) /\ Len(kept[L]) = Cardinality(I)
  BY <1>6, <1>9
<1>11. \A i \in I : Rank(i) \in DOMAIN kept[L] /\ kept[L][Rank(i)] = s[i]
  BY <1>6, <1>7, <1>8
<1> QED
  BY <1>2, <1>10, <1>11 DEF Rank

-----------------------------------------------------------------------------
(* Messages and presence.                                                  *)

\* What a step evaluates, as far as answers are concerned.
LEMMA AnswerCases ==
    ASSUME [Next]_vars
    PROVE  \/ DoParseMessages
           \/ DoParsePresence
           \/ call'.fn \notin {"parseMessages", "parsePresence"}
           \/ UNCHANGED call
  BY DEF Next, vars, DoNewClient, DoResolveToken, DoPublishBulk, Evaluate

\* Under whichever names its fields are, an envelope is read as what it holds.
LEMMA EnvelopeIsRead ==
    ASSUME NEW post \in Posts, NEW s \in Spellings, NEW now
    PROVE  envelopeToMessage(Envelope(post, s), Name, now) = Image(post, now)
<1> DEFINE env == Envelope(post, s)
<1>1. /\ s.id \in {"id", "messageId"} /\ s.data \in {"message", "data"}
      /\ s.user \in {"publisher", "userId"}
      /\ s.channel \in BOOLEAN /\ s.metadata \in BOOLEAN
  BY DEF Spellings
<1>2. /\ post.id \in Ids
      /\ post.metadata = NoText \/ post.metadata \in Metas
  BY DEF Posts
<1>3. /\ DOMAIN env = Names(post, s)
      /\ \A f \in Names(post, s) :
            env[f] = CASE f = s.id -> post.id
                       [] f = s.data -> post.data
                       [] f = s.user -> post.user
                       [] f = "metadata" /\ post.metadata # NoText
                            -> post.metadata
                       [] f = "metadata" /\ post.metadata = NoText
                            -> NotAnObject
                       [] OTHER -> Name
  BY DEF Envelope
<1> HIDE DEF env
<1>4. /\ env[s.id] = post.id
      /\ env[s.data] = post.data
      /\ env[s.user] = post.user
      /\ s.channel => env["channel"] = Name
  BY <1>1, <1>3 DEF Names
<1>5. /\ post.metadata # NoText
           => "metadata" \in DOMAIN env /\ env["metadata"] = post.metadata
      /\ post.metadata = NoText /\ s.metadata
           => "metadata" \in DOMAIN env /\ env["metadata"] = NotAnObject
      /\ post.metadata = NoText /\ ~s.metadata => "metadata" \notin DOMAIN env
  BY <1>1, <1>3 DEF Names
<1>6. /\ "id" \in DOMAIN env <=> s.id = "id"
      /\ "messageId" \in DOMAIN env <=> s.id = "messageId"
      /\ "message" \in DOMAIN env <=> s.data = "message"
      /\ "data" \in DOMAIN env <=> s.data = "data"
      /\ "publisher" \in DOMAIN env <=> s.user = "publisher"
      /\ "userId" \in DOMAIN env <=> s.user = "userId"
      /\ "channel" \in DOMAIN env <=> s.channel
  BY <1>1, <1>3 DEF Names
<1>7. /\ post.id # NoText /\ Name # NoText
      /\ post.metadata # NotAnObject \/ post.metadata = NoText
  BY <1>2, TextAssumption
<1>8. FirstField(env, "id", "messageId") = post.id
  BY <1>1, <1>4, <1>6, <1>7 DEF FirstField, Field
<1>9. Field(env, IF "message" \in DOMAIN env THEN "message" ELSE "data")
        = post.data
  BY <1>1, <1>4, <1>6 DEF Field
<1>10. Field(env, IF "publisher" \in DOMAIN env THEN "publisher"
                  ELSE "userId") = post.user
  BY <1>1, <1>4, <1>6 DEF Field
<1>11. (IF Field(env, "metadata") # NotAnObject
        THEN Field(env, "metadata") ELSE NoText) = post.metadata
  BY <1>1, <1>5, <1>7 DEF Field
<1>12. (IF Field(env, "channel") # NoText THEN env["channel"] ELSE Name)
         = Name
  BY <1>1, <1>4, <1>6 DEF Field
<1> QED
  BY <1>8, <1>9, <1>10, <1>11, <1>12 DEF envelopeToMessage, Image, env

\* AnswersAreRead's image of an envelope is what the code reads: posts that an
\* envelope may hold are read alike.
LEMMA ImageIsRead ==
    ASSUME NEW e \in Entries, e # NotAnObject, NEW now
    PROVE  envelopeToMessage(e, Name, now) = Image(Held(e), now)
<1>1. PICK post \in Posts, s \in Spellings : e = Envelope(post, s)
  BY DEF Entries
<1>2. \E n \in Posts : \E t \in Spellings : Envelope(n, t) = e
  BY <1>1
<1>3. Held(e) \in Posts /\ \E t \in Spellings : Envelope(Held(e), t) = e
  BY <1>2 DEF Held
<1> QED
  BY <1>3, EnvelopeIsRead

\* The messages of an answer are those of its entries that are objects.
LEMMA MessagesAreComplete ==
    ASSUME NEW n \in Nat, NEW raw \in [1 .. n -> Entries], NEW now
    PROVE  LET out == parseMessages(raw, Name, now)
               I == {i \in DOMAIN raw : raw[i] # NotAnObject}
           IN /\ Len(out) = Cardinality(I)
              /\ \A i \in I :
                    out[Cardinality({j \in 1 .. i : raw[j] # NotAnObject})]
                      = Image(Held(raw[i]), now)
<1> DEFINE I == {i \in DOMAIN raw : raw[i] # NotAnObject}
           envs == Selected(raw, I)
           out == parseMessages(raw, Name, now)
<1>1. raw \in Seq(Entries) /\ Len(raw) = n /\ I \subseteq 1 .. n
  OBVIOUS
<1>2. /\ envs \in Seq(Entries)
      /\ Len(envs) = Cardinality(I)
      /\ \A i \in I : /\ Cardinality(I \cap 1 .. i) \in DOMAIN envs
                      /\ envs[Cardinality(I \cap 1 .. i)] = raw[i]
  <2> HIDE DEF I
  <2> QED
    BY <1>1, SelectedKeeps
<1>3. out = [i \in DOMAIN envs |-> envelopeToMessage(envs[i], Name, now)]
  BY DEF parseMessages
<1>4. \A i \in I : I \cap 1 .. i = {j \in 1 .. i : raw[j] # NotAnObject}
  BY <1>1
<1>5. \A i \in I : raw[i] \in Entries /\ raw[i] # NotAnObject
  OBVIOUS
<1> HIDE DEF I, envs, out
<1>6. Len(out) = Cardinality(I)
  BY <1>2, <1>3
<1>7. ASSUME NEW i \in I
      PROVE  out[Cardinality({j \in 1 .. i : raw[j] # NotAnObject})]
               = Image(Held(raw[i]), now)
  <2>1. out[Cardinality(I \cap 1 .. i)] = envelopeToMessage(raw[i], Name, now)
    BY <1>2, <1>3
  <2> QED
    BY <1>4, <1>5, <2>1, ImageIsRead
<1> QED
  BY <1>6, <1>7 DEF I, out

\* The users present are those of the occupants that have one, in their order.
LEMMA PresenceIsComplete ==
    ASSUME NEW n \in Nat, NEW occupants \in [1 .. n -> Occupants],
           NEW occupancy \in Occupancies
    PROVE  LET res == parsePresence(occupants, occupancy)
               Nameless == [form |-> "object", user |-> NoText]
               Kept(o) == o.form # "other" /\ o # Nameless
               I == {i \in DOMAIN occupants : Kept(occupants[i])}
           IN /\ Len(res.users) = Cardinality(I)
              /\ \A i \in I :
                    res.users[Cardinality({j \in 1 .. i : Kept(occupants[j])})]
                      = occupants[i].user
              /\ res.count = IF occupancy = Absent THEN Len(res.users)
                             ELSE occupancy
<1> DEFINE Nameless == [form |-> "object", user |-> NoText]
           Kept(o) == o.form # "other" /\ o # Nameless
           Named(o) == \/ o.form = "object" /\ o.user # NoText
                       \/ o.form = "string"
           I == {i \in DOMAIN occupants : Named(occupants[i])}
           named == Selected(occupants, I)
           res == parsePresence(occupants, occupancy)
<1>1. occupants \in Seq(Occupants) /\ Len(occupants) = n /\ I \subseteq 1 .. n
  OBVIOUS
<1>2. /\ named \in Seq(Occupants)
      /\ Len(named) = Cardinality(I)
      /\ \A i \in I : /\ Cardinality(I \cap 1 .. i) \in DOMAIN named
                      /\ named[Cardinality(I \cap 1 .. i)] = occupants[i]
  <2> HIDE DEF I
  <2> QED
    BY <1>1, SelectedKeeps
<1>3. /\ res.users = [i \in DOMAIN named |-> named[i].user]
      /\ res.count = IF occupancy # Absent THEN occupancy ELSE Len(named)
  BY DEF parsePresence
<1>4. \A o \in Occupants : Named(o) <=> Kept(o)
  BY DEF Occupants
<1> HIDE DEF Named, Kept
<1>5. I = {i \in DOMAIN occupants : Kept(occupants[i])}
  BY <1>4
<1>6. \A i \in I : I \cap 1 .. i = {j \in 1 .. i : Kept(occupants[j])}
  BY <1>1, <1>4
<1> HIDE DEF I, named, res
<1>7. Len(res.users) = Cardinality(I) /\ Len(res.users) = Len(named)
  BY <1>2, <1>3
<1>8. ASSUME NEW i \in I
      PROVE  res.users[Cardinality({j \in 1 .. i : Kept(occupants[j])})]
               = occupants[i].user
  BY <1>2, <1>3, <1>6
<1> QED
  BY <1>3, <1>5, <1>7, <1>8 DEF Kept, res

\* However many entries an answer has and however the worker spells each of
\* them, they are read one by one, in their order, each as the post it holds at
\* the time of reading.
THEOREM AnswersReadThroughout == Spec => []AnswersAreRead
<1>1. Init => AnswersAreRead
  BY DEF Init, AnswersAreRead
<1>2. AnswersAreRead /\ [Next]_vars => AnswersAreRead'
  <2> SUFFICES ASSUME AnswersAreRead, [Next]_vars
               PROVE  AnswersAreRead'
    OBVIOUS
  <2>0. 0 .. MaxLen \subseteq Nat
    BY NumberAssumption
  <2>1. CASE DoParseMessages
    <3>1. PICK n \in 0 .. MaxLen, now \in Nows :
            \E raw \in [1 .. n -> Entries] :
              call' = [fn |-> "parseMessages",
                       arg |-> [raw |-> raw, now |-> now],
                       res |-> parseMessages(raw, Name, now)]
      BY <2>1 DEF DoParseMessages, Evaluate
    <3>2. PICK raw \in [1 .. n -> Entries] :
            call' = [fn |-> "parseMessages",
                     arg |-> [raw |-> raw, now |-> now],
                     res |-> parseMessages(raw, Name, now)]
      BY <3>1
    <3>3. /\ call'.fn = "parseMessages"
          /\ call'.arg.raw = raw /\ call'.arg.now = now
          /\ call'.res = parseMessages(raw, Name, now)
      BY <3>2
    <3> DEFINE I == {i \in DOMAIN raw : raw[i] # NotAnObject}
               res == parseMessages(raw, Name, now)
    <3>4. /\ Len(res) = Cardinality(I)
          /\ \A i \in I :
                res[Cardinality({j \in 1 .. i : raw[j] # NotAnObject})]
                  = Image(Held(raw[i]), now)
      BY <2>0, MessagesAreComplete
    <3> HIDE DEF res
    <3> QED
      BY <3>3, <3>4 DEF AnswersAreRead, KeptInOrder, res
  <2>2. CASE DoParsePresence
    <3>1. PICK n \in 0 .. MaxLen, occupancy \in Occupancies :
            \E occupants \in [1 .. n -> Occupants] :
              call' = [fn |-> "parsePresence",
                       arg |-> [occupants |-> occupants,
                                occupancy |-> occupancy],
                       res |-> parsePresence(occupants, occupancy)]
      BY <2>2 DEF DoParsePresence, Evaluate
    <3>2. PICK occupants \in [1 .. n -> Occupants] :
            call' = [fn |-> "parsePresence",
                     arg |-> [occupants |-> occupants,
                              occupancy |-> occupancy],
                     res |-> parsePresence(occupants, occupancy)]
      BY <3>1
    <3>3. /\ call'.fn = "parsePresence"
          /\ call'.arg.occupants = occupants
          /\ call'.arg.occupancy = occupancy
          /\ call'.res = parsePresence(occupants, occupancy)
      BY <3>2
    <3> DEFINE Nameless == [form |-> "object", user |-> NoText]
               Kept(o) == o.form # "other" /\ o # Nameless
               I == {i \in DOMAIN occupants : Kept(occupants[i])}
               res == parsePresence(occupants, occupancy)
    <3>4. /\ Len(res.users) = Cardinality(I)
          /\ \A i \in I :
                res.users[Cardinality({j \in 1 .. i : Kept(occupants[j])})]
                  = occupants[i].user
          /\ res.count = IF occupancy = Absent THEN Len(res.users)
                         ELSE occupancy
      BY <2>0, PresenceIsComplete
    <3> HIDE DEF res
    <3> QED
      BY <3>3, <3>4 DEF AnswersAreRead, KeptInOrder, res
  <2>3. CASE call'.fn \notin {"parseMessages", "parsePresence"}
    BY <2>3, Zenon DEF AnswersAreRead
  <2>4. CASE UNCHANGED call
    BY <2>4 DEF AnswersAreRead, KeptInOrder
  <2> QED
    BY <2>1, <2>2, <2>3, <2>4, AnswerCases
<1> QED
  BY <1>1, <1>2, PTL DEF Spec
=============================================================================
