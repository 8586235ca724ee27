---------------------------- MODULE SdkFunctions ----------------------------
(***************************************************************************)
(* The functions of the SDK that keep no state: the manager URL NewClient  *)
(* resolves, the expiry of a minted token and the delay of its refresh,    *)
(* what a bulk publish reports, and the messages and presence read from    *)
(* the worker's answers.                                                   *)
(*                                                                         *)
(* Each action evaluates one function on one input; call holds both and    *)
(* the result.  Strings are taken apart as far as the functions look into  *)
(* them, and int64 arithmetic wraps at HalfWord.                           *)
(***************************************************************************)
EXTENDS Integers, Sequences, FiniteSets

CONSTANTS
    Hosts,       \* http(s) URLs with a host, without their trailing slashes
    Broken,      \* texts that are not such a URL
    NoText,      \* the empty text
    DefaultURL,  \* DefaultManagerURL
    Keys,        \* API keys
    Prefixed,    \* those that begin with "ak_"
    Numbers,     \* the integers a token's fields may hold
    Era,         \* expiry instants in seconds, as providers mint them
    Nows,        \* times at which a function is called, in milliseconds
    Lead,        \* Config.TokenRefreshLeadMs
    Scale,       \* 1000: milliseconds in a second
    Unit,        \* 1000000: nanoseconds in a millisecond
    Threshold,   \* 1e12: an ExpiresAt below it is in seconds
    HalfWord,    \* 2^63
    MaxMessageSize,
    Ids,         \* message ids
    Payloads,    \* message contents
    Users,       \* user ids
    Metas,       \* metadata objects
    Name,        \* the channel asked
    MaxLen       \* bound: messages in a bulk, entries in an answer

Error == "error"
NotAnObject == <<>>

ASSUME TextAssumption ==
    /\ DefaultURL \in Hosts
    /\ Hosts \cap Broken = {}
    /\ NoText \notin Hosts \cup Broken
    /\ NoText \notin Ids \cup {Name} \cup Metas
    /\ NotAnObject \notin Metas
    /\ Error \notin Hosts

ASSUME NumberAssumption ==
    /\ Numbers \subseteq Int /\ Nows \subseteq Nat
    /\ Lead \in Nat /\ MaxMessageSize \in Nat /\ MaxLen \in Nat
    /\ {Scale, Unit, Threshold, HalfWord} \subseteq Nat \ {0}

\* The instants of the era in seconds lie below the threshold, those in
\* milliseconds above, and no delay until one of them overflows a Duration.
ASSUME EraAssumption ==
    \A s \in Era :
        /\ s \in 1 .. Threshold - 1
        /\ s * Scale >= Threshold
        /\ s * Scale < HalfWord
        /\ \A now \in Nows : /\ s * Scale - now - Lead >= 0 - HalfWord
                             /\ (s * Scale - now) * Unit < HalfWord

VARIABLE call  \* the function evaluated last, its argument and its result

vars == <<call>>

Init == call = [fn |-> "none"]

\* One evaluation to a behaviour.
Evaluate(fn, arg, res) ==
    /\ call.fn = "none"
    /\ call' = [fn |-> fn, arg |-> arg, res |-> res]

\* int64
Wrap(n) == ((n + HalfWord) % (2 * HalfWord)) - HalfWord

-----------------------------------------------------------------------------
(* NewClient and ResolveManagerURL.                                        *)

\* A URL as configured: blanks around it and slashes behind it, or not.
URLs == [core : Hosts \cup Broken \cup {NoText}, slashes : 0 .. 2,
         padded : BOOLEAN]

TrimSpace(u) == [u EXCEPT !.padded = FALSE]
Empty(u) == u.core = NoText /\ u.slashes = 0 /\ ~u.padded

\* (mutant) An unusable candidate is replaced by the default.
ResolveOrDefault(url, env) ==
    LET given == {u \in {TrimSpace(url), TrimSpace(env)} :
                     ~Empty(u) /\ u.core \in Hosts}
    IN IF TrimSpace(url) \in given THEN url.core
       ELSE IF TrimSpace(env) \in given THEN env.core ELSE DefaultURL

\* The argument, the environment, the default; without trailing slashes.
ResolveManagerURL(url, env) ==
    LET candidate == IF ~Empty(TrimSpace(url)) THEN url.core
                     ELSE IF ~Empty(TrimSpace(env)) THEN env.core
                     ELSE DefaultURL
    IN IF candidate \in Hosts THEN candidate ELSE Error

Configs == [key : Keys \cup {NoText}, provider : BOOLEAN, url : URLs]

\* The checks of NewClient; the result stands for the client's manager.
NewClient(config, env) ==
    IF ~config.provider /\ config.key \notin Prefixed THEN Error
    ELSE ResolveManagerURL(config.url, env)

DoNewClient ==
    \E config \in Configs, env \in URLs :
        Evaluate("NewClient", [config |-> config, env |-> env],
                 NewClient(config, env))

-----------------------------------------------------------------------------
(* The expiry of a minted token and the delay of its refresh.              *)

Numeral(n) == [form |-> "number", value |-> n]
ISO(ms) == [form |-> "iso", value |-> ms]
Junk == [form |-> "junk", value |-> 0]
Missing == [form |-> "missing", value |-> 0]

\* ExpiresAt: a number, an ISO-8601 timestamp, neither, or empty.
Texts == {Numeral(n) : n \in Numbers} \cup {ISO(n) : n \in Numbers}
            \cup {Junk, Missing}

\* jwt is the exp claim; 0 when the token is no JWT or has none.
Tokens == [ExpiresAt : Texts, Exp : Numbers, jwt : Numbers]

parseExpiresAt(text) ==
    CASE text.form = "number" /\ text.value < Threshold ->
            Wrap(text.value * Scale)
      [] text.form = "number" /\ text.value >= Threshold -> text.value
      [] text.form = "iso" -> text.value
      [] OTHER -> 0

\* (mutant) An ExpiresAt that is present decides.
ExpiryFromFirstField(tok) ==
    IF tok.ExpiresAt # Missing THEN parseExpiresAt(tok.ExpiresAt)
    ELSE IF tok.Exp > 0 THEN Wrap(tok.Exp * Scale)
    ELSE Wrap(tok.jwt * Scale)

expiryFromToken(tok) ==
    IF parseExpiresAt(tok.ExpiresAt) > 0 THEN parseExpiresAt(tok.ExpiresAt)
    ELSE IF tok.Exp > 0 THEN Wrap(tok.Exp * Scale)
    ELSE Wrap(tok.jwt * Scale)

NoTimer == "no timer"

\* scheduleTokenRefresh: the Duration given to AfterFunc.
RefreshDelay(expMs, now) ==
    IF expMs <= 0 THEN NoTimer
    ELSE LET delayMs == Wrap(expMs - now - Lead)
         IN Wrap((IF delayMs < 0 THEN 0 ELSE delayMs) * Unit)

DoResolveToken ==
    \E tok \in Tokens, now \in Nows :
        LET expMs == expiryFromToken(tok)
        IN Evaluate("resolveToken", [tok |-> tok, now |-> now],
                    [expMs |-> expMs, delay |-> RefreshDelay(expMs, now)])

-----------------------------------------------------------------------------
(* PublishBulk and Publish, on what the connection and the worker do while *)
(* each message has its turn.                                              *)

\* A message is nil, or cannot be serialized, or has a size.
Bodies == {[form |-> f, size |-> 0] : f \in {"nil", "unserializable"}}
            \cup {[form |-> "sized", size |-> n] :
                     n \in {MaxMessageSize, MaxMessageSize + 1}}

BulkMessages == [named : BOOLEAN, body : Bodies]
Turns == [connected : BOOLEAN, reply : {"ack", "error", "timeout"}]

Success == "success"

validateMessageSize(body) ==
    IF body.form = "unserializable" THEN "failed to serialize"
    ELSE IF body.size > MaxMessageSize THEN "too large" ELSE Success

Publish(body, turn) ==
    IF ~turn.connected THEN "not connected"
    ELSE IF validateMessageSize(body) # Success THEN validateMessageSize(body)
    ELSE IF turn.reply = "ack" THEN Success ELSE turn.reply

\* (mutant) The loop ends at the first failure; later results stay empty.
PublishBulkUntilFailure(connected, messages, turns) ==
    IF ~connected THEN Error
    ELSE [i \in DOMAIN messages |->
            IF ~messages[i].named \/ messages[i].body.form = "nil"
            THEN "missing channel or message"
            ELSE IF \E j \in 1 .. i - 1 :
                        Publish(messages[j].body, turns[j]) # Success
                 THEN "" ELSE Publish(messages[i].body, turns[i])]

\* connected is what IsConnected says before the first message.
PublishBulk(connected, messages, turns) ==
    IF ~connected THEN Error
    ELSE [i \in DOMAIN messages |->
            IF ~messages[i].named \/ messages[i].body.form = "nil"
            THEN "missing channel or message"
            ELSE Publish(messages[i].body, turns[i])]

DoPublishBulk ==
    \E connected \in BOOLEAN, n \in 1 .. MaxLen :
        \E messages \in [1 .. n -> BulkMessages], turns \in [1 .. n -> Turns] :
            Evaluate("PublishBulk",
                     [connected |-> connected, messages |-> messages,
                      turns |-> turns],
                     PublishBulk(connected, messages, turns))

-----------------------------------------------------------------------------
(* Messages and presence, as the worker spells them.                       *)

\* metadata is NoText for none.
Posts == [id : Ids, data : Payloads, user : Users,
          metadata : Metas \cup {NoText}]

\* The names under which an envelope may have each field; metadata tells
\* whether there is such a field although there are none (null, a text).
Spellings == [id : {"id", "messageId"}, data : {"message", "data"},
              user : {"publisher", "userId"}, channel : BOOLEAN,
              metadata : BOOLEAN]

\* The names of the fields an envelope has.
Names(post, s) ==
    {s.id, s.data, s.user}
        \cup {f \in {"channel"} : s.channel}
        \cup {f \in {"metadata"} : s.metadata \/ post.metadata # NoText}

\* An envelope is a function on those names; publisher stands for the userId
\* in it.
Envelope(post, s) ==
    [f \in Names(post, s)
        |-> CASE f = s.id -> post.id
              [] f = s.data -> post.data
              [] f = s.user -> post.user
              [] f = "metadata" /\ post.metadata # NoText -> post.metadata
              [] f = "metadata" /\ post.metadata = NoText -> NotAnObject
              [] OTHER -> Name]

\* The entries of s at the places in I, appended in turn.
Selected(s, I) ==
    LET kept[n \in 0 .. Len(s)] ==
            IF n = 0 THEN <<>>
            ELSE IF n \in I THEN Append(kept[n - 1], s[n]) ELSE kept[n - 1]
    IN kept[Len(s)]

Entries == {NotAnObject}
             \cup {Envelope(post, s) : post \in Posts, s \in Spellings}

Field(env, f) == IF f \in DOMAIN env THEN env[f] ELSE NoText

FirstField(env, f, g) ==
    IF Field(env, f) # NoText THEN Field(env, f) ELSE Field(env, g)

\* (mutant) Only the fields of a live message are known.
LiveToMessage(env, name, now) ==
    [id |-> Field(env, "id"),
     data |-> Field(env, "message"),
     user |-> Field(env, "publisher"),
     metadata |-> Field(env, "metadata"),
     channel |-> name,
     timestamp |-> now]

\* The timestamp is the time of reading: nothing of the envelope goes into it.
envelopeToMessage(env, name, now) ==
    [id |-> FirstField(env, "id", "messageId"),
     data |-> Field(env, IF "message" \in DOMAIN env THEN "message"
                         ELSE "data"),
     user |-> Field(env, IF "publisher" \in DOMAIN env THEN "publisher"
                         ELSE "userId"),
     metadata |-> IF Field(env, "metadata") # NotAnObject
                  THEN Field(env, "metadata") ELSE NoText,
     channel |-> IF Field(env, "channel") # NoText THEN env["channel"]
                 ELSE name,
     timestamp |-> now]

parseMessages(raw, name, now) ==
    LET envs == Selected(raw, {i \in DOMAIN raw : raw[i] # NotAnObject})
    IN [i \in DOMAIN envs |-> envelopeToMessage(envs[i], name, now)]

DoParseMessages ==
    \E n \in 0 .. MaxLen, now \in Nows :
        \E raw \in [1 .. n -> Entries] :
            Evaluate("parseMessages", [raw |-> raw, now |-> now],
                     parseMessages(raw, Name, now))

\* An occupant is an object, which may lack a userId, or a string, or neither.
Occupants == [form : {"object", "string", "other"}, user : Users \cup {NoText}]

\* occupancy, or Absent
Absent == 0 - 1
Occupancies == 0 .. MaxLen \cup {Absent}

parsePresence(occupants, occupancy) ==
    LET Named(o) == \/ o.form = "object" /\ o.user # NoText
                    \/ o.form = "string"
        named == Selected(occupants,
                          {i \in DOMAIN occupants : Named(occupants[i])})
    IN [users |-> [i \in DOMAIN named |-> named[i].user],
        count |-> IF occupancy # Absent THEN occupancy ELSE Len(named)]

DoParsePresence ==
    \E n \in 0 .. MaxLen, occupancy \in Occupancies :
        \E occupants \in [1 .. n -> Occupants] :
            Evaluate("parsePresence",
                     [occupants |-> occupants, occupancy |-> occupancy],
                     parsePresence(occupants, occupancy))

-----------------------------------------------------------------------------
Next ==
    \/ DoNewClient
    \/ DoResolveToken
    \/ DoPublishBulk
    \/ DoParseMessages
    \/ DoParsePresence

Spec == Init /\ [][Next]_vars

-----------------------------------------------------------------------------
\* manager_discovery.go:14-17.  A manager that is configured is the one that is
\* used, or NewClient fails: an argument in code is never replaced by the
\* environment's, nor either of them by the default, however unusable they are.
\* Who configures nothing, blanks included, and has credentials gets a client.
ManagerIsNeverReplaced ==
    call.fn = "NewClient" =>
        LET url == call.arg.config.url
            env == call.arg.env
            Given(u) == u.core # NoText \/ u.slashes > 0
            entitled == \/ call.arg.config.provider
                        \/ call.arg.config.key \in Prefixed
        IN /\ call.res \in Hosts \cup {Error}
           /\ Given(url) => call.res \in {url.core, Error}
           /\ ~Given(url) /\ Given(env) => call.res \in {env.core, Error}
           /\ entitled /\ call.res = Error => Given(url) \/ Given(env)

\* The ways to write an instant: seconds, milliseconds, ISO-8601.
Writes(s) == {Numeral(s), Numeral(s * Scale), ISO(s * Scale)}

\* A token says that it expires at instant s, in a field no earlier one hides.
Says(tok, s) ==
    LET Silent == {Junk, Missing, Numeral(0)}
    IN \/ tok.ExpiresAt \in Writes(s)
       \/ tok.ExpiresAt \in Silent /\ tok.Exp = s
       \/ tok.ExpiresAt \in Silent /\ tok.Exp <= 0 /\ tok.jwt = s

\* What a token says of its expiry is found, in whichever field and unit it is
\* said, and the refresh is due a lead ahead of it, or at once if that is past:
\* never later, and never without delay while there is time.
RefreshIsAhead ==
    call.fn = "resolveToken" =>
        \A s \in Era :
            Says(call.arg.tok, s) =>
                LET due == s * Scale - Lead
                    now == call.arg.now
                IN /\ call.res.expMs = s * Scale
                   /\ call.res.delay =
                        (IF due < now THEN 0 ELSE due - now) * Unit

\* Every message of a bulk is reported on, at its place, by what became of it:
\* an unusable message or a connection that is gone for a while fails those
\* concerned and no other, and success means that a message which was to be
\* accepted was acked.
BulkReportsEach ==
    call.fn = "PublishBulk" /\ call.arg.connected =>
        LET messages == call.arg.messages
            turns == call.arg.turns
            Usable(i) ==
                /\ messages[i].named
                /\ messages[i].body.form = "sized"
                /\ messages[i].body.size <= MaxMessageSize
        IN /\ DOMAIN call.res = DOMAIN messages
           /\ \A i \in DOMAIN messages :
                 /\ call.res[i] # ""
                 /\ call.res[i] = Success
                      <=> /\ Usable(i)
                          /\ turns[i].connected /\ turns[i].reply = "ack"

\* out has an image of each entry kept, in their order, and nothing else.
KeptInOrder(out, raw, Kept(_), Of(_)) ==
    /\ Len(out) = Cardinality({i \in DOMAIN raw : Kept(raw[i])})
    /\ \A i \in DOMAIN raw :
          Kept(raw[i]) =>
            out[Cardinality({j \in 1 .. i : Kept(raw[j])})] = Of(raw[i])

\* The post an envelope holds, under whichever names.
Held(e) ==
    CHOOSE post \in Posts : \E s \in Spellings : Envelope(post, s) = e

\* The message a post is, read at now from the channel asked.
Image(post, now) ==
    [id |-> post.id, data |-> post.data, user |-> post.user,
     metadata |-> post.metadata, channel |-> Name, timestamp |-> now]

\* The entries of an answer are read one by one, in their order, and the same
\* however the worker spells them: a post gives the same message under whichever
\* names, live or from the history, with its metadata if it has any, and with
\* the time of reading, which is not when it was sent (channel.go:373); whoever
\* is present is listed, in whichever form, and counted unless the worker gives
\* a count.
AnswersAreRead ==
    /\ call.fn = "parseMessages" =>
          LET Kept(e) == e # NotAnObject
              Read(e) == Image(Held(e), call.arg.now)
          IN KeptInOrder(call.res, call.arg.raw, Kept, Read)
    /\ call.fn = "parsePresence" =>
          LET Nameless == [form |-> "object", user |-> NoText]
              Kept(o) == o.form # "other" /\ o # Nameless
              UserOf(o) == o.user
          IN /\ KeptInOrder(call.res.users, call.arg.occupants, Kept, UserOf)
             /\ call.res.count = IF call.arg.occupancy = Absent
                                 THEN Len(call.res.users)
                                 ELSE call.arg.occupancy
=============================================================================
