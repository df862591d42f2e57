------------------------- MODULE YouTubeContinuation -------------------------
(***************************************************************************)
(* sites/youtube/continuation.py with client_requests_continuation.py,     *)
(* client_requests_errors.py, continuations.py and continuation_helpers.py:*)
(* one retrieval, from its bootstrap (YouTubeSetup) over polls of the chat *)
(* (YouTubeMessages says what becomes of their actions) to its end.        *)
(*                                                                         *)
(* The provider answers a token with that page of the chat and the next    *)
(* token; or, when it stalls, with the same token and the page again or    *)
(* nothing; or with one of the errors the code tells apart.                *)
(***************************************************************************)
EXTENDS YouTubeSetup

CONSTANTS
    Pages,                 \* the chat: a sequence of sequences of actions
    Requests,              \* what may be asked for
    FirstProfiles,         \* the profiles a retrieval may start with
    MaxNoProgressPolls,    \* _YT_MAX_NO_PROGRESS_POLLS
    MaxProfileFallbacks    \* _YT_MAX_PROFILE_FALLBACKS

\* A request, and an action of the chat.
AnyRequest ==
    [explicit : BOOLEAN, signedIn : BOOLEAN, clipPage : BOOLEAN, clip : Int, known : BOOLEAN,
     replay : BOOLEAN, identified : BOOLEAN, view : {"top", "live"}, kinds : SUBSET STRING,
     range : [first : Int \cup {None}, last : Int \cup {None}]]
Actions == [id : Nat, kind : STRING, time : Int, event : STRING \cup {None},
            author : STRING \cup {None}]

ASSUME ChatAssumption ==
    /\ Pages \in Seq(Seq(Actions)) /\ Pages # <<>>
    /\ Requests \subseteq AnyRequest
    /\ FirstProfiles \subseteq {None, "web", "android", "ios"}
    /\ None \notin {"caller", "web", "android", "ios"}
    /\ MaxNoProgressPolls \in Nat \ {0} /\ MaxProfileFallbacks \in Nat
    /\ PaidLimit \in Nat

VARIABLES
    context,       \* ctx.innertube_context: the client and visitor it names
    token,         \* loop_state.continuation: its page and the profile it is for
    offset,        \* loop_state.offset_milliseconds
    accepted,      \* _accepted_response
    recovering,    \* _initial_recovery_pending
    fallbacks,     \* progress.fallback_count
    stalled,       \* progress.no_progress_count
    latest,        \* progress.latest_replay_offset_milliseconds
    refused,       \* the profiles whose token was refused as invalid
    paid,          \* paid_events
    out            \* the actions processed, in order, and what became of each

loopVars == <<context, token, offset, accepted, recovering, fallbacks, stalled, latest, refused, paid, out>>
vars == <<request, session, cfg, info, attempted, attempt, pc, context, token, offset, accepted,
          recovering, fallbacks, stalled, latest, refused, paid, out>>

Ended == {"ended", "failed"}

NoToken == [page |-> 1, by |-> None]
NoInfo == [status |-> "unknown", playable |-> "ok", views |-> {}, supplied |-> FALSE]

Init ==
    /\ request \in Requests
    /\ \E profile \in FirstProfiles :
         session = [profile |-> profile, agent |-> UserAgent(profile), client |-> None,
                    visitor |-> None]
    /\ cfg = [client |-> "web", visitor |-> "boot", agent |-> session.agent]
    /\ info = NoInfo
    /\ attempted = {} /\ attempt = 1
    /\ pc = "bootstrap"
    /\ context = [client |-> None, visitor |-> None]
    /\ token = NoToken /\ offset = None
    /\ accepted = FALSE /\ recovering = FALSE
    /\ fallbacks = 0 /\ stalled = 0 /\ latest = None
    /\ refused = {} /\ paid = <<>> /\ out = <<>>

-----------------------------------------------------------------------------
(* _build_context.                                                         *)

StartOffset ==
    IF request.range.first = None THEN None ELSE Max({request.range.first, 0})

\* The view that was asked for needs a token.  What the bootstrap said is not
\* kept any longer.
Build ==
    /\ pc = "build"
    /\ cfg' = ProfiledConfig(cfg, session.profile)
    /\ IF request.view \in info.views
       THEN /\ session' = WithHeaders(session, cfg')
            /\ context' = [client |-> cfg'.client, visitor |-> cfg'.visitor]
            /\ token' = [page |-> 1, by |-> session.profile]
            /\ offset' = StartOffset
            /\ pc' = "request"
       ELSE pc' = "failed" /\ UNCHANGED <<session, context, token, offset>>
    /\ info' = NoInfo /\ attempted' = {} /\ attempt' = 1
    /\ UNCHANGED <<request, accepted, recovering, fallbacks, stalled, latest,
                   refused, paid, out>>

-----------------------------------------------------------------------------
(* _get_continuation_info: one request, tried again when it fails.         *)

\* 403, 429, 5xx, a network error, or a body that is not JSON.
RequestRetried ==
    /\ pc = "request"
    /\ IF attempt < MaxAttempts THEN attempt' = attempt + 1 /\ UNCHANGED pc
       ELSE pc' = "failed" /\ UNCHANGED attempt
    /\ UNCHANGED <<request, session, cfg, info, attempted, loopVars>>

\* A challenge, or an error of the request that no attempt would mend.
RequestRejected ==
    /\ pc = "request"
    /\ pc' = "failed"
    /\ UNCHANGED <<request, setupVars, loopVars>>

\* _handle_continuation_response(): any body may name a new visitor, an error too.
Refreshed(s) == {[s EXCEPT !.visitor = visitor] : visitor \in {s.visitor, "fresh"}}

\* A body that reports an error, or whose chat block is empty, is no reason to change
\* the profile.
ApiError ==
    /\ pc = "request"
    /\ session' \in Refreshed(session)
    /\ pc' = "failed"
    /\ UNCHANGED <<request, cfg, info, attempted, attempt, loopVars>>

-----------------------------------------------------------------------------
(* _recover_incomplete_continuation.                                       *)

\* The token stays; the headers are replaced whole, the visitor ID among them.
SwitchProfile(next) ==
    LET switched == ApplyProfile(session, next) IN
    /\ cfg' = ProfiledConfig(cfg, next)
    /\ context' = [client |-> cfg'.client, visitor |-> cfg'.visitor]
    /\ session' = WithHeaders(switched, cfg')
    /\ attempt' = 1

MayRecover ==
    AutoFallback /\ fallbacks < MaxProfileFallbacks /\ NextProfile(session.profile) # None

\* The chat block is missing, or "unknown error", at every attempt.
RequestIncomplete ==
    /\ pc = "request"
    /\ \/ /\ attempt < MaxAttempts
          /\ attempt' = attempt + 1
          /\ UNCHANGED <<session, cfg, pc, context, fallbacks>>
       \/ /\ attempt = MaxAttempts
          /\ fallbacks' = fallbacks + 1
          /\ IF MayRecover THEN SwitchProfile(NextProfile(session.profile)) /\ UNCHANGED pc
             ELSE pc' = "failed" /\ UNCHANGED <<session, cfg, attempt, context>>
    /\ UNCHANGED <<request, info, attempted, token, offset, accepted, recovering, stalled,
                   latest, refused, paid, out>>

\* _retry_rejected_initial_replay()'s condition, and one that asks whether anything
\* was emitted instead.
RestartAllowed_IfSilent ==
    ~\E i \in DOMAIN out : out[i].as = "yield"

RestartAllowed == ~accepted

\* HTTP 400, INVALID_ARGUMENT: the first request of a replay may be repeated with
\* the next profile and the tokens of a new bootstrap.
RequestInvalid ==
    /\ pc = "request"
    /\ refused' = refused \cup {token.by}
    /\ LET retry == RestartAllowed /\ request.replay /\ request.identified IN
       /\ fallbacks' = IF retry THEN fallbacks + 1 ELSE fallbacks
       /\ IF retry /\ MayRecover
          THEN /\ SwitchProfile(NextProfile(session.profile))
               /\ recovering' = TRUE
               /\ pc' = "bootstrap"
          ELSE pc' = "failed" /\ UNCHANGED <<session, cfg, attempt, context, recovering>>
    /\ UNCHANGED <<request, info, attempted, token, offset, accepted, stalled, latest, paid, out>>

-----------------------------------------------------------------------------
(* A page: _handle_continuation_response, _process_actions,                *)
(* _advance_continuation_loop and _ContinuationProgress.                   *)

\* Any answer counts as progress in a live chat, which may well be quiet.
Advanced_QuietLive(actions, next) ==
    \/ ~request.replay \/ next # token.page
    \/ actions # <<>> /\ (latest = None \/ LatestOffset(actions) > latest)

\* response_advanced()
Advanced(actions, next) ==
    IF request.replay
    THEN \/ next # token.page
         \/ actions # <<>> /\ (latest = None \/ LatestOffset(actions) > latest)
    ELSE actions # <<>> \/ next # token.page

\* The chat's page with the next token; a stall that brings nothing; and, in a
\* replay, one that brings the page again.
Answers ==
    {[actions |-> Pages[token.page], next |-> token.page + 1],
     [actions |-> <<>>, next |-> token.page]}
    \cup (IF request.replay THEN {[actions |-> Pages[token.page], next |-> token.page]} ELSE {})

\* _ContinuationProgress: the newest offset that a replay has shown.
NewestOffset(actions) ==
    IF ~request.replay \/ actions = <<>> THEN latest
    ELSE IF latest = None THEN LatestOffset(actions) ELSE Max({latest, LatestOffset(actions)})

\* _advance_continuation_loop(), and the count of the polls that led nowhere.
Advance(answer) ==
    IF answer.next > Len(Pages)
    THEN pc' = "ended" /\ UNCHANGED <<token, stalled, latest>>
    ELSE /\ token' = [token EXCEPT !.page = answer.next]
         /\ stalled' = IF Advanced(answer.actions, answer.next) THEN 0 ELSE stalled + 1
         /\ latest' = NewestOffset(answer.actions)
         /\ pc' = IF stalled' = MaxNoProgressPolls THEN "failed" ELSE "request"

RequestAnswered ==
    /\ pc = "request"
    /\ session' \in Refreshed(session)
    /\ \E answer \in Answers :
         LET page == ProcessActions(answer.actions,
                         [stopped |-> FALSE, cache |-> paid, offset |-> offset, out |-> out],
                         request, token.page = 1)
         IN
         /\ accepted' = TRUE /\ recovering' = FALSE
         /\ paid' = page.cache /\ offset' = page.offset /\ out' = page.out
         /\ IF page.stopped THEN pc' = "ended" /\ UNCHANGED <<token, stalled, latest>>
            ELSE Advance(answer)
    /\ attempt' = 1
    /\ UNCHANGED <<request, cfg, info, attempted, context, fallbacks, refused>>

Poll == RequestRetried \/ RequestRejected \/ ApiError \/ RequestIncomplete \/ RequestInvalid \/ RequestAnswered

Done == pc \in Ended /\ UNCHANGED vars

Next == (Setup /\ UNCHANGED loopVars) \/ Build \/ Poll \/ Done

\* A request is answered or times out, so the retrieval's thread always goes on.
Spec == Init /\ [][Next]_vars /\ WF_vars(Next)

-----------------------------------------------------------------------------
(* Properties.                                                             *)

Chat == FlattenSeq(Pages)
ById(id) == CHOOSE action \in ToSet(Chat) : action.id = id

TypeOK ==
    /\ session.profile \in {None, "web"} \cup Mobile
    /\ session.agent \in {"caller", "web"} \cup Mobile
    /\ session.client \in {None, "web"} \cup Mobile
    /\ session.visitor \in {None, "boot", "fresh"}
    /\ token.page \in 1..Len(Pages)
    /\ offset = None \/ offset \in Nat
    /\ attempt \in 1..MaxAttempts
    /\ fallbacks \in 0..(MaxProfileFallbacks + 1) /\ stalled \in 0..MaxNoProgressPolls
    /\ Len(paid) <= PaidLimit
    /\ pc \in {"bootstrap", "page", "innertube", "parsed", "enriched", "build", "request"} \cup Ended

\* A retrieval that ends by itself (not by an error) has emitted every message that
\* is in the range and of a kind asked for, whatever was retried, recovered or
\* repeated on the way, and nothing else.
EndedIsWhole ==
    pc = "ended" =>
      {out[i].id : i \in {j \in DOMAIN out : out[j].as = "yield"}} =
      {action.id : action \in {a \in ToSet(Chat) :
          /\ a.kind \in request.kinds \ {"control"}
          /\ request.replay => /\ request.range.first = None \/ a.time >= request.range.first
                               /\ request.range.last = None \/ a.time <= request.range.last}}

\* Once a response was accepted, no recovery takes the retrieval back: neither its
\* place in the chat nor, for a live chat, its poll position.
NoRestart ==
    [][accepted => /\ accepted'
                   /\ token'.page >= token.page
                   /\ offset # None => (offset' # None /\ offset' >= offset)
                   /\ pc' # "bootstrap"]_vars

\* A chat request names one client: in its context, its client header, its
\* profile and, unless the caller chose another, its User-Agent.  And a token that
\* was refused is not sent again.
OneFingerprint ==
    pc = "request" =>
      /\ context.client = Client(session.profile)
      /\ session.client = context.client
      /\ session.agent = UserAgent(session.profile)
      /\ token.by \notin refused

\* A ticker is completed from the newest paid event with its ID, if that is of the
\* type it announces, not another author's, and still among the PaidLimit events
\* remembered; else it stays as it is.
TickerDetails ==
    \A i \in DOMAIN out :
      LET ticker == ById(out[i].id)
          Paid(j) == ById(out[j].id).kind \in PaidKinds
          Event(j) == ById(out[j].id).event
          before == {j \in 1..(i - 1) : Paid(j)}
          own == {j \in before : Event(j) = ticker.event}
          newest == Max(own)
          after == {Event(j) : j \in {k \in before : k > newest}}
      IN
      ticker.kind \in DOMAIN Announces =>
        out[i].detail =
          IF /\ own # {} /\ Cardinality(after) < PaidLimit
             /\ Announces[ticker.kind] = ById(out[newest].id).kind
             /\ SameAuthor(ticker.author, ById(out[newest].id).author)
          THEN out[newest].id ELSE None

\* Every retrieval ends, however often the provider fails, stalls or repeats itself.
EveryRetrievalEnds == <>(pc \in Ended)

\* docs/youtube-integration-guide.md: during fallback, runtime headers such as
\* authorization and visitor identifiers remain unchanged.
RuntimeHeadersKept ==
    [][accepted /\ session'.profile # session.profile
         => session'.visitor = session.visitor]_vars
=============================================================================
