---------------------------- MODULE YouTubeSetup ----------------------------
(***************************************************************************)
(* How a YouTube retrieval is set up: video_initialization.py with         *)
(* video_metadata.py, client_requests_initial.py, client_requests_         *)
(* bootstrap.py, video_status.py and playability.py; and the request       *)
(* profile, headers and context that every request carries, which          *)
(* request_profiles.py, client_context.py and sites/session.py compute.    *)
(***************************************************************************)
EXTENDS YouTubeMessages

CONSTANTS
    AutoFallback,   \* auto_profile_fallback
    MaxAttempts     \* params.max_attempts

ASSUME SetupAssumption ==
    AutoFallback \in BOOLEAN /\ MaxAttempts \in Nat \ {0} /\ None \notin Int

VARIABLES
    request,     \* what was asked for, and in the end whether it is a replay
    session,     \* the HTTP session: its profile and the headers it sends
    cfg,         \* ytcfg: the client it names, its visitor ID and User-Agent
    info,        \* the last bootstrap's status, playability and tokens
    attempted,   \* attempted_profiles
    attempt,     \* attempt_number of the request under way
    pc

setupVars == <<session, cfg, info, attempted, attempt>>

-----------------------------------------------------------------------------
(* Profiles, headers and context.                                          *)

Profiles == <<"web", "android", "ios">>
Mobile == {"android", "ios"}

\* get_next_request_profile(): without a profile, the first mobile one.
NextProfile(profile) ==
    CASE profile = None -> "android"
      [] profile = "web" -> "android"
      [] profile = "android" -> "ios"
      [] OTHER -> None

Client(profile) == IF profile = None THEN "web" ELSE profile

\* The User-Agent is the caller's own, or the profile's.
UserAgent(profile) == IF request.explicit THEN "caller" ELSE Client(profile)

\* ChatDownloaderSession.apply_request_profile()
ApplyProfile(s, profile) ==
    [s EXCEPT !.profile = profile, !.agent = UserAgent(profile)]

\* apply_request_profile_to_ytcfg(): a profile's client, over the page's; only
\* the mobile ones name a User-Agent.
ProfiledConfig(c, profile) ==
    [c EXCEPT !.client = IF profile = None THEN c.client ELSE profile,
              !.agent = IF profile \in Mobile THEN profile ELSE c.agent]

\* The client's headers are left as they were.
WithHeaders_ClientKept(s, c) == [s EXCEPT !.visitor = c.visitor]

\* replace_session_headers(_generate_headers(ytcfg)): explicit headers are restored.
WithHeaders(s, c) ==
    [s EXCEPT !.client = c.client, !.visitor = c.visitor,
              !.agent = IF request.explicit THEN "caller" ELSE c.agent]

-----------------------------------------------------------------------------
(* _parse_video_data: a mobile InnerTube bootstrap, the watch page, or the *)
(* InnerTube bootstrap that stands in for a page that is blocked.          *)

\* The filter models of a mobile answer name each of their views, or none at all.
FilterViews == SUBSET {"top", "live"}

\* _build_fallback_initial_data(): the primary token stands for both views, unless
\* filter models say what theirs are for.
InnerTubeViews == {submenu \cup filters : submenu \in {{}, {"top", "live"}}, filters \in FilterViews}

\* _build_fallback_ytcfg()
InnerTubeConfig == [client |-> Client(session.profile), visitor |-> "boot", agent |-> session.agent]

\* What a bootstrap may say: the broadcast status ("live" for all that are not
\* replays and not unknown), whether the player is playable
\* ("generic": UNPLAYABLE without a reason of its own), the chat views that have a
\* token, and whether those came with the bootstrap (InnerTube's does).
Infos(supplied) ==
    [status : {"live", "replay", "unknown"}, playable : {"ok", "generic", "other"},
     views : IF supplied THEN InnerTubeViews ELSE {{}, {"top"}, {"top", "live"}},
     supplied : {supplied}]

\* Clips, signed-in sessions and the web profile start with the watch page; a
\* recovery asks for the clip's video.
StartsMobile == session.profile \in Mobile /\ ~request.signedIn /\ ~request.clipPage

\* An InnerTube bootstrap supplies tokens only if it has any.
Boot(found) ==
    /\ info' = [found EXCEPT !.supplied = @ /\ found.views # {}]
    /\ cfg' = IF found.supplied THEN InnerTubeConfig ELSE [InnerTubeConfig EXCEPT !.client = "web"]
    /\ pc' = "parsed"

MobileBootstrap ==
    /\ pc = "bootstrap" /\ StartsMobile
    /\ \/ \E found \in Infos(TRUE) : Boot(found)
       \/ pc' = "page" /\ UNCHANGED <<info, cfg>>      \* falls back
       \/ pc' = "failed" /\ UNCHANGED <<info, cfg>>    \* another video's data
    /\ attempt' = 1
    /\ UNCHANGED <<request, session, attempted>>

\* A refused or failed request is tried again; a challenge or a page without
\* data is not, and only a clip has nothing to fall back on.
PageBootstrap ==
    /\ pc = "page" \/ (pc = "bootstrap" /\ ~StartsMobile)
    /\ \/ \E found \in Infos(FALSE) : Boot(found) /\ attempt' = 1
       \/ /\ attempt < MaxAttempts
          /\ attempt' = attempt + 1
          /\ pc' = "page"
          /\ UNCHANGED <<info, cfg>>
       \/ /\ pc' \in {"failed", IF request.clipPage THEN "failed" ELSE "innertube"}
          /\ attempt' = 1
          /\ UNCHANGED <<info, cfg>>
    /\ UNCHANGED <<request, session, attempted>>

InnerTubeBootstrap ==
    /\ pc = "innertube"
    /\ \/ \E found \in Infos(TRUE) : Boot(found)
       \/ pc' = "failed" /\ UNCHANGED <<info, cfg>>
    /\ UNCHANGED <<request, session, attempted, attempt>>

-----------------------------------------------------------------------------
(* _get_initial_video_info.                                                *)

Generic == info.playable = "generic"

\* raise_if_playability_error(): an error of the player, of a popup, or of a page that
\* has no chat: it raises whatever it is given.
PlayabilityError == pc' = "failed"

Refused ==
    /\ pc = "parsed"
    /\ info.status = "unknown" /\ info.playable = "other"
    /\ PlayabilityError
    /\ UNCHANGED <<request, setupVars>>

\* The chat page's tokens replace the watch page's, if it has any; its request
\* is not repeated.
Enrich ==
    /\ pc = "parsed"
    /\ info.status # "unknown" /\ ~info.supplied
    /\ \/ \E views \in {{}, {"top", "live"}} :
            /\ info' = [info EXCEPT !.views = @ \cup views]
            /\ pc' = "enriched"
       \/ pc' = "failed" /\ UNCHANGED info
    /\ UNCHANGED <<request, session, cfg, attempted, attempt>>

Acceptable == info.views # {} /\ ~(info.supplied /\ Generic) /\ info.status # "unknown"

\* The first bootstrap tells what is retrieved; a recovery only takes its tokens.
SetUp ==
    /\ pc = "enriched" \/ (pc = "parsed" /\ (info.status = "unknown" \/ info.supplied))
    /\ Acceptable
    /\ request' = [request EXCEPT !.replay = IF request.known THEN @ ELSE info.status = "replay",
                                  !.known = TRUE, !.clipPage = FALSE]
    /\ pc' = "build"
    /\ UNCHANGED setupVars

\* Another profile may see more of a video whose status is unknown, or that is
\* unplayable for no reason given.
NextBootstrap ==
    LET next == IF AutoFallback /\ (info.status = "unknown" \/ Generic)
                THEN NextProfile(session.profile) ELSE None IN
    /\ pc = "enriched" \/ (pc = "parsed" /\ (info.status = "unknown" \/ info.supplied))
    /\ ~(info.status = "unknown" /\ info.playable = "other")
    /\ ~Acceptable
    /\ IF next = None \/ next \in attempted
       THEN (IF info.status = "unknown" THEN pc' = "failed" ELSE PlayabilityError) /\ UNCHANGED setupVars
       ELSE /\ session' = ApplyProfile(session, next)
            /\ attempted' = attempted \cup {next}
            /\ attempt' = 1
            /\ pc' = "bootstrap"
            /\ UNCHANGED <<cfg, info>>
    /\ UNCHANGED request

Setup ==
    \/ MobileBootstrap \/ PageBootstrap \/ InnerTubeBootstrap
    \/ Refused \/ Enrich \/ SetUp \/ NextBootstrap
=============================================================================
