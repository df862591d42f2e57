--------------------------- MODULE KickReplaySetup ---------------------------
(***************************************************************************)
(* sites/kick/vod_metadata.py and clip_service.py: how the recording and   *)
(* the part of it that a Kick VOD or clip stands for are found, behind     *)
(* endpoints that fail, know nothing, know half or disagree.               *)
(*                                                                         *)
(* Channel 1 is the one the chat was held on.  What an endpoint says is    *)
(* right, or wrong in one field.                                           *)
(***************************************************************************)
EXTENDS KickReplay

VARIABLES
    setup,    \* where the set-up is, and what the web clip said so far
    told      \* the channels and durations of the metadata that was accepted

\* A VOD that no clip led to.
NoClip == [object |-> FALSE, same |-> FALSE, vod |-> "none", channel |-> None,
           duration |-> None, offset |-> None]

SetupStart ==
    [stage |-> IF world.source = "clip" THEN "webClip" ELSE "legacyVod", attempt |-> 1,
     clip |-> NoClip, channel |-> None, duration |-> None]

NothingTold == [channels |-> {}, durations |-> {}]

Resource(stage) ==
    CASE stage \in {"webClip", "mobileClip"} -> "clip"
      [] stage = "channel" -> "channel"
      [] OTHER -> "video"

-----------------------------------------------------------------------------
(* What the endpoints say.                                                 *)

OneWrong(right, wrong) == {right} \cup {[right EXCEPT ![f] = wrong[f]] : f \in DOMAIN wrong}

\* The channel and its identity disagree.
Conflict == -1

\* vod: the clip names its recording, none, or something else.
RightClip == [object |-> TRUE, same |-> TRUE, vod |-> "id", channel |-> 1,
              duration |-> world.duration, offset |-> world.offset]

WebClips ==
    OneWrong(RightClip, [object |-> FALSE, same |-> FALSE, vod |-> "none", channel |-> None,
                         duration |-> None, offset |-> None])
    \cup {[RightClip EXCEPT !.vod = "bad"], [RightClip EXCEPT !.channel = 2],
          [RightClip EXCEPT !.channel = Conflict],
          [RightClip EXCEPT !.vod = "none", !.channel = Conflict],
          [RightClip EXCEPT !.vod = "none", !.duration = None],
          [RightClip EXCEPT !.duration = @ + 1], [RightClip EXCEPT !.offset = world.length + 1]}

\* The mobile clip tells when the clip began instead of where.
RightMobile == [object |-> TRUE, same |-> TRUE, channel |-> 1, duration |-> world.duration,
                start |-> TRUE]

MobileClips ==
    OneWrong(RightMobile, [object |-> FALSE, same |-> FALSE, channel |-> None,
                           duration |-> None, start |-> FALSE])
    \cup {[RightMobile EXCEPT !.channel = 2]}

\* closed: a completed recording, and for the website a public one.
RightVod == [same |-> TRUE, closed |-> TRUE, channel |-> 1, start |-> TRUE, length |-> world.length]

Vods ==
    OneWrong(RightVod, [same |-> FALSE, closed |-> FALSE, channel |-> None, start |-> FALSE,
                        length |-> None])
    \cup {[RightVod EXCEPT !.channel = 2]}

-----------------------------------------------------------------------------
(* The windows.                                                            *)

\* _apply_request_window() for a VOD, and for a clip that lies at an offset of one.
VodWindow(offset, duration) ==
    LET first == IF offset = None THEN Bound(world.start, 0)
                 ELSE offset + Clamp(Bound(world.start, 0), duration)
        last == IF offset = None THEN Bound(world.end, world.length)
                ELSE offset + Clamp(Bound(world.end, duration), duration)
        from == world.began + Clamp(first, world.length)
        to == world.began + Clamp(last, world.length)
        origin == world.began + Bound(offset, 0)
    IN  [from |-> from, to |-> to, origin |-> origin,
         start |-> IF offset = None THEN from - origin ELSE Max({0, from - origin}),
         end |-> IF offset = None THEN to - origin ELSE Max({0, to - origin})]

\* The clip by its own start.
MobileWindow(duration) ==
    LET origin == world.began + world.offset
        start == Clamp(Bound(world.start, 0), duration)
        end == Clamp(Bound(world.end, duration), duration)
    IN  [from |-> origin + start, to |-> origin + end, origin |-> origin,
         start |-> start, end |-> end]

-----------------------------------------------------------------------------
(* The steps.  Each fetch goes through fetch_with_retry().                 *)

Goes(stage) == setup' = [setup EXCEPT !.stage = stage, !.attempt = 1]
GivesUp == Goes("failed") /\ UNCHANGED <<window, told>>
Fetches(stage) == Goes(stage) /\ UNCHANGED <<window, told>>

\* _fetch_mobile_clip_metadata(), with what the web clip is known to have said.
AsksMobile(channel, duration) ==
    /\ setup' = [setup EXCEPT !.stage = "mobileClip", !.attempt = 1, !.channel = channel,
                              !.duration = duration]
    /\ told' = [channels |-> {channel} \ {None}, durations |-> {duration} \ {None}]
    /\ UNCHANGED window

Finds(w, channel, duration) ==
    /\ Goes("found")
    /\ window' = w
    /\ told' = [channels |-> told.channels \cup {channel},
                durations |-> told.durations \cup ({duration} \ {None})]

\* A failed source VOD of a clip leads to the mobile clip; a country block and
\* what is not a KickError do not, and for a VOD nothing does.
VodFails(error) ==
    IF setup.clip # NoClip /\ error \in (KickErrors \ {"country"}) \cup {"exhausted"}
    THEN AsksMobile(setup.clip.channel, setup.clip.duration)
    ELSE GivesUp

\* The last error is handed on.
StageFails(error) ==
    \/ /\ setup.stage = "webClip"
       /\ IF error \in (KickErrors \ {"country"}) \cup {"exhausted"}
          THEN AsksMobile(None, None) ELSE GivesUp
    \/ /\ setup.stage = "mobileClip" /\ GivesUp
    \/ /\ setup.stage = "legacyVod"
       /\ IF error = "notFound" THEN Fetches("channel") ELSE VodFails(error)
    \/ /\ setup.stage \in {"channel", "webVod"} /\ VodFails(error)

SetupFetchFails(outcome) ==
    /\ outcome # "ok" /\ setup.stage \notin {"found", "failed"}
    /\ \/ /\ outcome = "retry" /\ setup.attempt < MaxAttempts
          /\ setup' = [setup EXCEPT !.attempt = @ + 1]
          /\ UNCHANGED <<window, told>>
       \/ /\ outcome = "retry" /\ setup.attempt >= MaxAttempts
          /\ StageFails("exhausted")
       \/ outcome # "retry" /\ StageFails(outcome)

\* _resolve_clip_metadata() and what _fetch_clip_metadata() makes of its errors.
WebClipAnswers(clip) ==
    /\ setup.stage = "webClip"
    /\ \/ ~clip.object /\ AsksMobile(None, None)
       \/ clip.object /\ (~clip.same \/ clip.vod = "bad" \/ clip.channel = Conflict) /\ GivesUp
       \/ /\ clip.object /\ clip.same /\ clip.vod # "bad" /\ clip.channel # Conflict
          /\ \/ /\ clip.vod = "none" \/ clip.channel = None \/ clip.duration = None
                   \/ clip.offset = None
                /\ AsksMobile(clip.channel, clip.duration)
             \/ /\ clip.vod = "id" /\ clip.channel # None /\ clip.duration # None
                /\ clip.offset # None
                /\ setup' = [setup EXCEPT !.stage = "legacyVod", !.attempt = 1, !.clip = clip]
                /\ told' = [channels |-> {clip.channel}, durations |-> {clip.duration}]
                /\ UNCHANGED window

\* Only the channel is compared.
Agrees_Channel(mobile) == setup.channel = None \/ mobile.channel = setup.channel

\* What the web clip said must be said again.
Agrees(mobile) ==
    /\ setup.channel = None \/ mobile.channel = setup.channel
    /\ setup.duration = None \/ mobile.duration = setup.duration

MobileClipAnswers(mobile) ==
    LET valid == /\ mobile.object /\ mobile.same /\ mobile.channel # None
                 /\ mobile.start /\ mobile.duration # None
    IN  /\ setup.stage = "mobileClip"
        /\ \/ ~(valid /\ Agrees(mobile)) /\ GivesUp
           \/ /\ valid /\ Agrees(mobile)
              /\ Finds(MobileWindow(mobile.duration), mobile.channel, mobile.duration)

InsideVod(clip) == clip.offset <= world.length

\* _resolve_vod_window() and what get_vod_chat() and get_clip_chat() do with it.
VodFound(vod) ==
    \/ /\ ~(vod.closed /\ vod.channel # None /\ vod.start /\ vod.length # None)
       /\ VodFails("refused")
    \/ /\ vod.closed /\ vod.channel # None /\ vod.start /\ vod.length # None
       /\ \/ setup.clip = NoClip /\ Finds(VodWindow(None, None), vod.channel, None)
          \/ /\ setup.clip # NoClip
             /\ vod.channel # setup.clip.channel \/ ~InsideVod(setup.clip)
             /\ GivesUp
          \/ /\ setup.clip # NoClip
             /\ vod.channel = setup.clip.channel /\ InsideVod(setup.clip)
             /\ Finds(VodWindow(setup.clip.offset, setup.clip.duration), vod.channel,
                      setup.clip.duration)

LegacyVodAnswers(vod) ==
    /\ setup.stage = "legacyVod"
    /\ \/ ~vod.same /\ VodFails("refused")
       \/ vod.same /\ VodFound(vod)

ChannelAnswers(same) ==
    /\ setup.stage = "channel"
    /\ \/ ~same /\ VodFails("refused")
       \/ same /\ Fetches("webVod")

\* The channel is the one whose page was read, which must be the recording's.
WebVodAnswers(vod) ==
    /\ setup.stage = "webVod"
    /\ \/ (~vod.same \/ vod.channel # 1) /\ VodFails("refused")
       \/ vod.same /\ vod.channel = 1 /\ VodFound(vod)

KickSetup ==
    \/ \E outcome \in Outcomes(Resource(setup.stage)) : SetupFetchFails(outcome)
    \/ setup.stage = "webClip" /\ \E clip \in WebClips : WebClipAnswers(clip)
    \/ setup.stage = "mobileClip" /\ \E mobile \in MobileClips : MobileClipAnswers(mobile)
    \/ \E vod \in Vods : LegacyVodAnswers(vod)
    \/ \E same \in BOOLEAN : ChannelAnswers(same)
    \/ \E vod \in Vods : WebVodAnswers(vod)
=============================================================================
