----------------------- MODULE MCYouTubeContinuation -----------------------
(* YouTubeContinuation on a chat of three pages.                           *)
EXTENDS YouTubeContinuation

Action(id, kind, time, event, author) ==
    [id |-> id, kind |-> kind, time |-> time, event |-> event, author |-> author]

\* With room for two paid events, "p" is seen again before "s" comes, which then
\* drops "q".
MCPages == <<
    <<Action(1, "text", -1, None, "x"), Action(2, "paid_message", 1, "p", "x"),
      Action(3, "paid_message", 1, "q", "y")>>,
    <<Action(4, "paid_message", 1, "p", "x"), Action(5, "paid_sticker", 2, "s", "y"),
      Action(6, "ticker_message", 2, "p", None), Action(7, "control", 2, None, None)>>,
    <<Action(8, "ticker_message", 3, "q", None), Action(9, "ticker_message", 3, "s", None),
      Action(10, "ticker_sticker", 3, "s", "x"), Action(11, "text", 4, None, "x")>> >>

All == {"text", "ticker_message", "ticker_sticker"} \cup PaidKinds
Seconds(first, last) == [first |-> first, last |-> last]

\* A video, whole; two seconds of it, of which only the text is wanted; a clip;
\* and a signed-in request with a User-Agent of its own.
Plain == [explicit |-> FALSE, signedIn |-> FALSE, clipPage |-> FALSE, clip |-> 0, known |-> FALSE,
          replay |-> FALSE, identified |-> TRUE, view |-> "live", kinds |-> All,
          range |-> Seconds(None, None)]

MCRequests ==
    {Plain,
     [Plain EXCEPT !.range = Seconds(2, 3), !.kinds = {"text", "ticker_message"}],
     [Plain EXCEPT !.clipPage = TRUE, !.clip = 1, !.range = Seconds(1, 3)],
     [Plain EXCEPT !.clipPage = TRUE, !.clip = 1, !.identified = FALSE, !.range = Seconds(1, 3)],
     [Plain EXCEPT !.explicit = TRUE, !.signedIn = TRUE, !.view = "top"]}

MCProfiles == {None, "web", "android"}
=============================================================================
