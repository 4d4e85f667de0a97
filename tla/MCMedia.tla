------------------------------- MODULE MCMedia -------------------------------
(***************************************************************************)
(* The two legs of a desktop without a Telegram session; what the third    *)
(* makes of its replies is checked below.  Two providers may find one      *)
(* clip, at one time, under URLs that differ in case; a reply may also be  *)
(* a rejection, a login page, or hold things that only look like a video.  *)
(***************************************************************************)
EXTENDS Media

MCProvider == {"gdelt", "bluesky"}
Legs == MCProvider \cup {"telegram"}
MCRank == [p \in Legs |-> CASE p = "gdelt" -> 0 [] p = "bluesky" -> 1 [] OTHER -> 2]
MCQuery ==
  [text \in {"", "?", "place"} |->
     [place |-> CASE text = "" -> <<>> [] text = "?" -> <<"">> [] OTHER -> <<"colombia">>,
      topic |-> <<"", "flood">>, start |-> 0, end |-> 1]]

Url(text, key, host, path) ==
  [scheme |-> "https", host |-> host, path |-> path, digits |-> {}, ext |-> "", v |-> {},
   text |-> text, key |-> key]
Tube(id, key) == [Url(id, key, <<"www", "youtube", "com">>, <<"watch">>) EXCEPT !.v = {id}]
Story == Url("n", "n", <<"news", "org">>, <<"story">>)
Fake == [Url("f", "f", <<"youtube", "com", "fake">>, <<"watch">>) EXCEPT !.v = {"f"}]
Stream == Url("t", "t", <<"twitch", "tv">>, <<"channel">>)
Own(id) == Url(id, id, <<"bsky", "app">>, <<"profile", "did", "post", id>>)
Post7 == [Url("p", "p", <<"t", "me">>, <<"channel", "7">>) EXCEPT !.digits = {2}]

Clip(text, key, ts, p, plays) ==
  [url |-> text, key |-> key, ts |-> ts, provider |-> p, plays |-> plays]
Inline(id) == {[kind |-> "page", of |-> id]}

Reply(status, body, items, clips) ==
  [tries |-> <<"connect", "answered">>, status |-> status, body |-> body, items |-> items,
   clips |-> clips]
Article(url, ts) == [url |-> url, ts |-> ts]
Post(embed, labels, ref, page, ts) ==
  [embed |-> embed, labels |-> labels, handle |-> TRUE, page |-> page, ts |-> ts,
   ref |-> [did |-> TRUE, post |-> ref]]
Native == [type |-> "video", playlist |-> TRUE]
Card(url) == [type |-> "external", url |-> url]
Beside(embed) == [type |-> "recordWithMedia", media |-> embed]
Video(id, mime, ext, page, ts) ==
  [id |-> id, document |-> TRUE, mime |-> mime, ext |-> ext, page |-> page, ts |-> ts]
Channel(answers, videos) == [plain |-> TRUE, answers |-> answers, videos |-> videos]

MCReplies ==
  [p \in Legs |->
     CASE p = "gdelt" ->
            {Reply(200, "absent", {}, {}),
             Reply(200, "prose", {}, {Clip("A", "a", 1, p, Inline("A"))}),
             Reply(200, "list", {Article(Tube("A", "a"), 1), Article(Story, 1), Article(Fake, 1),
                                 Article(Stream, 0)},
                   {Clip("A", "a", 1, p, Inline("A"))})}
       [] p = "bluesky" ->
            {Reply(403, "prose", {}, {}), Reply(200, "list", {Post(Card(Story), {}, TRUE, Own("n"), 1)}, {}),
             Reply(200, "list", {Post(Beside(Card(Tube("a", "a"))), {}, TRUE, Own("c"), 1),
                                 Post(Native, {}, TRUE, Own("b"), 2),
                                 Post(Native, {"porn"}, TRUE, Own("d"), 3),
                                 Post(Native, {}, FALSE, Own("e"), 4)},
                   {Clip("a", "a", 1, p, Inline("a")), Clip("b", "b", 2, p, {})})}
       [] p = "telegram" ->
            {[channels |-> {Channel(FALSE, {})}, clips |-> {}],
             [channels |-> {Channel(FALSE, {}),
                            Channel(TRUE, {Video(7, "", ".mp4", Post7, 3),
                                           Video(8, "image", ".mp4", Post7, 4),
                                           Video(0, "video", "", Post7, 5)})},
              clips |-> {Clip("p", "p", 3, p, Inline("7"))}]}]

\* Telegram's leg gives the clips its channels have, or says that it failed.
ASSUME TelegramReadsReplies ==
  \A r \in MCReplies["telegram"] :
    LET l == Leg("telegram", MCQuery["place"], r)
    IN  l.err = "none" => Merge(l.hits) = Merge(r.clips)

MCAnswers == [p \in MCProvider |-> Heard(p, MCQuery["place"], MCReplies[p])]
=============================================================================
