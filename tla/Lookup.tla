------------------------------- MODULE Lookup -------------------------------
(***************************************************************************)
(* The legs of one media search, each as what it makes of a provider's     *)
(* replies: crates/media-search (GDELT and Bluesky over HTTP), the search  *)
(* half of source-telegram, and core_types::media, which says what a video *)
(* is and what can play it.  A URL is a record of its scheme, the labels   *)
(* of its host, the segments of its path (`digits`: which are numbers),    *)
(* the extension its path ends in, the v= of its query, and the key it has *)
(* in lower case.  A hit holds the player its URL has; titles are left out. *)
(***************************************************************************)
EXTENDS Naturals, Sequences, FiniteSets, SequencesExt

CONSTANTS Provider,  \* the legs of a search; Telegram's only with a session
          Rank,      \* Provider's declaration order, the tiebreak of merge
          MaxTerms,  \* the words of a person's text that are used
          HitLimit   \* MediaQuery.limit

Found(hits) == [err |-> "none", hits |-> hits]
Failed(err) == [err |-> err, hits |-> {}]

\* search_terms: letters and digits only, so no operator of a provider's
\* syntax survives; a word of nothing else ("") is gone.
SearchTerms(words) ==
  LET bare == SelectSeq(words, LAMBDA w : w # "")
  IN  SubSeq(bare, 1, IF Len(bare) < MaxTerms THEN Len(bare) ELSE MaxTerms)

\* query_expression, query_text: no query without a place.
QueryText(q) ==
  IF SearchTerms(q.place) = <<>> THEN {} ELSE {SearchTerms(q.place) \o SearchTerms(q.topic)}
IsValid(q) == QueryText(q) # {} /\ q.end > q.start

\* The list merge sorts newest first, then by provider.
Before(g, h) == g.ts > h.ts \/ (g.ts = h.ts /\ Rank[g.provider] < Rank[h.provider])
\* Of the hits whose URLs differ only in case, merge keeps the first.
Merge(hits) == {h \in hits : ~ \E g \in hits : g.key = h.key /\ Before(g, h)}

-----------------------------------------------------------------------------
\* core_types::media

\* host_matches: the domain or a subdomain of it, label by label.
HostMatches(host, domain) == IsSuffix(domain, host)

Web(url) == url.scheme \in {"http", "https"}
VideoFile(url) == url.ext \in {".mp4", ".webm", ".mov", ".m4v", ".m3u8"}
VideoHosts ==
  {<<"youtube", "com">>, <<"youtu", "be">>, <<"vimeo", "com">>, <<"twitch", "tv">>,
   <<"tiktok", "com">>, <<"dailymotion", "com">>, <<"streamable", "com">>, <<"rumble", "com">>}

IsVideoUrl(url) ==
  Web(url) /\ (VideoFile(url) \/ \E d \in VideoHosts : HostMatches(url.host, d))

\* The id a sanctioned player page of the host is asked for, if it has one.
First(path) == IF path = <<>> THEN {} ELSE {path[1]}
PlayerId(url) ==
  LET path == url.path
      on(a, b) == HostMatches(url.host, <<a, b>>)
      under(heads) == IF Len(path) > 1 /\ path[1] \in heads THEN {path[2]} ELSE {}
  IN  CASE on("youtube", "com") -> IF path = <<"watch">> THEN url.v
                                   ELSE under({"embed", "shorts", "live", "v"})
        [] on("youtu", "be") \/ on("dai", "ly") \/ on("streamable", "com") -> First(path)
        [] on("vimeo", "com") -> IF under({"video"}) # {} THEN under({"video"})
                                 ELSE IF 1 \in url.digits THEN First(path) ELSE {}
        [] on("dailymotion", "com") ->
             under({"video"}) \cup (IF Len(path) > 2 /\ SubSeq(path, 1, 2) = <<"embed", "video">>
                                    THEN {path[3]} ELSE {})
        [] on("tiktok", "com") ->
             LET marks == {i \in DOMAIN path : path[i] = "video"}
             IN  {path[i + 1] : i \in {j \in marks : (\A k \in marks : j <= k) /\ j < Len(path)}}
        [] on("rumble", "com") -> IF First(path) = {"embed"} THEN {"embed"} ELSE {}
        [] on("t", "me") -> IF Len(path) > 1 /\ path[1] # "s" /\ 2 \in url.digits
                            THEN {path[2]} ELSE {}
        [] OTHER -> {}

\* embed_for: a file is played as a file whatever its host; without a player
\* page the link goes to the browser.
EmbedFor(url) ==
  IF ~ Web(url) THEN {}
  ELSE IF VideoFile(url) THEN {[kind |-> "file", of |-> url.text]}
  ELSE {[kind |-> "page", of |-> id] : id \in PlayerId(url)}

Hit(url, ts, provider) ==
  [url |-> url.text, key |-> url.key, ts |-> ts, provider |-> provider, plays |-> EmbedFor(url)]

-----------------------------------------------------------------------------
\* MediaSearch::get: once more after a connection that failed, never after an
\* answer.  A reply is how the attempts went and what the last one said.
Get(reply, read) ==
  LET went == IF reply.tries[1] = "connect" THEN reply.tries[2] ELSE reply.tries[1]
  IN  IF went # "answered" THEN Failed("http")
      ELSE IF reply.status = 429 THEN Failed("limited")
      ELSE IF reply.status \notin 200 .. 299 THEN Failed("http")
      ELSE read

\* source_gdelt_articles: DOC rejects a query with 200 and a sentence.
\* Mutant: what is not JSON has no articles.
ListOfLenient(reply) ==
  CASE reply.body = "list" -> Found(reply.items)
    [] OTHER -> Found({})
ListOf(reply) ==
  CASE reply.body = "list" -> Found(reply.items)
    [] reply.body = "absent" -> Found({})
    [] OTHER -> Failed(reply.body)

\* gdelt::hits: articles that are themselves a video, with a time.
GdeltHits(reply) ==
  LET articles == ListOf(reply)
  IN  [articles EXCEPT !.hits =
         {Hit(a.url, a.ts, "gdelt") : a \in {x \in @ : IsVideoUrl(x.url) /\ x.ts # 0}}]

\* playable: a native video, or a card that links a video, also beside a quote.
Inner(embed) == IF embed.type = "recordWithMedia" THEN embed.media ELSE embed
Playable(embed) ==
  \/ Inner(embed).type = "video" /\ Inner(embed).playlist
  \/ Inner(embed).type = "external" /\ IsVideoUrl(Inner(embed).url)

BlockedLabels == {"porn", "sexual", "nudity", "graphic-media", "sexual-figurative"}

\* bluesky::hits: posts with a video, by an author that has a handle, with a
\* post's own reference and a time, none of the labels on post or author.
BlueskyHits(reply) ==
  LET posts == ListOf(reply)
      shown(p) == /\ Playable(p.embed) /\ p.labels \cap BlockedLabels = {}
                  /\ p.handle /\ p.ref.did /\ p.ref.post /\ p.ts # 0
      link(p) == IF Inner(p.embed).type = "video" THEN p.page ELSE Inner(p.embed).url
  IN  [posts EXCEPT !.hits = {Hit(link(p), p.ts, "bluesky") : p \in {x \in @ : shown(x)}}]

\* MediaSearch::gdelt and ::bluesky.  The page that says searchPosts is closed
\* to the keyless is named as that.
GdeltLeg(q, reply) == IF QueryText(q) = {} THEN Failed("other") ELSE Get(reply, GdeltHits(reply))
BlueskyLeg(q, reply) ==
  LET got == Get(reply, BlueskyHits(reply))
  IN  IF QueryText(q) = {} THEN Failed("other")
      ELSE IF got.err = "http" /\ reply.status = 403 THEN Failed("login needed")
      ELSE got

-----------------------------------------------------------------------------
\* source-telegram's media.rs and search_all.

\* is_video_attachment: the MIME type is believed when there is one.
VideoAttachment(v) ==
  /\ v.document
  /\ IF v.mime # "" THEN v.mime = "video" ELSE v.ext \in {".mp4", ".webm", ".mov", ".m4v"}
\* post_url: only a positive id of a plain channel name makes a link.
PostUrl(channel, v) == IF v.id > 0 /\ channel.plain THEN {v.page} ELSE {}

PlayableHits(channel, videos) ==
  UNION {{Hit(page, v.ts, "telegram") : page \in PostUrl(channel, v)} :
           v \in {x \in videos : VideoAttachment(x)}}

\* search_all: a channel that fails is skipped, and only a search that every
\* channel failed is an error; one that is not there has nothing to show.  The
\* newest HitLimit hits are given.
TelegramLeg(q, channels) ==
  LET hits == Merge(UNION {PlayableHits(c, c.videos) : c \in {x \in channels : x.answers}})
      newest == {h \in hits : Cardinality({g \in hits : Before(g, h)}) < HitLimit}
  IN  IF ~ IsValid(q) THEN Found({})
      ELSE IF \A c \in channels : ~ c.answers THEN Failed("other")
      ELSE Found(newest)

\* The leg of a provider.
Leg(p, q, reply) ==
  CASE p = "gdelt" -> GdeltLeg(q, reply)
    [] p = "bluesky" -> BlueskyLeg(q, reply)
    [] p = "telegram" -> TelegramLeg(q, reply.channels)

\* The answers a leg may deliver: the hits it makes of a reply, beside the
\* clips the provider has for the query.
Heard(p, q, replies) ==
  {[hits |-> Leg(p, q, r).hits, clips |-> r.clips] : r \in {x \in replies : Leg(p, q, x).err = "none"}}
=============================================================================
