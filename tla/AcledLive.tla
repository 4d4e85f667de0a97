----------------------------- MODULE AcledLive -----------------------------
(***************************************************************************)
(* The network path of crates/source-acled: a bearer token that is cached, *)
(* refreshed or asked for with the password, and a paged read that         *)
(* authenticates once more when the provider no longer takes the token.    *)
(* A fetch is one walk over a provider's answers: `grants` are those of    *)
(* the token endpoint in the order it is asked; the read endpoint says 401 *)
(* to a token that is not `live` for the page, and otherwise pages through *)
(* its `rows` of the days it is asked for.                                 *)
(***************************************************************************)
EXTENDS Gdelt

CONSTANTS AcledPageLimit, \* PAGE_LIMIT
          AcledMaxPages,  \* MAX_PAGES
          ExpirySlack     \* EXPIRY_SLACK_SECS

ASSUME AcledAssumption == AcledPageLimit \in Nat \ {0} /\ AcledMaxPages \in Nat \ {0}

\* read_url_for: the days asked for, both inclusive, of a half-open window.
ReadDays(window) ==
  LET last == IF window.end - 1 < window.start THEN window.start ELSE window.end - 1
  IN  (window.start \div 24) .. (last \div 24)

\* request_token: only a 2xx object with an access token is cached; its life
\* is at least nothing.
RequestToken(s, now) ==
  LET resp == Head(s.grants)
      got == Get(resp, IF ~ resp.json \/ resp.access = 0 THEN Failed("other") ELSE Fetched(<<>>))
      asked == [s EXCEPT !.err = got.err, !.grants = Tail(@)]
  IN  IF got.err # "none" THEN asked
      ELSE [asked EXCEPT !.bearer = resp.access,
              !.token = {[access |-> resp.access, refresh |-> resp.refresh,
                          expires |-> now + (IF resp.life > 0 THEN resp.life ELSE 0)]}]

\* bearer: the cached token while it has more than the slack to live, else the
\* refresh grant, else, or when that fails, the password grant.
Bearer(s, now) ==
  LET fresh == {t \in s.token : t.expires - now > ExpirySlack}
      refreshed == IF \E t \in s.token : t.refresh THEN RequestToken(s, now)
                   ELSE [s EXCEPT !.err = "none", !.bearer = 0]
  IN  IF fresh # {} THEN [s EXCEPT !.err = "none", !.bearer = (CHOOSE t \in fresh : TRUE).access]
      ELSE IF refreshed.err = "none" /\ refreshed.bearer # 0 THEN refreshed
      ELSE RequestToken(refreshed, now)

\* get_page: a body that says success = false, or whose data is neither a list
\* nor absent, is an error.
PageRows(resp) ==
  CASE resp.body = "list" -> Fetched(resp.rows)
    [] resp.body = "absent" -> Fetched(<<>>)
    [] OTHER -> Failed("other")
GetPage(s, server, window) ==
  LET asked == Only(server.rows, {i \in DOMAIN server.rows : server.rows[i].day \in ReadDays(window)})
      page == Take(SubSeq(asked, AcledPageLimit * (s.page - 1) + 1, Len(asked)), AcledPageLimit)
  IN  IF s.bearer \notin server.live[s.page] THEN [err |-> "unauthorized", rows |-> <<>>]
      ELSE Get(server, PageRows([body |-> server.body, rows |-> page]))

\* One turn of fetch's loop.
Turn(s, server, window, now) ==
  LET got == GetPage(s, server, window)
  IN  CASE got.err = "none" ->
             [s EXCEPT !.rows = @ \o got.rows, !.page = @ + 1,
                       !.done = Len(got.rows) < AcledPageLimit \/ s.page = AcledMaxPages]
        [] got.err = "unauthorized" /\ ~ s.reauthed ->
             LET again == Bearer([s EXCEPT !.token = {}, !.reauthed = TRUE], now)
             IN  [again EXCEPT !.done = again.err # "none"]
        [] OTHER -> [s EXCEPT !.done = TRUE, !.err = got.err]

\* fetch: every page of the window or an error, and no rows with an error; the
\* pages past the cap are left out without one.  The token outlives it.
FetchAcled(token, server, window, now) ==
  LET begun == Bearer([token |-> token, bearer |-> 0, page |-> 1, rows |-> <<>>,
                       reauthed |-> FALSE, done |-> FALSE, err |-> "none",
                       grants |-> server.grants], now)
      after[n \in 0 .. AcledMaxPages + 1] ==
        IF n = 0 THEN [begun EXCEPT !.done = begun.err # "none"]
        ELSE LET s == after[n - 1] IN IF s.done THEN s ELSE Turn(s, server, window, now)
      end == after[AcledMaxPages + 1]
  IN  [err |-> end.err, rows |-> IF end.err = "none" THEN end.rows ELSE <<>>,
       token |-> end.token]
=============================================================================
