----------------------------- MODULE WebSession -----------------------------
(***************************************************************************)
(* A browser tab that talks to the API: the tokens, user and organization  *)
(* it keeps (auth-store, org-store), the requests it makes (auth-client),  *)
(* with one refresh of an expired token and one retry each, the pages'     *)
(* guards, and the data it has cached of the server (the queries and the   *)
(* writes of WebQueries).                                                  *)
(*                                                                         *)
(* The cache (React Query) is modelled as the hooks use it: a fetch under  *)
(* way answers for its query until it is asked for anew; data younger than *)
(* the stale time is shown without asking.  An invalidation marks what it  *)
(* names stale and asks again for what is on screen; but a first load      *)
(* under way is not replaced, nor a fetch for a query off screen, and the  *)
(* answer of either counts as fresh.                                       *)
(*                                                                         *)
(* In calm weather the user waits for answers before leaving or changing   *)
(* organization, and no request is lost; tokens expire all the same.       *)
(***************************************************************************)
EXTENDS Naturals, Sequences, FiniteSets, WebQueries, Weather

CONSTANTS
    People, Nobody,
    Firms, NoFirm,
    Screens,            \* the queries users look at: keys of AllQueries
    Forms,              \* the writes users make: names of AllWrites
    MaxSent             \* bound on requests

ASSUME WebKeys == Screens \subseteq DOMAIN AllQueries \ {"organizations", "none"} /\ Forms \subseteq DOMAIN AllWrites \ {"login"}
ASSUME WebNames ==
    /\ Nobody \notin People /\ NoFirm \notin Firms
    /\ "login" \notin DOMAIN AllQueries /\ (DOMAIN AllQueries) \cap (DOMAIN AllWrites) = {} /\ "organizations" \in DOMAIN AllQueries

VARIABLES
    auth,       \* auth-store: user, owner of the access token, ready
    org,        \* org-store: the organization chosen and the memberships known
    cookie,     \* the browser's cookies: whose refresh and whose access token, and whether that is unexpired
    page,       \* the page shown, and the query it shows
    cache,      \* per query: what was fetched, the request that is to answer it
    sent,       \* the requests made so far
    belongs,    \* the server: memberships in the order they were made
    edition,    \* the server: how often each write was made in each organization
    astray,     \* whether a write landed in another organization than the form showed
    again       \* whether somebody may have left something in this page before its user logged in

webVars == <<auth, org, cookie, page, cache, sent, belongs, edition, astray, again>>

Keys == Screens \cup {"organizations"}
Blank == [firm |-> NoFirm, of |-> Nobody, ver |-> [m \in Forms |-> 0], due |-> [f \in Firms |-> [m \in Forms |-> 0]], known |-> FALSE,
          stale |-> FALSE, failed |-> FALSE, by |-> 0, tries |-> 0, kept |-> FALSE]
NoAuth == [user |-> Nobody, access |-> Nobody, ready |-> FALSE]

NoRequest == [what |-> "none", who |-> Nobody, pc |-> "over", as |-> Nobody, live |-> FALSE, head |-> NoFirm, meant |-> NoFirm,
              armed |-> FALSE, second |-> FALSE, status |-> 0, got |-> [m \in Forms |-> 0], list |-> <<>>]

(* Making a request: the stores are read now.  Of an organization header   *)
(* there is the one chosen, or else the user's own.                        *)
HeadFirm(o, a) ==
    IF o.chosen # NoFirm THEN o.chosen ELSE IF a.user # Nobody THEN belongs[a.user][1] ELSE NoFirm
Request(what, who, o, a) ==
    [what |-> what, who |-> who, pc |-> "sent", as |-> cookie.access, live |-> cookie.live, head |-> HeadFirm(o, a),
     meant |-> HeadFirm(o, a), armed |-> a.user # Nobody /\ a.access # Nobody, second |-> FALSE, status |-> 0,
     got |-> [m \in Forms |-> 0], list |-> <<>>]

FirstVisit ==
    /\ auth = [NoAuth EXCEPT !.ready = TRUE]
    /\ org = [chosen |-> NoFirm, known |-> <<>>]
    /\ cookie = [refresh |-> Nobody, access |-> Nobody, live |-> FALSE]
    /\ page = [path |-> "login", shows |-> "none"]
    /\ cache = [k \in Keys |-> Blank]
    /\ sent = <<>>

(* A page loaded with the session of an earlier login kept by the browser: *)
(* the organizations are being asked for.                                  *)
SessionKept(u) ==
    /\ auth = [user |-> u, access |-> u, ready |-> TRUE]
    /\ org = [chosen |-> belongs[u][1], known |-> <<>>]
    /\ cookie = [refresh |-> u, access |-> u, live |-> TRUE]
    /\ page = [path |-> "app", shows |-> "none"]
    /\ cache = [k \in Keys |-> IF k = "organizations" THEN [Blank EXCEPT !.by = 1] ELSE Blank]
    /\ sent = <<Request("organizations", u, org, auth)>>

WebInit ==
    /\ belongs \in {b \in [People -> {<<f>> : f \in Firms} \cup {<<f, g>> : f, g \in Firms}] :
                       \A u \in People : Len(b[u]) = 2 => b[u][1] # b[u][2]}
    /\ FirstVisit \/ \E u \in People : SessionKept(u)
    /\ edition = [f \in Firms |-> [m \in Forms |-> 0]]
    /\ astray = FALSE /\ again = FALSE

UnderWay == \E i \in DOMAIN sent : sent[i].pc # "over"
Unhurried == calm => ~UnderWay

-----------------------------------------------------------------------------
(* Which queries are asked for.                                            *)
LoggedIn(a) == a.user # Nobody /\ a.access # Nobody
Enabled(k, a) == LoggedIn(a) /\ (k = "organizations" => a.ready)

(* The query k is asked for, in place of the request that was to answer it.*)
Fetch(k, c, s, o, a) ==
    [cache |-> [c EXCEPT ![k].by = Len(s) + 1, ![k].failed = FALSE, ![k].kept = FALSE], sent |-> Append(s, Request(k, a.user, o, a))]

OnScreen(p) == IF p.path = "app" THEN {"organizations", p.shows} \cap Keys ELSE {}

(* With stores o and a and the page p, the cache c is brought up to date:  *)
(* ks are invalidated, and what is on screen is fetched if it is not fresh *)
(* or was invalidated, unless a first load of it is under way.  A fetch    *)
(* that an invalidation meets and does not replace is kept.                *)
Refresh(ks, c, s, o, a, p) ==
    LET asked == {k \in OnScreen(p) : Enabled(k, a) /\ IF k \in ks THEN c[k].by = 0 \/ c[k].known
                                                                     ELSE c[k].by = 0 /\ (c[k].stale \/ ~c[k].known)}
        marked == [k \in Keys |-> IF k \notin ks THEN c[k]
                                  ELSE IF c[k].by = 0 \/ k \in asked THEN [c[k] EXCEPT !.stale = TRUE, !.tries = 0, !.kept = FALSE]
                                  ELSE [c[k] EXCEPT !.stale = TRUE, !.kept = TRUE]]
        first == IF "organizations" \in asked THEN Fetch("organizations", marked, s, o, a) ELSE [cache |-> marked, sent |-> s]
    IN  IF p.shows \in asked THEN Fetch(p.shows, first.cache, first.sent, o, a) ELSE first

Becomes(r) == cache' = r.cache /\ sent' = r.sent /\ Len(r.sent) <= MaxSent

(* OrgProvider shows the pages once the organizations are there, or are    *)
(* not being asked for and have not failed.                                *)
PagesShown == page.path = "app" /\ (cache["organizations"].known \/ (cache["organizations"].by = 0 /\ ~cache["organizations"].failed))

-----------------------------------------------------------------------------
(* The user.  The guard looks at the session when the path changes.        *)
Submit(u) ==
    /\ page.path = "login" /\ ~\E i \in DOMAIN sent : sent[i].what = "login" /\ sent[i].pc # "over"
    /\ Len(sent) < MaxSent
    /\ sent' = Append(sent, Request("login", u, org, auth))
    /\ UNCHANGED <<auth, org, cookie, page, cache, belongs, edition, astray, again>>

LogOut ==
    /\ page.path = "app" /\ Unhurried
    /\ auth' = NoAuth /\ page' = [path |-> "login", shows |-> "none"]
    /\ UNCHANGED <<org, cookie, cache, sent, belongs, edition, astray, again>>

Visit ==
    /\ PagesShown /\ Unhurried
    /\ \E k \in Screens :
          /\ k # page.shows
          /\ IF LoggedIn(auth)
               THEN /\ page' = [page EXCEPT !.shows = k]
                    /\ Becomes(Refresh({}, [cache EXCEPT ![k].tries = 0], sent, org, auth, page'))
               ELSE page' = [path |-> "login", shows |-> "none"] /\ UNCHANGED <<cache, sent>>
    /\ UNCHANGED <<auth, org, cookie, belongs, edition, astray, again>>

(* Fault: the data on screen is not asked for again.                       *)
KeepOnSwitch(f) == [cache |-> cache, sent |-> sent]

RefreshOnSwitch(f) == Refresh(Keys, cache, sent, [org EXCEPT !.chosen = f], auth, page)

SwitchOrganization ==
    /\ PagesShown /\ LoggedIn(auth) /\ cache["organizations"].by = 0 /\ Unhurried
    /\ \E i \in DOMAIN org.known :
          /\ org.known[i] # org.chosen
          /\ org' = [org EXCEPT !.chosen = org.known[i]]
          /\ Becomes(RefreshOnSwitch(org.known[i]))
    /\ UNCHANGED <<auth, cookie, page, belongs, edition, astray, again>>

SubmitForm ==
    /\ PagesShown /\ LoggedIn(auth) /\ Unhurried /\ Len(sent) < MaxSent
    /\ \E m \in Forms : sent' = Append(sent, Request(m, auth.user, org, auth))
    /\ UNCHANGED <<auth, org, cookie, page, cache, belongs, edition, astray, again>>

(* Loading the page anew: the tokens, the user and the organization chosen *)
(* are kept; nobody waits for earlier requests.                            *)
Reload ==
    /\ Unhurried
    /\ LET a == [auth EXCEPT !.ready = TRUE]
           o == [org EXCEPT !.known = <<>>]
           p == [path |-> IF LoggedIn(auth) THEN "app" ELSE "login", shows |-> "none"]
           left == [i \in DOMAIN sent |-> IF sent[i].pc = "sent" /\ sent[i].what # "login" THEN [sent[i] EXCEPT !.who = Nobody] ELSE NoRequest]
       IN  auth' = a /\ org' = o /\ page' = p /\ Becomes(Refresh({}, [k \in Keys |-> Blank], left, o, a, p))
    /\ again' = (LoggedIn(auth) /\ cookie.access # auth.user)
    /\ UNCHANGED <<cookie, belongs, edition, astray>>

-----------------------------------------------------------------------------
(* The server.                                                             *)
Handles(i, status, got, list) ==
    sent' = [sent EXCEPT ![i] = IF @.who = Nobody THEN NoRequest ELSE [@ EXCEPT !.pc = "answered", !.status = status, !.got = got, !.list = list]]

Authorized(r) == r.live /\ r.as # Nobody
Firm(r) == IF r.head = NoFirm THEN belongs[r.as][1] ELSE r.head
Within(r) == \E n \in DOMAIN belongs[r.as] : belongs[r.as][n] = Firm(r)

ServeLogin(i) ==
    /\ sent[i].pc = "sent" /\ sent[i].what = "login"
    /\ \/ Handles(i, 401, sent[i].got, <<>>) /\ UNCHANGED cookie
       \/ /\ Handles(i, 200, sent[i].got, belongs[sent[i].who])
          /\ cookie' = IF Len(belongs[sent[i].who]) = 1 THEN [refresh |-> sent[i].who, access |-> sent[i].who, live |-> TRUE] ELSE cookie
    /\ UNCHANGED <<auth, org, page, cache, belongs, edition, astray, again>>

Serve(i) ==
    /\ sent[i].pc = "sent" /\ sent[i].what # "login"
    /\ LET r == sent[i] IN
         \/ ~Authorized(r) /\ Handles(i, 401, r.got, <<>>) /\ UNCHANGED <<edition, astray>>
         \/ Authorized(r) /\ ~Within(r) /\ Handles(i, 403, r.got, <<>>) /\ UNCHANGED <<edition, astray>>
         \/ /\ Authorized(r) /\ Within(r) /\ r.what \in Keys
            /\ Handles(i, 200, edition[Firm(r)], belongs[r.as]) /\ UNCHANGED <<edition, astray>>
         \/ /\ Authorized(r) /\ Within(r) /\ r.what \in Forms
            /\ edition' = [edition EXCEPT ![Firm(r)][r.what] = @ + 1]
            /\ astray' = (astray \/ (r.meant # NoFirm /\ Firm(r) # r.meant))
            /\ Handles(i, 200, edition'[Firm(r)], <<>>)
    /\ UNCHANGED <<auth, org, cookie, page, cache, belongs, again>>

(* The refresh goes by the cookie the browser has when it is asked for.    *)
ServeRefresh(i) ==
    /\ sent[i].pc = "refreshing"
    /\ \/ /\ sent[i].as # Nobody
          /\ cookie' = [cookie EXCEPT !.access = sent[i].as, !.live = TRUE]
          /\ sent' = [sent EXCEPT ![i].pc = "renewed"]
       \/ (sent[i].as = Nobody \/ ~calm) /\ sent' = [sent EXCEPT ![i].pc = "refused"] /\ UNCHANGED cookie
    /\ UNCHANGED <<auth, org, page, cache, belongs, edition, astray, again>>

TokenExpires == cookie.live /\ cookie' = [cookie EXCEPT !.live = FALSE] /\ UNCHANGED <<auth, org, page, cache, sent, belongs, edition, astray, again>>

(* Somebody adds the user to another organization.                         *)
Joins ==
    /\ Unhurried
    /\ \E u \in People, f \in Firms :
         /\ ~\E n \in DOMAIN belongs[u] : belongs[u][n] = f
         /\ belongs' = [belongs EXCEPT ![u] = Append(@, f)]
    /\ UNCHANGED <<auth, org, cookie, page, cache, sent, edition, astray, again>>

(* No answer within thirty seconds, or no connection.                      *)
Lost(i) ==
    /\ ~calm /\ sent[i].pc = "sent" /\ sent[i].who # Nobody
    /\ \/ sent' = [sent EXCEPT ![i] = [@ EXCEPT !.pc = "answered", !.status = 0]] /\ UNCHANGED <<edition, astray>>
       \/ /\ sent[i].what \in Forms /\ Authorized(sent[i]) /\ Within(sent[i])
          /\ edition' = [edition EXCEPT ![Firm(sent[i])][sent[i].what] = @ + 1]
          /\ astray' = (astray \/ (sent[i].meant # NoFirm /\ Firm(sent[i]) # sent[i].meant))
          /\ sent' = [sent EXCEPT ![i] = [@ EXCEPT !.pc = "answered", !.status = 0]]
    /\ UNCHANGED <<auth, org, cookie, page, cache, belongs, again>>

-----------------------------------------------------------------------------
(* The client gets an answer.                                              *)
Over(i) == [sent EXCEPT ![i] = NoRequest]

AskRefresh(i) ==
    /\ sent[i].pc = "answered" /\ sent[i].status = 401 /\ sent[i].armed /\ ~sent[i].second
    /\ sent' = [sent EXCEPT ![i] = [@ EXCEPT !.pc = "refreshing", !.as = cookie.refresh]]
    /\ UNCHANGED <<auth, org, cookie, page, cache, belongs, edition, astray, again>>

(* Fault: the second request does not name the organization.               *)
NoHeadOnRetry(r) == NoFirm

HeadOnRetry(r) == HeadFirm(org, [auth EXCEPT !.user = r.who])

Retry(i) ==
    /\ sent[i].pc = "renewed"
    /\ auth' = [auth EXCEPT !.access = sent[i].as]
    /\ sent' = [sent EXCEPT ![i] = [@ EXCEPT !.pc = "sent", !.second = TRUE, !.as = cookie.access, !.live = cookie.live,
                                            !.head = HeadOnRetry(sent[i])]]
    /\ UNCHANGED <<org, cookie, page, cache, belongs, edition, astray, again>>

(* The query whose answer this was to be failed; when the error is not one *)
(* of the session it is asked for once more.                               *)
Fails(i, a, once) ==
    LET k == sent[i].what
        ours == k \in Keys /\ cache[k].by = i
        c == [cache EXCEPT ![k].by = 0, ![k].failed = TRUE, ![k].tries = 1]
    IN  IF ~ours THEN cache' = cache /\ sent' = Over(i)
        ELSE IF once /\ cache[k].tries = 0 /\ k \in OnScreen(page) /\ Enabled(k, a)
          THEN Becomes(Fetch(k, c, Over(i), org, a))
          ELSE cache' = c /\ sent' = Over(i)

(* 401 for good, 403, or a refresh that failed: the session is cleared.    *)
SessionEnds(i) ==
    /\ \/ sent[i].pc = "refused"
       \/ sent[i].pc = "answered" /\ sent[i].status \in {401, 403} /\ ~(sent[i].status = 401 /\ sent[i].armed /\ ~sent[i].second)
    /\ auth' = NoAuth
    /\ Fails(i, NoAuth, sent[i].what # "organizations")
    /\ UNCHANGED <<org, cookie, page, belongs, edition, astray, again>>

GivenUp(i) ==
    /\ sent[i].pc = "answered" /\ sent[i].status = 0
    /\ Fails(i, auth, TRUE)
    /\ UNCHANGED <<auth, org, cookie, page, belongs, edition, astray, again>>

(* What somebody else leaves: an organization, data, a request, his token. *)
LeftBehind(i) ==
    \/ org.chosen # NoFirm \/ cookie.access # sent[i].who \/ \E k \in Keys : cache[k].known
    \/ \E j \in DOMAIN sent \ {i} : sent[j].pc # "over" /\ sent[j].who # Nobody

(* A user of one organization is in; of several, is sent to a page that    *)
(* lists none of them.                                                     *)
LoginAnswered(i) ==
    /\ sent[i].pc = "answered" /\ sent[i].status = 200 /\ sent[i].what = "login"
    /\ IF Len(sent[i].list) = 1
         THEN LET a == [auth EXCEPT !.user = sent[i].who, !.access = sent[i].who]
                  p == [path |-> "app", shows |-> "none"]
              IN  auth' = a /\ page' = p /\ Becomes(Refresh({}, cache, Over(i), org, a, p))
         ELSE page' = [page EXCEPT !.path = "select"] /\ sent' = Over(i) /\ UNCHANGED <<auth, cache>>
    /\ again' = (again \/ LeftBehind(i))
    /\ UNCHANGED <<org, cookie, belongs, edition, astray>>

(* The organizations are put into the store whichever request they answer; *)
(* the first is chosen unless one was.                                     *)
Gets(i) ==
    LET r == sent[i]
        ours == cache[r.what].by = i
        got == [cache EXCEPT ![r.what] = [@ EXCEPT !.firm = r.head, !.of = r.as, !.ver = r.got, !.known = TRUE, !.stale = FALSE,
                                                   !.failed = FALSE, !.by = 0, !.tries = 0]]
    IN  /\ r.pc = "answered" /\ r.status = 200 /\ r.what \in Keys
        /\ org' = IF r.what # "organizations" THEN org
                  ELSE [chosen |-> IF org.chosen = NoFirm THEN r.list[1] ELSE org.chosen, known |-> r.list]
        /\ cache' = IF ours THEN got ELSE cache
        /\ sent' = Over(i)
        /\ UNCHANGED <<auth, cookie, page, belongs, edition, astray, again>>

Refreshed(m) == AllWrites[m].refreshes \cap Keys

WriteDone(i) ==
    LET r == sent[i]
        owed == [k \in Keys |-> IF AllWrites[r.what].changes \cap AllQueries[k].shows # {}
                                  THEN [cache[k] EXCEPT !.due[Firm(r)][r.what] = r.got[r.what]] ELSE cache[k]]
    IN  /\ r.pc = "answered" /\ r.status = 200 /\ r.what \in Forms
        /\ Becomes(Refresh(Refreshed(r.what), owed, Over(i), org, auth, page))
        /\ UNCHANGED <<auth, org, cookie, page, belongs, edition, astray, again>>

(* Thirty seconds, or five minutes, later.                                 *)
GoesStale ==
    /\ \E k \in Keys : /\ cache[k].known /\ ~cache[k].stale
                       /\ cache' = [cache EXCEPT ![k] = IF k \in OnScreen(page) \/ @.by # 0 THEN [@ EXCEPT !.stale = TRUE] ELSE Blank]
    /\ UNCHANGED <<auth, org, cookie, page, sent, belongs, edition, astray, again>>

UserActs == (\E u \in People : Submit(u)) \/ LogOut \/ Visit \/ SwitchOrganization \/ SubmitForm \/ Reload
Answered(i) == AskRefresh(i) \/ Retry(i) \/ SessionEnds(i) \/ GivenUp(i) \/ LoginAnswered(i) \/ Gets(i) \/ WriteDone(i)
ServerActs(i) == ServeLogin(i) \/ Serve(i) \/ ServeRefresh(i) \/ Lost(i)

WebNext == UserActs \/ Joins \/ TokenExpires \/ GoesStale \/ \E i \in DOMAIN sent : ServerActs(i) \/ Answered(i)

WebSpec == WebInit /\ [][WebNext /\ UNCHANGED calm]_<<webVars, calm>>

-----------------------------------------------------------------------------
WebTypeOK ==
    /\ auth \in [user : People \cup {Nobody}, access : People \cup {Nobody}, ready : BOOLEAN]
    /\ org.chosen \in Firms \cup {NoFirm}
    /\ page.path \in {"login", "select", "app"} /\ page.shows \in Screens \cup {"none"}
    /\ \A k \in Keys : cache[k].by \in 0 .. Len(sent)
    /\ \A f \in Firms : edition[f] \in [Forms -> Nat]

(* Once nothing is being asked for, what a page shows was read for the     *)
(* user, in the organization the switcher names, and after every write of  *)
(* this user that its hook covers, whatever was under way when the         *)
(* organization changed or the token ran out; unless the page was not left *)
(* clean by somebody who was logged in before, or the data is the answer   *)
(* of a fetch that was under way when its query was invalidated, and that  *)
(* React Query let answer all the same.                                    *)
AtRest(k) == ~again /\ PagesShown /\ LoggedIn(auth) /\ k # "none" /\ cache[k].known /\ cache[k].by = 0 /\ ~cache[k].failed
ScreenIsCurrent ==
    LET k == page.shows IN
      (AtRest(k) /\ ~cache[k].kept) =>
          /\ cache[k].of = auth.user /\ cache[k].firm = HeadFirm(org, auth)
          /\ \A m \in Forms : <<m, k>> \in Overlooked \/ cache[k].ver[m] >= cache[k].due[HeadFirm(org, auth)][m]

(* docs/PERFORMANCE_P1.md:121 says that the invalidation on a change of    *)
(* organization keeps the data of two organizations apart: what a page     *)
(* shows belongs to the organization the switcher names.  Not so when the  *)
(* page was being loaded for the first time.                               *)
NeverMixed == AtRest(page.shows) => cache[page.shows].firm = HeadFirm(org, auth)

(* A user who waits for one answer before changing organization has every  *)
(* write made in the organization the form showed, however often the token *)
(* expires on the way.                                                     *)
WritesLandWhereMeant == calm => ~astray
=============================================================================
