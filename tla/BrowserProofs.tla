--------------------------- MODULE BrowserProofs ----------------------------
(***************************************************************************)
(* What the browser promises.                                              *)
(*                                                                         *)
(* A tab promises its user, for any number of people, organizations, pages *)
(* and requests, in any order of answers, that a page shows what its user  *)
(* may take for current, and that forms are saved where they were filled   *)
(* in.                                                                     *)
(*                                                                         *)
(* The dialog that adds stock promises that what it reports as saved is on *)
(* the shelf, and that rows keep their items, whatever is typed, pasted,   *)
(* closed and opened again meanwhile.                                      *)
(***************************************************************************)
EXTENDS WebSession, StockForm, Sums, FunctionTheorems, SequenceTheorems, TLAPS

-----------------------------------------------------------------------------
(* The session of a browser.                                               *)
Tokens == People \cup {Nobody}
Heads == Firms \cup {NoFirm}
CacheLine ==
    [firm : Heads, of : Tokens, ver : [Forms -> Nat], due : [Firms -> [Forms -> Nat]], known : BOOLEAN,
     stale : BOOLEAN, failed : BOOLEAN, by : Nat, tries : {0, 1}, kept : BOOLEAN]
WebRequests ==
    [what : Keys \cup Forms \cup {"login", "none"}, who : Tokens,
     pc : {"sent", "answered", "refreshing", "renewed", "refused", "over"}, as : Tokens, live : BOOLEAN, head : Heads, meant : Heads,
     armed : BOOLEAN, second : BOOLEAN, status : {0, 200, 401, 403}, got : [Forms -> Nat], list : Seq(Firms)]

(* The parts of WebTypes are the types of the variables.                   *)
WebTypes ==
    /\ auth \in [user : Tokens, access : Tokens, ready : BOOLEAN]
    /\ org \in [chosen : Heads, known : Seq(Firms)]
    /\ cookie \in [refresh : Tokens, access : Tokens, live : BOOLEAN]
    /\ page \in [path : {"login", "select", "app"}, shows : Screens \cup {"none"}]
    /\ cache \in [Keys -> CacheLine]
    /\ sent \in Seq(WebRequests)
    /\ belongs \in [People -> Seq(Firms) \ {<<>>}]
    /\ edition \in [Firms -> [Forms -> Nat]]
    /\ astray \in BOOLEAN /\ again \in BOOLEAN

(* Whoever is logged in is on the pages, under his own cookie.             *)
SessionFits ==
    /\ auth.user # Nobody => auth.access # Nobody /\ page.path = "app" /\ cookie.refresh = auth.user

(* A request left behind by a page that was loaded anew waits for the      *)
(* server only; a login is one at a time, on its page; an answer is one    *)
(* the server gave.                                                        *)
Open(r) == r.pc # "over"
OpenLogin(r) == Open(r) /\ r.what = "login"
Given(r) == r.pc = "answered" /\ r.status = 200
RequestFits(r) ==
    /\ Open(r) /\ r.who = Nobody => r.pc = "sent" /\ r.what # "login"
    /\ r.pc = "renewed" => r.as # Nobody
    /\ Given(r) /\ r.what # "login" =>
          r.as \in People /\ Firm(r) \in Firms /\ \A m \in Forms : r.got[m] <= edition[Firm(r)][m]
    /\ Given(r) /\ r.what \in Keys => r.list # <<>> /\ r.list[1] = belongs[r.as][1]
    /\ OpenLogin(r) =>
          /\ page.path = "login" /\ ~r.armed /\ r.pc \in {"sent", "answered"}
          /\ Given(r) /\ Len(r.list) = 1 => cookie.refresh = r.who
OneLogin == \A i, j \in DOMAIN sent : OpenLogin(sent[i]) /\ OpenLogin(sent[j]) => i = j
RequestsFit == (\A i \in DOMAIN sent : RequestFits(sent[i])) /\ OneLogin

(* The request that is to answer a query is one for it, and under way; one *)
(* that was kept is to answer what was marked stale.                       *)
Answers(k, r) == r.what = k /\ Open(r) /\ r.who # Nobody
LineFits(k, l, s) ==
    /\ l.by # 0 => l.by \in DOMAIN s /\ Answers(k, s[l.by]) /\ (l.kept => l.stale)
    /\ \A f \in Firms, m \in Forms : l.due[f][m] <= edition[f][m]
CacheFits == \A k \in Keys : LineFits(k, cache[k], sent)

(* As long as nobody else has left something in the page: every request is *)
(* the user's, and what is shown, or counts as fresh, or is about to be    *)
(* shown, was read in the organization named and after the writes, unless  *)
(* its request was kept.                                                   *)
Mine == ~again /\ LoggedIn(auth)
Covers(k, got, due) == \A m \in Forms : <<m, k>> \in Overlooked \/ got[m] >= due[m]
Current(k, l, h, u) == l.of = u /\ l.firm = h /\ Covers(k, l.ver, l.due[h])
OursFits(r, u) == Open(r) /\ r.who # Nobody => r.who = u /\ r.as = u
Coming(k, l, s, h) == l.by # 0 => s[l.by].head = h /\ (Given(s[l.by]) => Covers(k, s[l.by].got, l.due[h]))
ScreenFits(k, l, s, h, u) ==
    ~l.kept =>
    /\ Coming(k, l, s, h)
    /\ l.known /\ (~l.stale \/ (page.shows = k /\ l.by = 0 /\ ~l.failed)) => Current(k, l, h, u)
PageFits ==
    Mine => /\ cookie.access = auth.user
            /\ \A i \in DOMAIN sent : OursFits(sent[i], auth.user)
            /\ \A k \in Screens : ScreenFits(k, cache[k], sent, HeadFirm(org, auth), auth.user)

(* In calm weather a form is sent alone, and names the organization shown. *)
FormFits(i) ==
    Open(sent[i]) /\ sent[i].what \in Forms =>
        /\ page.path = "app" /\ \A j \in DOMAIN sent : j # i => ~Open(sent[j])
        /\ sent[i].who \in People /\ sent[i].head = sent[i].meant
        /\ sent[i].meant = IF org.chosen # NoFirm THEN org.chosen ELSE belongs[sent[i].who][1]
FormsFit == calm => ~astray /\ \A i \in DOMAIN sent : FormFits(i)

WebInv ==
    /\ WebTypes /\ SessionFits
    /\ RequestsFit /\ CacheFits /\ PageFits /\ FormsFit

AuthTypes == [user : Tokens, access : Tokens, ready : BOOLEAN]
OrgTypes == [chosen : Heads, known : Seq(Firms)]
Pages == [path : {"login", "select", "app"}, shows : Screens \cup {"none"}]

(* The names of the queries, of the writes and of "login" are distinct.    *)
LEMMA NamesDiffer ==
    /\ "organizations" \notin Screens /\ "none" \notin Keys /\ Keys \cap Forms = {}
    /\ "login" \notin Keys /\ "login" \notin Forms /\ Nobody \notin People /\ NoFirm \notin Firms
    /\ "organizations" \in Keys /\ Screens \subseteq Keys
    BY WebKeys, WebNames DEF Keys

(* The organization header names an organization when somebody is logged   *)
(* in.                                                                     *)
LEMMA HeadIs ==
    ASSUME WebTypes, NEW o \in OrgTypes, NEW a \in AuthTypes
    PROVE  /\ HeadFirm(o, a) \in Heads
           /\ a.user # Nobody => HeadFirm(o, a) \in Firms /\ HeadFirm(o, a) # NoFirm
  <1>1. \A u \in People : belongs[u][1] \in Firms
    <2> SUFFICES ASSUME NEW u \in People PROVE belongs[u][1] \in Firms
      OBVIOUS
    <2>1. belongs[u] \in Seq(Firms) /\ belongs[u] # <<>>
      BY DEF WebTypes
    <2> QED
      BY <2>1
  <1> QED
    BY <1>1, WebNames DEF HeadFirm, OrgTypes, AuthTypes, Heads, Tokens

(* A new request has its type and says what it was made for.               *)
LEMMA RequestIs ==
    ASSUME WebTypes, NEW what \in Keys \cup Forms \cup {"login"}, NEW who \in Tokens, NEW o \in OrgTypes, NEW a \in AuthTypes
    PROVE  /\ Request(what, who, o, a) \in WebRequests
           /\ Request(what, who, o, a).what = what /\ Request(what, who, o, a).who = who /\ Request(what, who, o, a).pc = "sent"
           /\ Request(what, who, o, a).as = cookie.access /\ Request(what, who, o, a).head = HeadFirm(o, a)
           /\ Request(what, who, o, a).meant = HeadFirm(o, a)
           /\ (Request(what, who, o, a).armed <=> a.user # Nobody /\ a.access # Nobody)
  <1>1. HeadFirm(o, a) \in Heads
    BY HeadIs
  <1>2. cookie.access \in Tokens /\ cookie.live \in BOOLEAN
    BY DEF WebTypes
  <1>3. (a.user # Nobody /\ a.access # Nobody) \in BOOLEAN /\ <<>> \in Seq(Firms) /\ [m \in Forms |-> 0] \in [Forms -> Nat]
    OBVIOUS
  <1> QED
    BY <1>1, <1>2, <1>3 DEF Request, WebRequests

(* What one more request for k, req, makes of cache c and requests s.      *)
AskedFor(k, c, s, req, f) ==
    /\ f.cache \in [Keys -> CacheLine] /\ f.sent \in Seq(WebRequests)
    /\ Len(f.sent) = Len(s) + 1 /\ f.sent[Len(s) + 1] = req /\ \A j \in DOMAIN s : f.sent[j] = s[j]
    /\ \A x \in Keys \ {k} : f.cache[x] = c[x]
    /\ f.cache[k] = [c[k] EXCEPT !.by = Len(s) + 1, !.failed = FALSE, !.kept = FALSE]

(* Fetch makes one request, which is the one the line waits for.           *)
LEMMA Fetched ==
    ASSUME WebTypes, NEW k \in Keys, NEW c \in [Keys -> CacheLine], NEW s \in Seq(WebRequests), NEW o \in OrgTypes, NEW a \in AuthTypes
    PROVE  AskedFor(k, c, s, Request(k, a.user, o, a), Fetch(k, c, s, o, a))
  <1>1. a.user \in Tokens
    BY DEF AuthTypes
  <1>2. Request(k, a.user, o, a) \in WebRequests
    BY <1>1, RequestIs
  <1>3. c[k] \in CacheLine /\ Len(s) + 1 \in Nat
    OBVIOUS
  <1>4. [c[k] EXCEPT !.by = Len(s) + 1, !.failed = FALSE, !.kept = FALSE] \in CacheLine
    BY <1>3 DEF CacheLine
  <1>5. Fetch(k, c, s, o, a) = [cache |-> [c EXCEPT ![k] = [c[k] EXCEPT !.by = Len(s) + 1, !.failed = FALSE, !.kept = FALSE]],
                                sent |-> Append(s, Request(k, a.user, o, a))]
    BY <1>3 DEF Fetch, CacheLine
  <1>6. Append(s, Request(k, a.user, o, a)) \in Seq(WebRequests) /\ Len(Append(s, Request(k, a.user, o, a))) = Len(s) + 1
        /\ (\A j \in DOMAIN s : Append(s, Request(k, a.user, o, a))[j] = s[j])
        /\ Append(s, Request(k, a.user, o, a))[Len(s) + 1] = Request(k, a.user, o, a)
    BY <1>2
  <1> QED
    BY <1>4, <1>5, <1>6 DEF AskedFor

(* What Refresh asks for, and what it leaves of a line of the cache.       *)
Wanted(k, ks, c, a, p) ==
    /\ k \in OnScreen(p) /\ Enabled(k, a)
    /\ IF k \in ks THEN c[k].by = 0 \/ c[k].known ELSE c[k].by = 0 /\ (c[k].stale \/ ~c[k].known)
LineKept(l, n) == l.firm = n.firm /\ l.of = n.of /\ l.ver = n.ver /\ l.due = n.due /\ l.known = n.known
Renewed(k, ks, c, s, o, a, p, r) ==
    /\ LineKept(c[k], r.cache[k]) /\ r.cache[k].stale = (c[k].stale \/ k \in ks)
    /\ Wanted(k, ks, c, a, p) => /\ r.cache[k].by \in (Len(s) + 1)..Len(r.sent) /\ r.sent[r.cache[k].by] = Request(k, a.user, o, a)
                                 /\ ~r.cache[k].kept
    /\ ~Wanted(k, ks, c, a, p) => /\ r.cache[k].failed = c[k].failed /\ r.cache[k].by = c[k].by
                                  /\ r.cache[k].kept = IF k \in ks THEN c[k].by # 0 ELSE c[k].kept

(* Refresh leaves what was fetched as it is; each line wanted waits for a  *)
(* new request of the user, and new requests are of that kind.             *)
LEMMA RefreshIs ==
    ASSUME WebTypes, NEW ks \in SUBSET Keys, NEW c \in [Keys -> CacheLine], NEW s \in Seq(WebRequests), NEW o \in OrgTypes,
           NEW a \in AuthTypes, NEW p \in Pages
    PROVE  LET r == Refresh(ks, c, s, o, a, p)
           IN  /\ r.cache \in [Keys -> CacheLine] /\ r.sent \in Seq(WebRequests) /\ Len(r.sent) >= Len(s)
               /\ \A j \in DOMAIN s : r.sent[j] = s[j]
               /\ \A j \in DOMAIN r.sent : j > Len(s) => LoggedIn(a) /\ \E k \in Keys : r.sent[j] = Request(k, a.user, o, a)
               /\ \A k \in Keys : Renewed(k, ks, c, s, o, a, p, r)
  <1> DEFINE asked == {k \in OnScreen(p) : Enabled(k, a) /\ IF k \in ks THEN c[k].by = 0 \/ c[k].known
                                                                        ELSE c[k].by = 0 /\ (c[k].stale \/ ~c[k].known)}
             marked == [k \in Keys |-> IF k \notin ks THEN c[k]
                                       ELSE IF c[k].by = 0 \/ k \in asked THEN [c[k] EXCEPT !.stale = TRUE, !.tries = 0, !.kept = FALSE]
                                       ELSE [c[k] EXCEPT !.stale = TRUE, !.kept = TRUE]]
             first == IF "organizations" \in asked THEN Fetch("organizations", marked, s, o, a) ELSE [cache |-> marked, sent |-> s]
             r == IF p.shows \in asked THEN Fetch(p.shows, first.cache, first.sent, o, a) ELSE first
  <1>1. Refresh(ks, c, s, o, a, p) = r
    BY DEF Refresh, marked, asked, first, r
  <1>2. OnScreen(p) \subseteq Keys /\ OnScreen(p) \subseteq {"organizations", p.shows}
    BY DEF OnScreen
  <1>3. asked \subseteq Keys /\ asked \subseteq {"organizations", p.shows} /\ p.shows # "organizations"
    BY <1>2, NamesDiffer DEF Pages
  <1>4. marked \in [Keys -> CacheLine]
    <2> SUFFICES ASSUME NEW k \in Keys PROVE marked[k] \in CacheLine
      OBVIOUS
    <2>1. c[k] \in CacheLine
      OBVIOUS
    <2> QED
      BY <2>1 DEF CacheLine
  <1>5. \A k \in Keys : /\ LineKept(c[k], marked[k]) /\ marked[k].stale = (c[k].stale \/ k \in ks) /\ marked[k].failed = c[k].failed
                        /\ marked[k].by = c[k].by
                        /\ k \notin asked => marked[k].kept = IF k \in ks THEN c[k].by # 0 ELSE c[k].kept
    <2> SUFFICES ASSUME NEW k \in Keys
                 PROVE  /\ LineKept(c[k], marked[k]) /\ marked[k].stale = (c[k].stale \/ k \in ks) /\ marked[k].failed = c[k].failed
                        /\ marked[k].by = c[k].by
                        /\ k \notin asked => marked[k].kept = IF k \in ks THEN c[k].by # 0 ELSE c[k].kept
      OBVIOUS
    <2>1. c[k] \in CacheLine
      OBVIOUS
    <2>2. PICK wanted : wanted = (k \in asked)
      OBVIOUS
    <2>3. marked[k] = IF k \notin ks THEN c[k]
                      ELSE IF c[k].by = 0 \/ wanted THEN [c[k] EXCEPT !.stale = TRUE, !.tries = 0, !.kept = FALSE]
                      ELSE [c[k] EXCEPT !.stale = TRUE, !.kept = TRUE]
      BY <2>2
    <2> HIDE DEF marked, asked
    <2>4. CASE k \notin ks
      BY <2>1, <2>3, <2>4 DEF CacheLine, LineKept
    <2>5. CASE k \in ks /\ (c[k].by = 0 \/ wanted)
      <3>1. marked[k] = [c[k] EXCEPT !.stale = TRUE, !.tries = 0, !.kept = FALSE]
        BY <2>3, <2>5
      <3> QED
        BY <2>1, <2>2, <2>5, <3>1 DEF CacheLine, LineKept
    <2>6. CASE k \in ks /\ ~(c[k].by = 0 \/ wanted)
      <3>1. marked[k] = [c[k] EXCEPT !.stale = TRUE, !.kept = TRUE]
        BY <2>3, <2>6
      <3> QED
        BY <2>1, <2>2, <2>6, <3>1 DEF CacheLine, LineKept
    <2> QED
      BY <2>4, <2>5, <2>6
  <1>6. \A k \in Keys : k \in asked <=> Wanted(k, ks, c, a, p)
    BY <1>2 DEF Wanted
  <1> HIDE DEF marked, asked, first, r
  <1>7. /\ first.cache \in [Keys -> CacheLine] /\ first.sent \in Seq(WebRequests) /\ Len(first.sent) >= Len(s)
        /\ \A j \in DOMAIN s : first.sent[j] = s[j]
        /\ \A j \in DOMAIN first.sent : j > Len(s) => first.sent[j] = Request("organizations", a.user, o, a) /\ "organizations" \in asked
        /\ \A k \in Keys : k # "organizations" => first.cache[k] = marked[k]
        /\ "organizations" \notin asked => first.cache["organizations"] = marked["organizations"]
        /\ "organizations" \in asked =>
              /\ first.cache["organizations"] = [marked["organizations"] EXCEPT !.by = Len(s) + 1, !.failed = FALSE, !.kept = FALSE]
              /\ Len(first.sent) = Len(s) + 1
    <2>1. CASE "organizations" \in asked
      <3>1. first = Fetch("organizations", marked, s, o, a) /\ "organizations" \in Keys
        BY <2>1, NamesDiffer DEF first
      <3>2. /\ first.cache \in [Keys -> CacheLine] /\ first.sent \in Seq(WebRequests)
            /\ Len(first.sent) = Len(s) + 1 /\ \A j \in DOMAIN s : first.sent[j] = s[j]
            /\ first.sent[Len(s) + 1] = Request("organizations", a.user, o, a)
            /\ \A x \in Keys \ {"organizations"} : first.cache[x] = marked[x]
            /\ first.cache["organizations"] = [marked["organizations"] EXCEPT !.by = Len(s) + 1, !.failed = FALSE, !.kept = FALSE]
        <4>1. AskedFor("organizations", marked, s, Request("organizations", a.user, o, a), first)
          BY <3>1, <1>4, Fetched
        <4> QED
          BY <4>1 DEF AskedFor
      <3>3. \A j \in DOMAIN first.sent : j > Len(s) => j = Len(s) + 1
        BY <3>2
      <3> QED
        BY <2>1, <3>2, <3>3
    <2>2. CASE "organizations" \notin asked
      BY <2>2, <1>4 DEF first
    <2> QED
      BY <2>1, <2>2

  <1>8. /\ r.cache \in [Keys -> CacheLine] /\ r.sent \in Seq(WebRequests) /\ Len(r.sent) >= Len(first.sent)
        /\ \A j \in DOMAIN first.sent : r.sent[j] = first.sent[j]
        /\ \A j \in DOMAIN r.sent : j > Len(first.sent) => r.sent[j] = Request(p.shows, a.user, o, a) /\ p.shows \in asked
        /\ \A k \in Keys : k # p.shows => r.cache[k] = first.cache[k]
        /\ p.shows \notin asked => r.cache = first.cache
        /\ p.shows \in asked =>
              /\ r.cache[p.shows] = [first.cache[p.shows] EXCEPT !.by = Len(first.sent) + 1, !.failed = FALSE, !.kept = FALSE]
              /\ Len(r.sent) = Len(first.sent) + 1
    <2>1. CASE p.shows \in asked
      <3>1. p.shows \in Keys
        BY <2>1, <1>3
      <3>2. r = Fetch(p.shows, first.cache, first.sent, o, a)
        BY <2>1 DEF r
      <3>3. /\ r.cache \in [Keys -> CacheLine] /\ r.sent \in Seq(WebRequests)
            /\ Len(r.sent) = Len(first.sent) + 1 /\ \A j \in DOMAIN first.sent : r.sent[j] = first.sent[j]
            /\ r.sent[Len(first.sent) + 1] = Request(p.shows, a.user, o, a)
            /\ \A x \in Keys \ {p.shows} : r.cache[x] = first.cache[x]
            /\ r.cache[p.shows] = [first.cache[p.shows] EXCEPT !.by = Len(first.sent) + 1, !.failed = FALSE, !.kept = FALSE]
        <4>1. first.cache \in [Keys -> CacheLine] /\ first.sent \in Seq(WebRequests)
          BY <1>7
        <4>2. AskedFor(p.shows, first.cache, first.sent, Request(p.shows, a.user, o, a), r)
          BY <3>1, <3>2, <4>1, Fetched
        <4> QED
          BY <4>2 DEF AskedFor
      <3>4. \A j \in DOMAIN r.sent : j > Len(first.sent) => j = Len(first.sent) + 1
        BY <3>3, <1>7
      <3> QED
        BY <2>1, <3>3, <3>4
    <2>2. CASE p.shows \notin asked
      BY <2>2, <1>7 DEF r
    <2> QED
      BY <2>1, <2>2
  <1>9. \A k \in asked : LoggedIn(a)
    BY <1>6, <1>3 DEF Wanted, Enabled
  <1>10. \A j \in DOMAIN s : r.sent[j] = s[j]
    BY <1>7, <1>8
  <1>11. \A j \in DOMAIN r.sent : j > Len(s) => LoggedIn(a) /\ \E k \in Keys : r.sent[j] = Request(k, a.user, o, a)
    <2> SUFFICES ASSUME NEW j \in DOMAIN r.sent, j > Len(s) PROVE LoggedIn(a) /\ \E k \in Keys : r.sent[j] = Request(k, a.user, o, a)
      OBVIOUS
    <2>1. CASE j > Len(first.sent)
      BY <2>1, <1>8, <1>9, <1>3
    <2>2. CASE ~(j > Len(first.sent))
      <3>1. j \in DOMAIN first.sent
        BY <2>2, <1>7, <1>8
      <3> QED
        BY <3>1, <1>7, <1>8, <1>9, <1>3
    <2> QED
      BY <2>1, <2>2
  <1>12. ASSUME NEW k \in Keys PROVE Renewed(k, ks, c, s, o, a, p, r)
    <2>1. marked[k] \in CacheLine
      BY <1>4
    <2>2. CASE k = "organizations"
      <3>1. r.cache[k] = first.cache[k]
        BY <2>2, <1>8, <1>3
      <3>2. CASE k \in asked
        <4>1. first.cache[k] = [marked[k] EXCEPT !.by = Len(s) + 1, !.failed = FALSE, !.kept = FALSE] /\ Len(first.sent) = Len(s) + 1
          BY <2>2, <3>2, <1>7
        <4>2. Len(s) + 1 \in (Len(s) + 1)..Len(r.sent) /\ r.sent[Len(s) + 1] = Request(k, a.user, o, a)
          BY <2>2, <3>2, <4>1, <1>7, <1>8
        <4>3. /\ LineKept(marked[k], r.cache[k]) /\ r.cache[k].stale = marked[k].stale /\ r.cache[k].by = Len(s) + 1
              /\ ~r.cache[k].kept
          BY <3>1, <4>1, <2>1 DEF LineKept, CacheLine
        <4> QED
          BY <4>2, <4>3, <1>5, <1>6, <3>2 DEF Renewed, LineKept
      <3>3. CASE k \notin asked
        BY <2>2, <3>1, <3>3, <1>5, <1>6, <1>7 DEF Renewed
      <3> QED
        BY <3>2, <3>3
    <2>3. CASE k # "organizations"
      <3>1. first.cache[k] = marked[k]
        BY <2>3, <1>7
      <3>2. CASE k \in asked
        <4>1. k = p.shows
          BY <3>2, <2>3, <1>3
        <4>2. r.cache[k] = [marked[k] EXCEPT !.by = Len(first.sent) + 1, !.failed = FALSE, !.kept = FALSE] /\ Len(r.sent) = Len(first.sent) + 1
          BY <4>1, <3>1, <3>2, <1>8
        <4>3. Len(first.sent) + 1 \in (Len(s) + 1)..Len(r.sent) /\ r.sent[Len(first.sent) + 1] = Request(k, a.user, o, a)
          BY <4>1, <4>2, <1>7, <1>8
        <4> QED
          BY <4>2, <4>3, <2>1, <1>5, <1>6, <3>2 DEF Renewed, LineKept, CacheLine
      <3>3. CASE k \notin asked
        <4>1. r.cache[k] = marked[k]
          BY <3>1, <3>3, <1>8
        <4> QED
          BY <4>1, <3>3, <1>5, <1>6 DEF Renewed
      <3> QED
        BY <3>2, <3>3
    <2> QED
      BY <2>2, <2>3
  <1>13. Len(r.sent) >= Len(s)
    BY <1>7, <1>8
  <1> QED
    BY <1>1, <1>8, <1>10, <1>11, <1>12, <1>13

-----------------------------------------------------------------------------
(* Requests s are those there were, some of them over or left by a page    *)
(* that was loaded anew; what is sent now are these and new ones.          *)
OldRequests(s) ==
    /\ s \in Seq(WebRequests) /\ Len(s) = Len(sent)
    /\ \A j \in DOMAIN s : s[j] = sent[j] \/ ~Open(s[j]) \/ (s[j].pc = "sent" /\ s[j].who = Nobody /\ s[j].what # "login")
NewRequests(s, o, a) ==
    /\ sent' \in Seq(WebRequests) /\ Len(sent') >= Len(s) /\ \A j \in DOMAIN s : sent'[j] = s[j]
    /\ \A j \in DOMAIN sent' : j > Len(s) => LoggedIn(a) /\ \E k \in Keys \cup Forms : sent'[j] = Request(k, a.user, o, a)
Refreshes(ks, c, s, o, a, p) ==
    /\ cache' \in [Keys -> CacheLine] /\ \A k \in Keys : Renewed(k, ks, c, s, o, a, p, [cache |-> cache', sent |-> sent'])
    /\ \A j \in DOMAIN sent' : j > Len(s) => \E k \in Keys : sent'[j] = Request(k, a.user, o, a)

(* The same of the variables, once they become what Refresh gives.         *)
LEMMA RefreshesIs ==
    ASSUME WebTypes, NEW ks \in SUBSET Keys, NEW c \in [Keys -> CacheLine], NEW s \in Seq(WebRequests), NEW o \in OrgTypes,
           NEW a \in AuthTypes, NEW p \in Pages, Becomes(Refresh(ks, c, s, o, a, p))
    PROVE  NewRequests(s, o, a) /\ Refreshes(ks, c, s, o, a, p)
  <1> DEFINE r == Refresh(ks, c, s, o, a, p)
  <1>1. /\ r.cache \in [Keys -> CacheLine] /\ r.sent \in Seq(WebRequests) /\ Len(r.sent) >= Len(s)
        /\ \A j \in DOMAIN s : r.sent[j] = s[j]
        /\ \A j \in DOMAIN r.sent : j > Len(s) => LoggedIn(a) /\ \E k \in Keys : r.sent[j] = Request(k, a.user, o, a)
        /\ \A k \in Keys : Renewed(k, ks, c, s, o, a, p, r)
    BY RefreshIs
  <1>2. cache' = r.cache /\ sent' = r.sent
    BY DEF Becomes
  <1> HIDE DEF r
  <1>3. \A k \in Keys : Renewed(k, ks, c, s, o, a, p, [cache |-> cache', sent |-> sent'])
    BY <1>1, <1>2 DEF Renewed
  <1> QED
    BY <1>1, <1>2, <1>3 DEF NewRequests, Refreshes

(* A request just made fits.                                               *)
LEMMA NewFits ==
    ASSUME WebTypes, NEW k \in Keys \cup Forms, NEW o \in OrgTypes, NEW a \in AuthTypes, LoggedIn(a), NEW r, r = Request(k, a.user, o, a)
    PROVE  RequestFits(r)' /\ ~OpenLogin(r) /\ r.what = k /\ r.who = a.user /\ r.pc = "sent" /\ r.as = cookie.access
           /\ r.head = HeadFirm(o, a)
  <1>1. a.user \in Tokens /\ a.user # Nobody /\ k # "login"
    BY NamesDiffer DEF AuthTypes, LoggedIn
  <1>2. r.what = k /\ r.who = a.user /\ r.pc = "sent" /\ r.as = cookie.access /\ r.head = HeadFirm(o, a)
    BY <1>1, RequestIs
  <1> QED
    BY <1>1, <1>2 DEF RequestFits, OpenLogin, Given, Open

(* After a step that ends or leaves requests, and makes new ones, the      *)
(* requests fit.                                                           *)
LEMMA RequestsAfter ==
    ASSUME WebTypes, RequestsFit, NEW s, OldRequests(s), NEW o \in OrgTypes, NEW a \in AuthTypes, NewRequests(s, o, a),
           UNCHANGED <<belongs, edition>>, cookie'.refresh = cookie.refresh,
           page'.path = page.path \/ \A j \in DOMAIN s : ~OpenLogin(s[j])
    PROVE  RequestsFit'
  <1>1. ASSUME NEW i \in DOMAIN sent', i \in DOMAIN s, NEW r, r = sent'[i]
        PROVE  RequestFits(r)' /\ (OpenLogin(r) => r = sent[i] /\ i \in DOMAIN sent)
    <2>1. r = s[i] /\ i \in DOMAIN sent
      BY <1>1 DEF NewRequests, OldRequests, WebTypes
    <2>2. CASE s[i] = sent[i]
      <3>1. RequestFits(sent[i])
        BY <2>1 DEF RequestsFit
      <3>2. OpenLogin(s[i]) => page'.path = page.path
        BY <1>1
      <3> QED
        BY <2>1, <2>2, <3>1, <3>2 DEF RequestFits, OpenLogin, Open, Given, Firm
    <2>3. CASE ~Open(s[i])
      BY <2>1, <2>3 DEF RequestFits, OpenLogin, Open, Given
    <2>4. CASE s[i].pc = "sent" /\ s[i].who = Nobody /\ s[i].what # "login"
      BY <2>1, <2>4 DEF RequestFits, OpenLogin, Open, Given
    <2> QED
      BY <2>2, <2>3, <2>4, <1>1 DEF OldRequests
  <1>2. ASSUME NEW i \in DOMAIN sent', i \notin DOMAIN s, NEW r, r = sent'[i] PROVE RequestFits(r)' /\ ~OpenLogin(r)
    <2>1. i > Len(s)
      BY <1>2 DEF NewRequests, OldRequests
    <2>2. LoggedIn(a) /\ \E k \in Keys \cup Forms : r = Request(k, a.user, o, a)
      BY <2>1, <1>2 DEF NewRequests
    <2> QED
      BY <2>2, NewFits
  <1>3. ASSUME NEW i \in DOMAIN sent' PROVE RequestFits(sent[i])'
    <2>1. PICK r : r = sent'[i]
      OBVIOUS
    <2>2. RequestFits(r)'
      BY <2>1, <1>1, <1>2
    <2> QED
      BY <2>1, <2>2 DEF RequestFits, OpenLogin, Open, Given, Firm
  <1>4. ASSUME NEW i \in DOMAIN sent', OpenLogin(sent'[i]) PROVE sent'[i] = sent[i] /\ i \in DOMAIN sent
    BY <1>1, <1>2, <1>4
  <1> QED
    BY <1>3, <1>4 DEF RequestsFit, OneLogin

(* After a refresh every line waits for a request of its own.              *)
LEMMA CacheAfter ==
    ASSUME WebTypes, NEW ks \in SUBSET Keys, NEW c \in [Keys -> CacheLine], NEW s \in Seq(WebRequests), NEW o \in OrgTypes,
           NEW a \in AuthTypes, NEW p, NewRequests(s, o, a), Refreshes(ks, c, s, o, a, p),
           \A k \in Keys : LineFits(k, c[k], s), edition' = edition
    PROVE  CacheFits'
  <1> SUFFICES ASSUME NEW k \in Keys PROVE LineFits(k, cache[k], sent)'
    BY DEF CacheFits
  <1>1. Renewed(k, ks, c, s, o, a, p, [cache |-> cache', sent |-> sent']) /\ LineFits(k, c[k], s)
    BY DEF Refreshes
  <1>2. cache'[k].due = c[k].due
    BY <1>1 DEF Renewed, LineKept
  <1>3. cache'[k].by # 0 => cache'[k].by \in DOMAIN sent' /\ Answers(k, sent'[cache'[k].by])
    <2>1. CASE Wanted(k, ks, c, a, p)
      <3>1. cache'[k].by \in (Len(s) + 1)..Len(sent') /\ sent'[cache'[k].by] = Request(k, a.user, o, a)
        BY <2>1, <1>1 DEF Renewed
      <3>2. LoggedIn(a)
        BY <2>1 DEF Wanted, Enabled
      <3>3. Answers(k, sent'[cache'[k].by])
        BY <3>1, <3>2, NewFits DEF Answers, Open, LoggedIn
      <3>4. Len(s) \in Nat /\ DOMAIN sent' = 1..Len(sent')
        BY DEF NewRequests
      <3> QED
        BY <3>1, <3>3, <3>4
    <2>2. CASE ~Wanted(k, ks, c, a, p) /\ cache'[k].by # 0
      <3>1. cache'[k].by = c[k].by
        BY <2>2, <1>1 DEF Renewed
      <3>2. c[k].by \in DOMAIN s /\ Answers(k, s[c[k].by])
        BY <2>2, <3>1, <1>1 DEF LineFits
      <3> QED
        BY <3>1, <3>2 DEF NewRequests
    <2> QED
      BY <2>1, <2>2
  <1>4. cache'[k].by # 0 /\ cache'[k].kept => cache'[k].stale
    <2>1. Wanted(k, ks, c, a, p) => ~cache'[k].kept
      BY <1>1 DEF Renewed
    <2>2. ~Wanted(k, ks, c, a, p) => cache'[k].by = c[k].by /\ cache'[k].kept = IF k \in ks THEN c[k].by # 0 ELSE c[k].kept
      BY <1>1 DEF Renewed
    <2>3. cache'[k].stale = (c[k].stale \/ k \in ks) /\ (c[k].by # 0 /\ c[k].kept => c[k].stale)
      BY <1>1 DEF Renewed, LineFits
    <2> QED
      BY <2>1, <2>2, <2>3
  <1> QED
    BY <1>1, <1>2, <1>3, <1>4 DEF LineFits, Answers, Open

(* What must have been so of a line that was not refreshed.                *)
Ready(k, l, s, h, u) == ~l.kept => Coming(k, l, s, h) /\ (l.known /\ ~l.stale => Current(k, l, h, u))

(* After a refresh, or a fetch of what is not fresh, the page fits if the  *)
(* lines not refreshed were ready.                                         *)
LEMMA PageAfter ==
    ASSUME WebTypes, WebTypes', SessionFits', NEW ks \in SUBSET Keys, NEW c \in [Keys -> CacheLine], NEW s \in Seq(WebRequests),
           NewRequests(s, org', auth'), Refreshes(ks, c, s, org', auth', page'), UNCHANGED <<belongs, cookie>>,
           \A k \in Keys : LineFits(k, c[k], s),
           Mine' => /\ cookie.access = auth.user'
                    /\ \A j \in DOMAIN s : OursFits(s[j], auth.user')
                    /\ \A k \in Screens \ ks : Ready(k, c[k], s, HeadFirm(org', auth'), auth.user')
    PROVE  PageFits'
  <1> SUFFICES ASSUME Mine'
               PROVE  /\ \A i \in DOMAIN sent' : OursFits(sent'[i], auth'.user)
                      /\ \A k \in Screens : ScreenFits(k, cache[k], sent, HeadFirm(org, auth), auth.user)'
    BY DEF PageFits
  <1>0. org' \in OrgTypes /\ auth' \in AuthTypes /\ LoggedIn(auth')
    BY DEF WebTypes, OrgTypes, AuthTypes, Mine, LoggedIn
  <1>1. HeadFirm(org, auth)' = HeadFirm(org', auth')
    BY DEF HeadFirm
  <1>2. ASSUME NEW i \in DOMAIN sent' PROVE OursFits(sent'[i], auth'.user)
    <2>1. CASE i \in DOMAIN s
      BY <2>1 DEF NewRequests
    <2>2. CASE i \notin DOMAIN s
      <3>1. i > Len(s)
        BY <2>2 DEF NewRequests
      <3>2. PICK k \in Keys \cup Forms : sent'[i] = Request(k, auth'.user, org', auth')
        BY <3>1 DEF NewRequests
      <3> QED
        BY <3>2, <1>0, NewFits DEF OursFits
    <2> QED
      BY <2>1, <2>2
  <1>3. ASSUME NEW k \in Screens PROVE ScreenFits(k, cache[k], sent, HeadFirm(org, auth), auth.user)'
    <2> DEFINE h == HeadFirm(org', auth')
    <2>0. k \in Keys /\ k # "organizations"
      BY NamesDiffer
    <2>1. Renewed(k, ks, c, s, org', auth', page', [cache |-> cache', sent |-> sent']) /\ LineFits(k, c[k], s)
      BY <2>0 DEF Refreshes
    <2> c[k] \in CacheLine /\ cache'[k] \in CacheLine /\ c[k].stale \in BOOLEAN /\ cache'[k].stale \in BOOLEAN
      BY <2>0 DEF Refreshes, CacheLine
    <2>2. page'.path = "app"
      BY <1>0 DEF SessionFits, LoggedIn
    <2>3. k \in OnScreen(page') <=> page'.shows = k
      BY <2>0, <2>2 DEF OnScreen
    <2>4. Enabled(k, auth')
      BY <2>0, <1>0 DEF Enabled
    <2>5. CASE Wanted(k, ks, c, auth', page')
      <3>1. cache'[k].by \in (Len(s) + 1)..Len(sent') /\ sent'[cache'[k].by] = Request(k, auth'.user, org', auth')
        BY <2>5, <2>1 DEF Renewed
      <3>2. sent'[cache'[k].by].head = h /\ sent'[cache'[k].by].pc = "sent"
        BY <3>1, <1>0, <2>0, NewFits
      <3>3. cache'[k].by # 0
        BY <3>1 DEF NewRequests
      <3>4. k \notin ks => cache'[k].known = c[k].known /\ cache'[k].stale = c[k].stale /\ cache'[k].of = c[k].of /\ cache'[k].firm = c[k].firm
                        /\ cache'[k].ver = c[k].ver /\ cache'[k].due = c[k].due
        BY <2>1 DEF Renewed, LineKept
      <3>5. k \in ks => cache'[k].stale
        BY <2>1 DEF Renewed
      <3>6. Coming(k, cache'[k], sent', h)
        BY <3>2 DEF Coming, Given
      <3>7. cache'[k].known /\ ~cache'[k].stale => Current(k, cache'[k], h, auth'.user)
        BY <3>4, <3>5, <2>5 DEF Wanted
      <3> QED
        BY <1>1, <3>3, <3>6, <3>7 DEF ScreenFits, Coming, Current, Covers, Given
    <2>6. CASE ~Wanted(k, ks, c, auth', page') /\ k \in ks
      <3>1. cache'[k].stale /\ cache'[k].by = c[k].by /\ (~cache'[k].kept => c[k].by = 0)
        BY <2>6, <2>1 DEF Renewed
      <3>2. c[k].by = 0 => page'.shows # k
        BY <2>6, <2>3, <2>4 DEF Wanted
      <3> QED
        BY <3>1, <3>2 DEF ScreenFits, Coming
    <2>7. CASE ~Wanted(k, ks, c, auth', page') /\ k \notin ks
      <3>1. Ready(k, c[k], s, h, auth'.user)
        BY <2>7
      <3>2. cache'[k].by = c[k].by /\ cache'[k].known = c[k].known /\ cache'[k].stale = c[k].stale /\ cache'[k].of = c[k].of
            /\ cache'[k].firm = c[k].firm /\ cache'[k].ver = c[k].ver /\ cache'[k].due = c[k].due /\ cache'[k].kept = c[k].kept
        BY <2>7, <2>1 DEF Renewed, LineKept
      <3>3. page'.shows = k /\ cache'[k].by = 0 /\ cache'[k].known => ~cache'[k].stale
        BY <2>7, <3>2, <2>3, <2>4 DEF Wanted
      <3>4. cache'[k].by # 0 => sent'[cache'[k].by] = s[cache'[k].by]
        BY <3>2, <2>1 DEF LineFits, NewRequests
      <3>5. ~cache'[k].kept => Coming(k, cache'[k], sent', h)
        BY <3>1, <3>2, <3>4 DEF Ready, Coming
      <3>6. ~cache'[k].kept /\ cache'[k].known /\ ~cache'[k].stale => Current(k, cache'[k], h, auth'.user)
        BY <3>1, <3>2 DEF Ready, Current
      <3> QED
        BY <1>1, <3>3, <3>5, <3>6 DEF ScreenFits, Coming, Current, Covers, Given
    <2> QED
      BY <2>5, <2>6, <2>7
  <1> QED
    BY <1>2, <1>3

(* A step that leaves no form open, and makes requests for queries only,   *)
(* keeps the forms.                                                        *)
LEMMA FormsAfter ==
    ASSUME WebTypes, FormsFit, UNCHANGED <<calm, astray>>, NEW s \in Seq(WebRequests), NEW o \in OrgTypes, NEW a \in AuthTypes,
           NewRequests(s, o, a), \A j \in DOMAIN sent' : j > Len(s) => \E k \in Keys : sent'[j] = Request(k, a.user, o, a),
           calm => \A j \in DOMAIN s : s[j].what \in Forms => ~Open(s[j])
    PROVE  FormsFit'
  <1> SUFFICES ASSUME calm, NEW i \in DOMAIN sent' PROVE sent'[i].what \in Forms => ~Open(sent'[i])
    BY DEF FormsFit, FormFits, Open
  <1>1. CASE i \in DOMAIN s
    BY <1>1 DEF NewRequests
  <1>2. CASE i \notin DOMAIN s
    <2>1. i > Len(s)
      BY <1>2 DEF NewRequests
    <2>2. LoggedIn(a) /\ \E k \in Keys : sent'[i] = Request(k, a.user, o, a)
      BY <2>1 DEF NewRequests
    <2>3. sent'[i].what \in Keys
      BY <2>2, NewFits
    <2> QED
      BY <2>3, NamesDiffer
  <1> QED
    BY <1>1, <1>2

-----------------------------------------------------------------------------
(* A step changes one request, r being what it becomes.                    *)
Changes(i, r) ==
    /\ r \in WebRequests /\ sent' \in Seq(WebRequests) /\ DOMAIN sent' = DOMAIN sent /\ sent'[i] = r
    /\ \A j \in DOMAIN sent : j # i => sent'[j] = sent[j]

(* An update of one request changes that one.                              *)
LEMMA ChangesIs ==
    ASSUME WebTypes, NEW i \in DOMAIN sent, NEW r \in WebRequests, sent' = [sent EXCEPT ![i] = r]
    PROVE  Changes(i, r)
    BY DEF WebTypes, Changes

(* A step that changes one request, and no line of the cache, keeps        *)
(* requests and cache.                                                     *)
LEMMA OneChanged ==
    ASSUME WebTypes, RequestsFit, CacheFits, NEW i \in DOMAIN sent, NEW r, Changes(i, r),
           ~Open(r) \/ (r.what = sent[i].what /\ r.who = sent[i].who), Open(sent[i]), RequestFits(r)',
           UNCHANGED <<belongs, page, cache>>, \A f \in Firms, m \in Forms : edition'[f][m] >= edition[f][m],
           \A f \in Firms, m \in Forms : edition'[f][m] \in Nat,
           cookie'.refresh = cookie.refresh \/ OpenLogin(sent[i]), ~Open(r) => sent[i].who = Nobody
    PROVE  sent' \in Seq(WebRequests) /\ RequestsFit' /\ CacheFits'
  <1>1. sent' \in Seq(WebRequests) /\ DOMAIN sent' = DOMAIN sent /\ sent'[i] = r /\ \A j \in DOMAIN sent : j # i => sent'[j] = sent[j]
    BY DEF WebTypes, Changes
  <1>2. ASSUME NEW j \in DOMAIN sent', j # i PROVE RequestFits(sent[j])'
    <2>1. sent'[j] = sent[j] /\ RequestFits(sent[j]) /\ sent[j] \in WebRequests
      BY <1>1, <1>2 DEF RequestsFit, WebTypes
    <2>2. OpenLogin(sent[j]) => cookie'.refresh = cookie.refresh
      BY <1>1, <1>2 DEF RequestsFit, OneLogin
    <2>3. Firm(sent[j])' = Firm(sent[j])
      BY <2>1 DEF Firm
    <2>4. Given(sent[j]) /\ sent[j].what # "login" =>
              Firm(sent[j]) \in Firms /\ \A m \in Forms : sent[j].got[m] <= edition'[Firm(sent[j])][m]
      <3> SUFFICES ASSUME Given(sent[j]), sent[j].what # "login", NEW m \in Forms
                   PROVE  Firm(sent[j]) \in Firms /\ sent[j].got[m] <= edition'[Firm(sent[j])][m]
        BY <2>1 DEF RequestFits
      <3>1. Firm(sent[j]) \in Firms /\ sent[j].got[m] <= edition[Firm(sent[j])][m]
        BY <2>1 DEF RequestFits
      <3>2. edition'[Firm(sent[j])][m] >= edition[Firm(sent[j])][m] /\ sent[j].got[m] \in Nat /\ edition[Firm(sent[j])][m] \in Nat
            /\ edition'[Firm(sent[j])][m] \in Nat
        BY <3>1, <2>1 DEF WebRequests, WebTypes
      <3> QED
        BY <3>1, <3>2
    <2> QED
      BY <2>1, <2>2, <2>3, <2>4 DEF RequestFits, OpenLogin, Open, Given
  <1>3. RequestFits(sent[i])'
    BY <1>1 DEF RequestFits, OpenLogin, Open, Given, Firm
  <1>4. OneLogin'
    BY <1>1 DEF RequestsFit, OneLogin, OpenLogin, Open
  <1>5. ASSUME NEW k \in Keys PROVE LineFits(k, cache[k], sent)'
    <2>1. LineFits(k, cache[k], sent) /\ cache[k] \in CacheLine
      BY DEF CacheFits, WebTypes
    <2>2. cache[k].by # 0 => cache[k].by \in DOMAIN sent' /\ Answers(k, sent'[cache[k].by])
      BY <2>1, <1>1 DEF LineFits, Answers, Open
    <2>3. ASSUME NEW f \in Firms, NEW m \in Forms PROVE cache[k].due[f][m] <= edition'[f][m]
      <3>1. cache[k].due[f][m] <= edition[f][m] /\ cache[k].due[f][m] \in Nat /\ edition[f][m] \in Nat
        BY <2>1 DEF LineFits, CacheLine, WebTypes
      <3> QED
        BY <3>1
    <2> QED
      BY <2>1, <2>2, <2>3 DEF LineFits, Answers, Open
  <1> QED
    BY <1>1, <1>2, <1>3, <1>4, <1>5 DEF RequestsFit, CacheFits

(* It keeps the page, if what it makes of the request would answer the     *)
(* line that waits for it.                                                 *)
LEMMA PageChanged ==
    ASSUME WebTypes, RequestsFit, CacheFits, PageFits, NEW i \in DOMAIN sent, NEW r, Changes(i, r),
           Mine' => Mine /\ cookie'.access = auth.user, UNCHANGED <<again, org, belongs, cache, page>>, auth'.user = auth.user,
           Mine' => OursFits(r, auth.user),
           Mine' => \A k \in Screens : cache[k].by = i /\ ~cache[k].kept =>
               r.head = HeadFirm(org, auth) /\ (Given(r) => Covers(k, r.got, cache[k].due[HeadFirm(org, auth)]))
    PROVE  PageFits'
  <1> SUFFICES ASSUME Mine'
               PROVE  /\ \A j \in DOMAIN sent' : OursFits(sent'[j], auth'.user)
                      /\ \A k \in Screens : ScreenFits(k, cache[k], sent, HeadFirm(org, auth), auth.user)'
    BY DEF PageFits
  <1>1. DOMAIN sent' = DOMAIN sent /\ sent'[i] = r /\ \A j \in DOMAIN sent : j # i => sent'[j] = sent[j]
    BY DEF WebTypes, Changes
  <1>2. HeadFirm(org, auth)' = HeadFirm(org, auth)
    BY DEF HeadFirm
  <1>3. \A j \in DOMAIN sent' : OursFits(sent'[j], auth'.user)
    BY <1>1 DEF PageFits
  <1>4. ASSUME NEW k \in Screens PROVE ScreenFits(k, cache[k], sent, HeadFirm(org, auth), auth.user)'
    <2>1. ScreenFits(k, cache[k], sent, HeadFirm(org, auth), auth.user)
      BY DEF PageFits
    <2>2. k \in Keys
      BY NamesDiffer
    <2>3. ~cache[k].kept => Coming(k, cache[k], sent', HeadFirm(org, auth))
      <3>1. cache[k].by # 0 => cache[k].by \in DOMAIN sent
        BY <2>2 DEF CacheFits, LineFits
      <3>2. CASE cache[k].by = i
        BY <3>2, <1>1 DEF Coming
      <3>3. CASE cache[k].by # i
        BY <3>1, <3>3, <1>1, <2>1 DEF Coming, ScreenFits
      <3> QED
        BY <3>2, <3>3
    <2> QED
      BY <2>1, <2>3, <1>2 DEF ScreenFits, Coming, Current, Covers, Given
  <1> QED
    BY <1>3, <1>4

(* It keeps the forms, if it leaves the header as it was meant.            *)
LEMMA FormsChanged ==
    ASSUME WebTypes, FormsFit, NEW i \in DOMAIN sent, NEW r, Changes(i, r), UNCHANGED <<calm, belongs, page, org>>,
           Open(sent[i]), ~Open(r) \/ (r.what = sent[i].what /\ r.who = sent[i].who /\ r.meant = sent[i].meant),
           calm /\ r.what \in Forms /\ Open(r) => r.head = r.meant, calm => ~astray'
    PROVE  FormsFit'
  <1> SUFFICES ASSUME calm, NEW j \in DOMAIN sent', Open(sent'[j]), sent'[j].what \in Forms PROVE FormFits(j)'
    BY DEF FormsFit, FormFits, Open
  <1>1. DOMAIN sent' = DOMAIN sent /\ sent'[i] = r /\ \A x \in DOMAIN sent : x # i => sent'[x] = sent[x]
    BY DEF WebTypes, Changes
  <1>2. j = i
    <2> SUFFICES ASSUME j # i PROVE FALSE
      OBVIOUS
    <2>1. FormFits(j) /\ sent'[j] = sent[j]
      BY <1>1 DEF FormsFit
    <2> QED
      BY <2>1, <1>1 DEF FormFits
  <1>3. FormFits(i) /\ sent[i].what \in Forms
    BY <1>1, <1>2 DEF FormsFit
  <1> QED
    BY <1>1, <1>2, <1>3 DEF FormFits, Open

-----------------------------------------------------------------------------
(* The invariant holds of a first visit and of a page loaded with the      *)
(* session of an earlier login.                                            *)
LEMMA WebInitFits == WebInit => WebInv
  <1> SUFFICES ASSUME WebInit PROVE WebInv
    OBVIOUS
  <1>1. /\ belongs \in [People -> Seq(Firms) \ {<<>>}] /\ edition \in [Firms -> [Forms -> Nat]] /\ astray = FALSE /\ again = FALSE
        /\ \A f \in Firms, m \in Forms : edition[f][m] = 0
    <2>1. edition = [f \in Firms |-> [m \in Forms |-> 0]] /\ astray = FALSE /\ again = FALSE
      BY DEF WebInit
    <2>2. belongs \in [People -> {<<f>> : f \in Firms} \cup {<<f, g>> : f, g \in Firms}]
      BY DEF WebInit
    <2>3. ASSUME NEW u \in People PROVE belongs[u] \in Seq(Firms) \ {<<>>}
      <3>1. (\E f \in Firms : belongs[u] = <<f>>) \/ (\E f, g \in Firms : belongs[u] = <<f, g>>)
        BY <2>2
      <3>2. \A f, g \in Firms : <<f>> \in Seq(Firms) \ {<<>>} /\ <<f, g>> \in Seq(Firms) \ {<<>>}
        OBVIOUS
      <3> QED
        BY <3>1, <3>2
    <2> QED
      BY <2>1, <2>2, <2>3
  <1>2. Blank \in CacheLine /\ Blank.by = 0 /\ ~Blank.known /\ \A f \in Firms, m \in Forms : Blank.due[f][m] = 0
    BY DEF Blank, CacheLine, Heads, Tokens
  <1>3. CASE FirstVisit
    <2>1. WebTypes
      <3>1. cache \in [Keys -> CacheLine] /\ sent \in Seq(WebRequests)
        BY <1>2, <1>3 DEF FirstVisit
      <3>2. /\ auth \in [user : Tokens, access : Tokens, ready : BOOLEAN] /\ org \in [chosen : Heads, known : Seq(Firms)]
            /\ cookie \in [refresh : Tokens, access : Tokens, live : BOOLEAN]
            /\ page \in [path : {"login", "select", "app"}, shows : Screens \cup {"none"}]
        <4>1. auth = [user |-> Nobody, access |-> Nobody, ready |-> TRUE] /\ page = [path |-> "login", shows |-> "none"]
              /\ org = [chosen |-> NoFirm, known |-> <<>>] /\ cookie = [refresh |-> Nobody, access |-> Nobody, live |-> FALSE]
          BY <1>3 DEF FirstVisit, NoAuth
        <4>2. <<>> \in Seq(Firms)
          OBVIOUS
        <4> QED
          BY <4>1, <4>2 DEF Tokens, Heads
      <3> QED
        BY <1>1, <3>1, <3>2 DEF WebTypes
    <2>2. SessionFits /\ RequestsFit /\ FormsFit /\ PageFits
      BY <1>1, <1>3 DEF SessionFits, RequestsFit, OneLogin, FormsFit, PageFits, FirstVisit, NoAuth, Mine, LoggedIn
    <2>3. CacheFits
      BY <1>1, <1>2, <1>3 DEF CacheFits, FirstVisit, LineFits
    <2> QED
      BY <2>1, <2>2, <2>3 DEF WebInv
  <1>4. ASSUME NEW u \in People, SessionKept(u) PROVE WebInv
    <2> DEFINE r == Request("organizations", u, org, auth)
               b == [Blank EXCEPT !.by = 1]
    <2>1. belongs[u] \in Seq(Firms) /\ belongs[u][1] \in Firms
      BY <1>1
    <2>2. b \in CacheLine /\ b.by = 1 /\ ~b.known /\ ~b.kept /\ b.due = Blank.due
      BY DEF Blank, CacheLine, Heads, Tokens
    <2>3. auth \in AuthTypes /\ org \in OrgTypes /\ cookie \in [refresh : Tokens, access : Tokens, live : BOOLEAN] /\ page \in Pages
          /\ cache \in [Keys -> CacheLine]
      BY <1>2, <1>4, <2>1, <2>2 DEF SessionKept, AuthTypes, OrgTypes, Pages, Tokens, Heads
    <2>4. HeadFirm(org, auth) \in Heads
      BY <1>1, <1>4, <2>1 DEF HeadFirm, SessionKept, Heads
    <2>5. /\ r \in WebRequests /\ r.what = "organizations" /\ r.who = u /\ r.pc = "sent" /\ r.as = cookie.access
      <3>1. (auth.user # Nobody /\ auth.access # Nobody) \in BOOLEAN /\ <<>> \in Seq(Firms) /\ [m \in Forms |-> 0] \in [Forms -> Nat]
            /\ u \in Tokens /\ cookie.access \in Tokens /\ cookie.live \in BOOLEAN /\ "organizations" \in Keys
        BY <2>3 DEF Tokens, Keys
      <3> QED
        BY <2>4, <3>1 DEF Request, WebRequests
    <2> HIDE DEF r, b
    <2>6. sent = <<r>> /\ cache = [k \in Keys |-> IF k = "organizations" THEN b ELSE Blank]
      BY <1>4 DEF SessionKept, r, b
    <2>7. DOMAIN sent = {1} /\ sent[1] = r
      BY <2>6
    <2>8. WebTypes
      <3>1. sent \in Seq(WebRequests)
        BY <2>5, <2>6
      <3> QED
        BY <3>1, <1>1, <2>3, <2>5, <2>6 DEF WebTypes, AuthTypes, OrgTypes, Pages
    <2>9. u # Nobody
      BY WebNames
    <2>10. SessionFits
      BY <1>4, <2>9 DEF SessionFits, SessionKept
    <2>11. RequestFits(sent[1]) /\ ~OpenLogin(sent[1]) /\ OursFits(sent[1], auth.user) /\ cookie.access = auth.user
      BY <1>4, <2>5, <2>7, <2>9 DEF RequestFits, OpenLogin, Given, Open, OursFits, SessionKept
    <2>12. RequestsFit
      BY <2>7, <2>11 DEF RequestsFit, OneLogin
    <2>13. CacheFits
      <3> SUFFICES ASSUME NEW k \in Keys PROVE LineFits(k, cache[k], sent)
        BY DEF CacheFits
      <3> QED
        BY <1>1, <1>2, <2>2, <2>5, <2>6, <2>7, <2>9 DEF LineFits, Answers, Open
    <2>14. PageFits
      <3> SUFFICES ASSUME NEW k \in Screens PROVE ScreenFits(k, cache[k], sent, HeadFirm(org, auth), auth.user)
        BY <2>7, <2>11 DEF PageFits
      <3>1. cache[k] = Blank
        BY <2>6, NamesDiffer
      <3> QED
        BY <3>1, <1>2 DEF ScreenFits, Coming
    <2>15. FormsFit
      BY <1>1, <2>5, <2>7, NamesDiffer DEF FormsFit, FormFits
    <2> QED
      BY <2>8, <2>10, <2>12, <2>13, <2>14, <2>15 DEF WebInv
  <1> QED
    BY <1>3, <1>4 DEF WebInit

-----------------------------------------------------------------------------
(* The types of the variables, for citing.                                 *)
LEMMA TypesGive ==
    ASSUME WebTypes
    PROVE  /\ org \in OrgTypes /\ auth \in AuthTypes /\ page \in Pages /\ cache \in [Keys -> CacheLine] /\ sent \in Seq(WebRequests)
           /\ DOMAIN sent = 1..Len(sent) /\ \A k \in Screens : k \in Keys
    BY NamesDiffer DEF WebTypes, OrgTypes, AuthTypes, Pages

(* What a page that knows nobody shows is nobody's.                        *)
LEMMA NobodysPage == ASSUME auth'.user = Nobody PROVE PageFits'
    BY DEF PageFits, Mine, LoggedIn

(* On the pages nobody is logging in.                                      *)
LEMMA NoLogins == ASSUME RequestsFit, page.path # "login" PROVE \A j \in DOMAIN sent : ~OpenLogin(sent[j])
    BY DEF RequestsFit, RequestFits

(* In calm weather the user has waited for every answer.                   *)
LEMMA NothingOpen == ASSUME calm, Unhurried PROVE \A j \in DOMAIN sent : ~Open(sent[j])
    BY DEF Unhurried, UnderWay, Open

(* Nothing is asked for.                                                   *)
LEMMA NoneNew == ASSUME WebTypes, UNCHANGED sent, NEW o, NEW a PROVE OldRequests(sent) /\ NewRequests(sent, o, a)
    BY DEF WebTypes, OldRequests, NewRequests

(* Logging out: nobody is left to see the page.                            *)
LEMMA LogOutKeeps == ASSUME WebInv, LogOut, UNCHANGED calm PROVE WebInv'
  <1> USE DEF LogOut, WebInv
  <1>1. WebTypes' /\ SessionFits'
    BY DEF WebTypes, SessionFits, NoAuth, Tokens
  <1>2. RequestsFit'
    BY NoneNew, NoLogins, TypesGive, RequestsAfter
  <1>3. CacheFits'
    BY DEF CacheFits, LineFits, Answers, Open
  <1>4. PageFits'
    BY NobodysPage DEF NoAuth
  <1>5. FormsFit'
    BY NothingOpen DEF FormsFit, FormFits, Open
  <1> QED
    BY <1>1, <1>2, <1>3, <1>4, <1>5

(* Asking to log in: the login page knows nobody, and has no other login   *)
(* under way.                                                              *)
LEMMA SubmitKeeps == ASSUME WebInv, NEW u \in People, Submit(u), UNCHANGED calm PROVE WebInv'
  <1> USE DEF Submit, WebInv
  <1> DEFINE r == Request("login", u, org, auth)
  <1>1. auth.user = Nobody /\ u \in Tokens /\ u # Nobody
    BY WebNames DEF SessionFits, Tokens
  <1>2. r \in WebRequests /\ r.what = "login" /\ r.who = u /\ r.pc = "sent" /\ ~r.armed
    BY <1>1, RequestIs, TypesGive
  <1> HIDE DEF r
  <1>3. /\ sent' \in Seq(WebRequests) /\ DOMAIN sent' = 1..(Len(sent) + 1) /\ sent'[Len(sent) + 1] = r
        /\ \A j \in DOMAIN sent : sent'[j] = sent[j]
    BY <1>2, TypesGive DEF r
  <1>4. \A j \in DOMAIN sent' : j \in DOMAIN sent \/ j = Len(sent) + 1
    BY <1>3, TypesGive
  <1>5. WebTypes' /\ SessionFits'
    BY <1>3 DEF WebTypes, SessionFits
  <1>6. \A j \in DOMAIN sent : ~OpenLogin(sent[j])
    BY DEF OpenLogin, Open
  <1>7. RequestsFit'
    <2>1. ASSUME NEW j \in DOMAIN sent PROVE RequestFits(sent[j])'
      BY <1>3 DEF RequestsFit, RequestFits, OpenLogin, Open, Given, Firm
    <2>2. ASSUME NEW j \in DOMAIN sent', j = Len(sent) + 1 PROVE RequestFits(sent[j])'
      <3>1. sent'[j] = r
        BY <1>3, <2>2
      <3> QED
        BY <1>1, <1>2, <3>1 DEF RequestFits, OpenLogin, Open, Given
    <2>3. OneLogin'
      BY <1>3, <1>4, <1>6 DEF OneLogin, OpenLogin, Open
    <2> QED
      BY <1>4, <2>1, <2>2, <2>3 DEF RequestsFit
  <1>8. CacheFits'
    BY <1>3, <1>4, TypesGive DEF CacheFits, LineFits, Answers, Open
  <1>9. PageFits'
    BY <1>1, NobodysPage
  <1>10. FormsFit'
    <2>1. calm => \A j \in DOMAIN sent : sent[j].what \in Forms => ~Open(sent[j])
      BY DEF FormsFit, FormFits
    <2>2. calm => \A j \in DOMAIN sent' : sent'[j].what \in Forms => ~Open(sent'[j])
      BY <1>2, <1>3, <1>4, <2>1, NamesDiffer
    <2> QED
      BY <2>2 DEF FormsFit, FormFits, Open
  <1> QED
    BY <1>5, <1>7, <1>8, <1>9, <1>10

(* Visiting a page asks for what it shows unless that is fresh; without a  *)
(* session it is the login page.                                           *)
LEMMA VisitKeeps == ASSUME WebInv, Visit, UNCHANGED calm PROVE WebInv'
  <1> USE DEF WebInv
  <1>0. page.path = "app" /\ UNCHANGED <<auth, org, cookie, belongs, edition, astray, again>> /\ Unhurried
    BY DEF Visit, PagesShown
  <1>1. CASE LoggedIn(auth)
    <2>1. PICK k \in Screens : /\ page' = [page EXCEPT !.shows = k]
                               /\ Becomes(Refresh({}, [cache EXCEPT ![k].tries = 0], sent, org, auth, page'))
      BY <1>1 DEF Visit
    <2> DEFINE c == [cache EXCEPT ![k].tries = 0]
    <2>2. page' \in Pages /\ page'.path = "app"
      BY <1>0, <2>1, TypesGive DEF Pages
    <2>3. c \in [Keys -> CacheLine]
          /\ \A x \in Keys : LineKept(cache[x], c[x]) /\ c[x].by = cache[x].by /\ c[x].stale = cache[x].stale /\ c[x].kept = cache[x].kept
      <3>1. cache[k] \in CacheLine
        BY TypesGive
      <3>2. [cache[k] EXCEPT !.tries = 0] \in CacheLine
        BY <3>1 DEF CacheLine
      <3>3. c = [cache EXCEPT ![k] = [cache[k] EXCEPT !.tries = 0]]
        BY TypesGive DEF c
      <3> QED
        BY <3>1, <3>2, <3>3, TypesGive DEF LineKept, CacheLine
    <2> HIDE DEF c
    <2>4. NewRequests(sent, org, auth) /\ Refreshes({}, c, sent, org, auth, page')
      BY <2>1, <2>2, <2>3, TypesGive, RefreshesIs DEF c
    <2>5. WebTypes' /\ SessionFits'
      BY <1>0, <2>2, <2>4 DEF WebTypes, SessionFits, NewRequests, Refreshes, Pages
    <2>6. RequestsFit'
      <3>1. OldRequests(sent)
        BY DEF OldRequests, WebTypes
      <3> QED
        BY <1>0, <2>2, <2>4, <3>1, TypesGive, RequestsAfter
    <2>7. \A x \in Keys : LineFits(x, c[x], sent)
      BY <2>3 DEF CacheFits, LineFits, LineKept
    <2>8. CacheFits'
      BY <1>0, <2>3, <2>4, <2>7, TypesGive, CacheAfter
    <2>9. PageFits'
      <3>1. Mine' => /\ cookie.access = auth.user
                     /\ \A j \in DOMAIN sent : OursFits(sent[j], auth.user)
                     /\ \A x \in Screens : Ready(x, c[x], sent, HeadFirm(org, auth), auth.user)
        <4> SUFFICES ASSUME Mine' PROVE /\ cookie.access = auth.user
                                        /\ \A j \in DOMAIN sent : OursFits(sent[j], auth.user)
                                        /\ \A x \in Screens : Ready(x, c[x], sent, HeadFirm(org, auth), auth.user)
          OBVIOUS
        <4>1. Mine
          BY <1>0 DEF Mine, LoggedIn
        <4>2. ASSUME NEW x \in Screens PROVE Ready(x, c[x], sent, HeadFirm(org, auth), auth.user)
          <5>1. ScreenFits(x, cache[x], sent, HeadFirm(org, auth), auth.user)
            BY <4>1 DEF PageFits
          <5>2. LineKept(cache[x], c[x]) /\ c[x].by = cache[x].by /\ c[x].stale = cache[x].stale /\ c[x].kept = cache[x].kept
            BY <2>3, TypesGive
          <5> QED
            BY <5>1, <5>2 DEF Ready, ScreenFits, Coming, Current, LineKept
        <4> QED
          BY <4>1, <4>2 DEF PageFits
      <3>2. org' = org /\ auth' = auth /\ UNCHANGED <<belongs, cookie>>
        BY <1>0
      <3>3. NewRequests(sent, org', auth') /\ Refreshes({}, c, sent, org', auth', page')
        BY <3>2, <2>4
      <3> QED
        BY <3>1, <3>2, <3>3, <2>3, <2>5, <2>7, TypesGive, PageAfter
    <2>10. FormsFit'
      <3>1. calm => \A j \in DOMAIN sent : sent[j].what \in Forms => ~Open(sent[j])
        BY <1>0, NothingOpen
      <3>2. \A j \in DOMAIN sent' : j > Len(sent) => \E x \in Keys : sent'[j] = Request(x, auth.user, org, auth)
        BY <2>4 DEF Refreshes
      <3> QED
        BY <1>0, <2>4, <3>1, <3>2, TypesGive, FormsAfter
    <2> QED
      BY <2>5, <2>6, <2>8, <2>9, <2>10
  <1>2. CASE ~LoggedIn(auth)
    <2>1. page' = [path |-> "login", shows |-> "none"] /\ UNCHANGED <<cache, sent>>
      BY <1>2 DEF Visit
    <2>2. auth.user = Nobody
      BY <1>2 DEF LoggedIn, SessionFits
    <2>3. WebTypes' /\ SessionFits'
      BY <1>0, <2>1, <2>2 DEF WebTypes, SessionFits
    <2>4. RequestsFit'
      BY <1>0, <2>1, NoneNew, NoLogins, TypesGive, RequestsAfter
    <2>5. CacheFits'
      BY <1>0, <2>1 DEF CacheFits, LineFits, Answers, Open
    <2>6. PageFits'
      BY <1>0, <2>2, NobodysPage
    <2>7. FormsFit'
      BY <1>0, <2>1, NothingOpen DEF FormsFit, FormFits, Open
    <2> QED
      BY <2>3, <2>4, <2>5, <2>6, <2>7
  <1> QED
    BY <1>1, <1>2

(* Changing organization refreshes every query.                            *)
LEMMA SwitchKeeps == ASSUME WebInv, SwitchOrganization, UNCHANGED calm PROVE WebInv'
  <1> USE DEF WebInv
  <1>0. page.path = "app" /\ UNCHANGED <<auth, cookie, page, belongs, edition, astray, again>> /\ Unhurried /\ LoggedIn(auth)
    BY DEF SwitchOrganization, PagesShown
  <1>1. PICK f \in Firms : org' = [org EXCEPT !.chosen = f] /\ Becomes(Refresh(Keys, cache, sent, org', auth, page))
    <2>1. PICK n \in DOMAIN org.known : org' = [org EXCEPT !.chosen = org.known[n]] /\ Becomes(RefreshOnSwitch(org.known[n]))
      BY DEF SwitchOrganization
    <2>2. org.known[n] \in Firms
      BY <2>1 DEF WebTypes
    <2> QED
      BY <2>1, <2>2 DEF RefreshOnSwitch
  <1>2. org' \in OrgTypes
    BY <1>1, TypesGive DEF OrgTypes, Heads
  <1>3. NewRequests(sent, org', auth) /\ Refreshes(Keys, cache, sent, org', auth, page)
    BY <1>1, <1>2, TypesGive, RefreshesIs
  <1>4. WebTypes' /\ SessionFits'
    BY <1>0, <1>2, <1>3 DEF WebTypes, SessionFits, NewRequests, Refreshes, OrgTypes
  <1>5. RequestsFit'
    <2>1. OldRequests(sent)
      BY DEF OldRequests, WebTypes
    <2> QED
      BY <1>0, <1>2, <1>3, <2>1, TypesGive, RequestsAfter
  <1>6. \A x \in Keys : LineFits(x, cache[x], sent)
    BY DEF CacheFits
  <1>7. CacheFits'
    BY <1>0, <1>2, <1>3, <1>6, TypesGive, CacheAfter
  <1>8. PageFits'
    <2>1. NewRequests(sent, org', auth') /\ Refreshes(Keys, cache, sent, org', auth', page')
      BY <1>0, <1>3
    <2>2. Mine' => cookie.access = auth.user' /\ \A j \in DOMAIN sent : OursFits(sent[j], auth.user')
      BY <1>0 DEF PageFits, Mine, LoggedIn
    <2>3. Screens \ Keys = {}
      BY TypesGive
    <2> QED
      BY <1>0, <1>4, <1>6, <2>1, <2>2, <2>3, TypesGive, PageAfter
  <1>9. FormsFit'
    <2>1. calm => \A j \in DOMAIN sent : sent[j].what \in Forms => ~Open(sent[j])
      BY <1>0, NothingOpen
    <2>2. \A j \in DOMAIN sent' : j > Len(sent) => \E x \in Keys : sent'[j] = Request(x, auth.user, org', auth)
      BY <1>3 DEF Refreshes
    <2> QED
      BY <1>0, <1>2, <1>3, <2>1, <2>2, TypesGive, FormsAfter
  <1> QED
    BY <1>4, <1>5, <1>7, <1>8, <1>9

(* Sending a form: it names the organization shown, and in calm weather it *)
(* is alone.                                                               *)
LEMMA SubmitFormKeeps == ASSUME WebInv, SubmitForm, UNCHANGED calm PROVE WebInv'
  <1> USE DEF WebInv
  <1>0. page.path = "app" /\ UNCHANGED <<auth, org, cookie, page, cache, belongs, edition, astray, again>> /\ Unhurried /\ LoggedIn(auth)
    BY DEF SubmitForm, PagesShown
  <1>1. PICK m \in Forms : sent' = Append(sent, Request(m, auth.user, org, auth))
    BY DEF SubmitForm
  <1> DEFINE r == Request(m, auth.user, org, auth)
  <1>2. auth.user \in People
    BY <1>0, TypesGive DEF LoggedIn, AuthTypes, Tokens
  <1>3. r \in WebRequests /\ r.what = m /\ r.who = auth.user /\ r.pc = "sent" /\ r.as = cookie.access /\ r.head = HeadFirm(org, auth)
        /\ r.meant = HeadFirm(org, auth)
    BY <1>2, TypesGive, RequestIs DEF Tokens
  <1> HIDE DEF r
  <1>4. /\ sent' \in Seq(WebRequests) /\ DOMAIN sent' = 1..(Len(sent) + 1) /\ Len(sent') = Len(sent) + 1 /\ sent'[Len(sent) + 1] = r
        /\ \A j \in DOMAIN sent : sent'[j] = sent[j]
    BY <1>1, <1>3, TypesGive DEF r
  <1>5. \A j \in DOMAIN sent' : j \in DOMAIN sent \/ j = Len(sent) + 1
    BY <1>4, TypesGive
  <1>6. NewRequests(sent, org, auth)
    BY <1>0, <1>4, <1>5, TypesGive DEF NewRequests, r
  <1>7. WebTypes' /\ SessionFits'
    BY <1>0, <1>4 DEF WebTypes, SessionFits
  <1>8. RequestsFit'
    <2>1. OldRequests(sent)
      BY DEF OldRequests, WebTypes
    <2> QED
      BY <1>0, <1>6, <2>1, TypesGive, RequestsAfter
  <1>9. CacheFits'
    BY <1>0, <1>4, TypesGive DEF CacheFits, LineFits, Answers, Open
  <1>10. PageFits'
    <2> SUFFICES ASSUME Mine'
                 PROVE  /\ cookie.access = auth.user /\ \A i \in DOMAIN sent' : OursFits(sent'[i], auth.user)
                        /\ \A k \in Screens : ScreenFits(k, cache[k], sent, HeadFirm(org, auth), auth.user)'
      BY <1>0 DEF PageFits
    <2>1. Mine
      BY <1>0 DEF Mine, LoggedIn
    <2>2. cookie.access = auth.user /\ \A i \in DOMAIN sent : OursFits(sent[i], auth.user)
      BY <2>1 DEF PageFits
    <2>3. \A i \in DOMAIN sent' : OursFits(sent'[i], auth.user)
      BY <1>3, <1>4, <1>5, <2>2 DEF OursFits
    <2>4. ASSUME NEW k \in Screens PROVE ScreenFits(k, cache[k], sent, HeadFirm(org, auth), auth.user)'
      <3>1. ScreenFits(k, cache[k], sent, HeadFirm(org, auth), auth.user)
        BY <2>1 DEF PageFits
      <3>2. cache[k].by # 0 => sent'[cache[k].by] = sent[cache[k].by]
        BY <1>4, TypesGive DEF CacheFits, LineFits
      <3> QED
        BY <1>0, <3>1, <3>2 DEF ScreenFits, Coming, Current, Covers, Given, HeadFirm
    <2> QED
      BY <2>2, <2>3, <2>4
  <1>11. FormsFit'
    <2> SUFFICES ASSUME calm, NEW i \in DOMAIN sent', Open(sent'[i]) PROVE FormFits(i)'
      BY <1>0 DEF FormsFit, FormFits, Open
    <2>1. \A j \in DOMAIN sent : ~Open(sent'[j])
      BY <1>0, <1>4, NothingOpen
    <2>2. i = Len(sent) + 1 /\ sent'[i] = r /\ \A j \in DOMAIN sent' : j # i => ~Open(sent'[j])
      BY <1>4, <1>5, <2>1
    <2>3. HeadFirm(org, auth) = IF org.chosen # NoFirm THEN org.chosen ELSE belongs[auth.user][1]
      BY <1>0 DEF HeadFirm, LoggedIn
    <2> QED
      BY <1>0, <1>2, <1>3, <2>2, <2>3 DEF FormFits, Open
  <1> QED
    BY <1>7, <1>8, <1>9, <1>10, <1>11

(* Loading the page anew: nothing is cached, and what was asked for        *)
(* earlier is nobody's.                                                    *)
LEMMA ReloadKeeps == ASSUME WebInv, Reload, UNCHANGED calm PROVE WebInv'
  <1> USE DEF WebInv
  <1> DEFINE a == [auth EXCEPT !.ready = TRUE]
             o == [org EXCEPT !.known = <<>>]
             p == [path |-> IF LoggedIn(auth) THEN "app" ELSE "login", shows |-> "none"]
             left == [i \in DOMAIN sent |-> IF sent[i].pc = "sent" /\ sent[i].what # "login" THEN [sent[i] EXCEPT !.who = Nobody] ELSE NoRequest]
             c == [k \in Keys |-> Blank]
  <1>0. /\ UNCHANGED <<cookie, belongs, edition, astray>> /\ Unhurried /\ auth' = a /\ org' = o /\ page' = p
        /\ Becomes(Refresh({}, c, left, o, a, p)) /\ again' = (LoggedIn(auth) /\ cookie.access # auth.user)
    BY DEF Reload
  <1>1. /\ a \in AuthTypes /\ o \in OrgTypes /\ p \in Pages /\ a.user = auth.user /\ a.access = auth.access /\ o.chosen = org.chosen
        /\ (LoggedIn(a) <=> LoggedIn(auth))
    <2>1. a \in AuthTypes /\ a.user = auth.user /\ a.access = auth.access
      BY TypesGive DEF AuthTypes
    <2>2. o \in OrgTypes /\ o.chosen = org.chosen
      <3>1. <<>> \in Seq(Firms)
        OBVIOUS
      <3> QED
        BY <3>1, TypesGive DEF OrgTypes
    <2>3. p \in Pages
      BY DEF Pages
    <2> QED
      BY <2>1, <2>2, <2>3 DEF LoggedIn
  <1>2. Blank \in CacheLine /\ Blank.by = 0 /\ ~Blank.known /\ \A f \in Firms, m \in Forms : Blank.due[f][m] = 0
    BY DEF Blank, CacheLine, Heads, Tokens
  <1>3. c \in [Keys -> CacheLine] /\ \A k \in Keys : c[k] = Blank
    BY <1>2
  <1>4. NoRequest \in WebRequests /\ ~Open(NoRequest)
    <2>1. <<>> \in Seq(Firms) /\ [m \in Forms |-> 0] \in [Forms -> Nat]
      OBVIOUS
    <2> QED
      BY <2>1 DEF NoRequest, WebRequests, Tokens, Heads, Open
  <1>5. ASSUME NEW j \in DOMAIN sent
        PROVE  /\ left[j] \in WebRequests
               /\ ~Open(left[j]) \/ (left[j].pc = "sent" /\ left[j].who = Nobody /\ left[j].what # "login" /\ left[j].what = sent[j].what /\ Open(sent[j]))
    <2>1. sent[j] \in WebRequests
      BY TypesGive
    <2>2. CASE sent[j].pc = "sent" /\ sent[j].what # "login"
      <3>1. left[j] = [sent[j] EXCEPT !.who = Nobody]
        BY <2>2
      <3>2. left[j] \in WebRequests
        BY <2>1, <3>1 DEF WebRequests, Tokens
      <3>3. left[j].pc = "sent" /\ left[j].who = Nobody /\ left[j].what = sent[j].what
        BY <2>1, <2>2, <3>1 DEF WebRequests
      <3> QED
        BY <2>2, <3>2, <3>3 DEF Open
    <2>3. CASE ~(sent[j].pc = "sent" /\ sent[j].what # "login")
      BY <2>3, <1>4
    <2> QED
      BY <2>2, <2>3
  <1>6. left \in Seq(WebRequests) /\ Len(left) = Len(sent) /\ DOMAIN left = DOMAIN sent
    <2>1. left \in [1..Len(sent) -> WebRequests] /\ Len(sent) \in Nat
      BY <1>5, TypesGive
    <2> QED
      BY <2>1, TypesGive
  <1> HIDE DEF left, a, o, p, c
  <1>7. NewRequests(left, o, a) /\ Refreshes({}, c, left, o, a, p)
    BY <1>0, <1>1, <1>3, <1>6, RefreshesIs
  <1>8. WebTypes'
    BY <1>0, <1>1, <1>7 DEF WebTypes, NewRequests, Refreshes, AuthTypes, OrgTypes, Pages
  <1>9. SessionFits'
    BY <1>0, <1>1 DEF SessionFits, LoggedIn, p
  <1>10. RequestsFit'
    <2>1. OldRequests(left)
      BY <1>5, <1>6 DEF OldRequests
    <2>2. \A j \in DOMAIN left : ~OpenLogin(left[j])
      BY <1>5, <1>6 DEF OpenLogin
    <2> QED
      BY <1>0, <1>1, <1>7, <2>1, <2>2, RequestsAfter
  <1>11. \A k \in Keys : LineFits(k, c[k], left)
    BY <1>2, <1>3 DEF LineFits, WebTypes
  <1>12. CacheFits'
    BY <1>0, <1>1, <1>3, <1>6, <1>7, <1>11, CacheAfter
  <1>13. PageFits'
    <2>1. NewRequests(left, org', auth') /\ Refreshes({}, c, left, org', auth', page')
      BY <1>0, <1>7
    <2>2. Mine' => cookie.access = auth.user'
      BY <1>0, <1>1 DEF Mine
    <2>3. \A j \in DOMAIN left : OursFits(left[j], auth.user')
      BY <1>5, <1>6 DEF OursFits
    <2>4. \A k \in Screens \ {} : Ready(k, c[k], left, HeadFirm(org', auth'), auth.user')
      BY <1>2, <1>3, TypesGive DEF Ready, Coming
    <2> QED
      BY <1>0, <1>3, <1>6, <1>8, <1>9, <1>11, <2>1, <2>2, <2>3, <2>4, PageAfter
  <1>14. FormsFit'
    <2>1. calm => \A j \in DOMAIN left : ~Open(left[j])
      BY <1>0, <1>5, <1>6, NothingOpen
    <2>2. \A j \in DOMAIN sent' : j > Len(left) => \E x \in Keys : sent'[j] = Request(x, a.user, o, a)
      BY <1>7 DEF Refreshes
    <2> QED
      BY <1>0, <1>1, <1>6, <1>7, <2>1, <2>2, FormsAfter
  <1> QED
    BY <1>8, <1>9, <1>10, <1>12, <1>13, <1>14

(* An expired token is still the user's.                                   *)
LEMMA ExpiryKeeps == ASSUME WebInv, TokenExpires, UNCHANGED calm PROVE WebInv'
  <1> USE DEF WebInv
  <1>0. /\ UNCHANGED <<auth, org, page, cache, sent, belongs, edition, astray, again>>
        /\ cookie' = [cookie EXCEPT !.live = FALSE]
    BY DEF TokenExpires
  <1>1. cookie' \in [refresh : Tokens, access : Tokens, live : BOOLEAN] /\ cookie'.refresh = cookie.refresh /\ cookie'.access = cookie.access
    BY <1>0 DEF WebTypes
  <1>2. WebTypes' /\ SessionFits'
    BY <1>0, <1>1 DEF WebTypes, SessionFits
  <1>3. RequestsFit'
    BY <1>0, <1>1, NoneNew, TypesGive, RequestsAfter
  <1>4. CacheFits' /\ FormsFit'
    BY <1>0 DEF CacheFits, LineFits, Answers, Open, FormsFit, FormFits
  <1>5. PageFits'
    BY <1>0, <1>1 DEF PageFits, Mine, LoggedIn, OursFits, ScreenFits, Coming, Current, Covers, Given, HeadFirm, Open
  <1> QED
    BY <1>2, <1>3, <1>4, <1>5

(* A further membership comes last: the user's own organization stays.     *)
LEMMA JoinsKeep == ASSUME WebInv, Joins, UNCHANGED calm PROVE WebInv'
  <1> USE DEF WebInv
  <1>0. UNCHANGED <<auth, org, cookie, page, cache, sent, edition, astray, again>>
    BY DEF Joins
  <1>1. PICK u \in People, f \in Firms : belongs' = [belongs EXCEPT ![u] = Append(@, f)]
    BY DEF Joins
  <1>2. \A x \in People : belongs'[x] \in Seq(Firms) \ {<<>>} /\ belongs'[x][1] = belongs[x][1]
    <2> SUFFICES ASSUME NEW x \in People PROVE belongs'[x] \in Seq(Firms) \ {<<>>} /\ belongs'[x][1] = belongs[x][1]
      OBVIOUS
    <2>1. belongs[x] \in Seq(Firms) /\ belongs[x] # <<>>
      BY DEF WebTypes
    <2>2. belongs'[x] = IF x = u THEN Append(belongs[x], f) ELSE belongs[x]
      BY <1>1 DEF WebTypes
    <2>3. Append(belongs[x], f) \in Seq(Firms) \ {<<>>} /\ Append(belongs[x], f)[1] = belongs[x][1]
      BY <2>1
    <2> QED
      BY <2>1, <2>2, <2>3
  <1>3. belongs' \in [People -> Seq(Firms) \ {<<>>}]
    BY <1>1, <1>2 DEF WebTypes
  <1>4. WebTypes' /\ SessionFits'
    BY <1>0, <1>3 DEF WebTypes, SessionFits
  <1>5. auth.user # Nobody => auth.user \in People
    BY TypesGive DEF AuthTypes, Tokens
  <1>6. HeadFirm(org, auth)' = HeadFirm(org, auth)
    BY <1>0, <1>2, <1>5 DEF HeadFirm
  <1>7. ASSUME NEW j \in DOMAIN sent' PROVE RequestFits(sent[j])'
    <2>1. RequestFits(sent[j]) /\ sent'[j] = sent[j]
      BY <1>0, <1>7 DEF RequestsFit
    <2>2. Given(sent[j]) /\ sent[j].what # "login" => Firm(sent[j])' = Firm(sent[j])
      BY <2>1, <1>0, <1>2 DEF RequestFits, Firm
    <2>3. Given(sent[j]) /\ sent[j].what \in Keys => belongs'[sent[j].as][1] = belongs[sent[j].as][1]
      BY <2>1, <1>2, NamesDiffer DEF RequestFits
    <2> QED
      BY <2>1, <2>2, <2>3, <1>0 DEF RequestFits, OpenLogin, Open, Given
  <1>8. RequestsFit'
    BY <1>0, <1>7 DEF RequestsFit, OneLogin, OpenLogin, Open
  <1>9. CacheFits'
    BY <1>0 DEF CacheFits, LineFits, Answers, Open
  <1>10. PageFits'
    BY <1>0, <1>6 DEF PageFits, Mine, LoggedIn, OursFits, ScreenFits, Coming, Current, Covers, Given, Open
  <1>11. FormsFit'
    BY <1>0, <1>2 DEF FormsFit, FormFits, Open
  <1> QED
    BY <1>4, <1>8, <1>9, <1>10, <1>11

(* Data that gets old, or is dropped from the cache, shows nothing new.    *)
LEMMA StaleKeeps == ASSUME WebInv, GoesStale, UNCHANGED calm PROVE WebInv'
  <1> USE DEF WebInv
  <1>0. UNCHANGED <<auth, org, cookie, page, sent, belongs, edition, astray, again>>
    BY DEF GoesStale
  <1>1. PICK k \in Keys :
            cache' = [cache EXCEPT ![k] = IF k \in OnScreen(page) \/ cache[k].by # 0 THEN [cache[k] EXCEPT !.stale = TRUE] ELSE Blank]
    BY DEF GoesStale
  <1> DEFINE l == IF k \in OnScreen(page) \/ cache[k].by # 0 THEN [cache[k] EXCEPT !.stale = TRUE] ELSE Blank
  <1>2. cache[k] \in CacheLine
    BY TypesGive
  <1>3. Blank \in CacheLine /\ Blank.by = 0 /\ ~Blank.known /\ \A f \in Firms, m \in Forms : Blank.due[f][m] = 0
    BY DEF Blank, CacheLine, Heads, Tokens
  <1>4. /\ l \in CacheLine
        /\ l = Blank \/ (LineKept(cache[k], l) /\ l.by = cache[k].by /\ l.stale /\ l.failed = cache[k].failed /\ l.kept = cache[k].kept)
    BY <1>2, <1>3 DEF CacheLine, LineKept
  <1> HIDE DEF l
  <1>5. cache' \in [Keys -> CacheLine] /\ cache'[k] = l /\ \A x \in Keys : x # k => cache'[x] = cache[x]
    BY <1>1, <1>4, TypesGive DEF l
  <1>6. WebTypes' /\ SessionFits'
    BY <1>0, <1>5 DEF WebTypes, SessionFits
  <1>7. RequestsFit'
    BY <1>0, NoneNew, TypesGive, RequestsAfter
  <1>8. CacheFits'
    <2>1. LineFits(k, cache[k], sent)
      BY DEF CacheFits
    <2>2. LineFits(k, l, sent)
      BY <2>1, <1>3, <1>4 DEF LineFits, LineKept, WebTypes
    <2> QED
      BY <2>2, <1>0, <1>5 DEF CacheFits, LineFits, Answers, Open
  <1>9. PageFits'
    <2> SUFFICES ASSUME Mine', NEW x \in Screens PROVE ScreenFits(x, cache[x], sent, HeadFirm(org, auth), auth.user)'
      BY <1>0 DEF PageFits, Mine, LoggedIn, OursFits, Open
    <2>1. ScreenFits(x, cache[x], sent, HeadFirm(org, auth), auth.user)
      BY <1>0 DEF PageFits, Mine, LoggedIn
    <2>2. CASE x = k
      BY <2>1, <2>2, <1>0, <1>3, <1>4, <1>5 DEF ScreenFits, Coming, Current, Covers, Given, HeadFirm, LineKept
    <2>3. CASE x # k
      <3>1. cache'[x] = cache[x]
        BY <2>3, <1>5, TypesGive
      <3> QED
        BY <2>1, <3>1, <1>0 DEF ScreenFits, Coming, Current, Covers, Given, HeadFirm
    <2> QED
      BY <2>2, <2>3
  <1>10. FormsFit'
    BY <1>0 DEF FormsFit, FormFits, Open
  <1> QED
    BY <1>6, <1>7, <1>8, <1>9, <1>10

-----------------------------------------------------------------------------
(* The server, or nobody, answers request q: r is what it becomes.         *)
SameRequest(q, r) ==
    r.what = q.what /\ r.who = q.who /\ r.as = q.as /\ r.head = q.head /\ r.meant = q.meant /\ r.armed = q.armed
AnswerTo(q, r, status, got, list) ==
    \/ q.who = Nobody /\ ~Open(r)
    \/ q.who # Nobody /\ SameRequest(q, r) /\ r.pc = "answered" /\ r.status = status /\ r.got = got /\ r.list = list
AnswerSent(i, status, got, list) == Changes(i, sent'[i]) /\ AnswerTo(sent[i], sent'[i], status, got, list)

(* A request that was sent has its type.                                   *)
LEMMA SentTyped ==
    ASSUME WebTypes, NEW i \in DOMAIN sent
    PROVE  sent[i] \in WebRequests /\ i \in Nat /\ i # 0
    BY TypesGive

(* The fields of a request have theirs.                                    *)
LEMMA RequestTyped ==
    ASSUME NEW q \in WebRequests
    PROVE  /\ q.who \in Tokens /\ q.as \in Tokens /\ q.head \in Heads /\ q.meant \in Heads /\ q.got \in [Forms -> Nat]
           /\ q.list \in Seq(Firms) /\ q.armed \in BOOLEAN /\ q.second \in BOOLEAN /\ q.live \in BOOLEAN
    BY DEF WebRequests

(* Requests with some of their fields set anew.                            *)
RequestsOf(W, P, S) ==
    [what : W, who : Tokens, pc : P, as : Tokens, live : BOOLEAN, head : Heads, meant : Heads, armed : BOOLEAN, second : BOOLEAN,
     status : S, got : [Forms -> Nat], list : Seq(Firms)]

(* Requests keep their type whatever the type of the fields is             *)
LEMMA FieldsSet ==
    ASSUME NEW W, NEW P, NEW S, NEW q \in RequestsOf(W, P, S), NEW pc \in P, NEW status \in S
    PROVE  /\ [q EXCEPT !.pc = pc, !.status = status] \in RequestsOf(W, P, S)
           /\ \A got \in [Forms -> Nat], list \in Seq(Firms) :
                 [q EXCEPT !.pc = pc, !.status = status, !.got = got, !.list = list] \in RequestsOf(W, P, S)
           /\ \A as \in Tokens : [q EXCEPT !.pc = pc, !.as = as] \in RequestsOf(W, P, S)
           /\ \A as \in Tokens, live \in BOOLEAN, head \in Heads :
                 [q EXCEPT !.pc = pc, !.second = TRUE, !.as = as, !.live = live, !.head = head] \in RequestsOf(W, P, S)
  <1>1. [q EXCEPT !.pc = pc, !.status = status] \in RequestsOf(W, P, S)
    BY DEF RequestsOf
  <1>2. ASSUME NEW got \in [Forms -> Nat], NEW list \in Seq(Firms)
        PROVE  [q EXCEPT !.pc = pc, !.status = status, !.got = got, !.list = list] \in RequestsOf(W, P, S)
    BY DEF RequestsOf
  <1>3. ASSUME NEW as \in Tokens PROVE [q EXCEPT !.pc = pc, !.as = as] \in RequestsOf(W, P, S)
    BY DEF RequestsOf
  <1>4. ASSUME NEW as \in Tokens, NEW live \in BOOLEAN, NEW head \in Heads
        PROVE  [q EXCEPT !.pc = pc, !.second = TRUE, !.as = as, !.live = live, !.head = head] \in RequestsOf(W, P, S)
    BY DEF RequestsOf
  <1> QED
    BY <1>1, <1>2, <1>3, <1>4

Stages == {"sent", "answered", "refreshing", "renewed", "refused", "over"}
Statuses == {0, 200, 401, 403}

(* and thus the type they have here.                                       *)
LEMMA RequestSet ==
    ASSUME NEW q \in WebRequests, NEW pc \in Stages, NEW status \in Statuses
    PROVE  /\ [q EXCEPT !.pc = pc, !.status = status] \in WebRequests
           /\ \A got \in [Forms -> Nat], list \in Seq(Firms) :
                 [q EXCEPT !.pc = pc, !.status = status, !.got = got, !.list = list] \in WebRequests
           /\ \A as \in Tokens : [q EXCEPT !.pc = pc, !.as = as] \in WebRequests
           /\ \A as \in Tokens, live \in BOOLEAN, head \in Heads :
                 [q EXCEPT !.pc = pc, !.second = TRUE, !.as = as, !.live = live, !.head = head] \in WebRequests
  <1>1. WebRequests = RequestsOf(Keys \cup Forms \cup {"login", "none"}, Stages, Statuses)
    BY DEF WebRequests, RequestsOf, Stages, Statuses
  <1> QED
    BY <1>1, FieldsSet

With(q, status, got, list) == [q EXCEPT !.pc = "answered", !.status = status, !.got = got, !.list = list]
(* An answered request is one.                                             *)
LEMMA AnsweredTyped ==
    ASSUME NEW q \in WebRequests, q.who # Nobody, NEW status \in Statuses, NEW got \in [Forms -> Nat], NEW list \in Seq(Firms)
    PROVE  With(q, status, got, list) \in WebRequests /\ AnswerTo(q, With(q, status, got, list), status, got, list)
  <1> DEFINE x == With(q, status, got, list)
  <1>1. "answered" \in Stages
    BY DEF Stages
  <1>2. x \in WebRequests
    BY <1>1, RequestSet DEF With
  <1>3. x.pc = "answered" /\ x.status = status /\ x.got = got /\ x.list = list
    BY DEF WebRequests, With
  <1>4. SameRequest(q, x)
    BY DEF WebRequests, SameRequest, With
  <1> HIDE DEF x
  <1>5. AnswerTo(q, x, status, got, list)
    BY <1>3, <1>4 DEF AnswerTo
  <1> QED
    BY <1>2, <1>5 DEF x

(* Handling a request changes it and no other.                             *)
LEMMA HandlesIs ==
    ASSUME WebTypes, NEW i \in DOMAIN sent, NEW status \in Statuses, NEW got \in [Forms -> Nat], NEW list \in Seq(Firms),
           Handles(i, status, got, list)
    PROVE  AnswerSent(i, status, got, list)
  <1>1. sent[i] \in WebRequests
    BY SentTyped
  <1>2. CASE sent[i].who = Nobody
    <2>1. NoRequest \in WebRequests /\ ~Open(NoRequest)
      <3>1. <<>> \in Seq(Firms) /\ [m \in Forms |-> 0] \in [Forms -> Nat]
        OBVIOUS
      <3> QED
        BY <3>1 DEF NoRequest, WebRequests, Tokens, Heads, Open
    <2>2. sent' = [sent EXCEPT ![i] = NoRequest]
      BY <1>2 DEF Handles
    <2>3. Changes(i, NoRequest)
      BY <2>1, <2>2, ChangesIs
    <2> QED
      BY <1>2, <2>1, <2>3 DEF AnswerSent, AnswerTo, Changes
  <1>3. CASE sent[i].who # Nobody
    <2> DEFINE x == With(sent[i], status, got, list)
    <2>1. x \in WebRequests /\ AnswerTo(sent[i], x, status, got, list)
      BY <1>1, <1>3, AnsweredTyped
    <2>2. sent' = [sent EXCEPT ![i] = x]
      BY <1>3 DEF Handles, With
    <2> HIDE DEF x
    <2>3. Changes(i, x)
      BY <2>1, <2>2, ChangesIs
    <2> QED
      BY <2>1, <2>3 DEF AnswerSent, Changes
  <1> QED
    BY <1>2, <1>3

(* An answer as the server gives it keeps the invariant: it says as much   *)
(* as was written so far in the organization the line waits for.           *)
LEMMA AnswersKeep ==
    ASSUME WebInv, UNCHANGED calm, NEW i \in DOMAIN sent, sent[i].pc = "sent", sent[i].what # "login",
           NEW status \in Statuses, NEW got \in [Forms -> Nat], NEW list \in Seq(Firms),
           AnswerSent(i, status, got, list),
           UNCHANGED <<auth, org, cookie, page, cache, belongs, again>>, edition' \in [Firms -> [Forms -> Nat]], astray' \in BOOLEAN,
           \A f \in Firms, m \in Forms : edition'[f][m] >= edition[f][m], calm => ~astray',
           status = 200 => /\ sent[i].as \in People /\ Firm(sent[i]) \in Firms
                           /\ \A m \in Forms : got[m] <= edition'[Firm(sent[i])][m]
                           /\ sent[i].what \in Keys => list = belongs[sent[i].as] /\ got = edition[Firm(sent[i])]
    PROVE  WebInv'
  <1> USE DEF WebInv
  <1> PICK r : r = sent'[i]
    OBVIOUS
  <1> Changes(i, r) /\ AnswerTo(sent[i], r, status, got, list)
    BY DEF AnswerSent
  <1>0. sent[i] \in WebRequests /\ i # 0 /\ Open(sent[i]) /\ RequestFits(sent[i])
    BY SentTyped DEF Open, RequestsFit
  <1>1. ~Open(r) \/ (r.what = sent[i].what /\ r.who = sent[i].who)
    BY DEF AnswerTo, SameRequest
  <1>2. RequestFits(r)'
    <2>1. CASE sent[i].who = Nobody
      BY <2>1 DEF AnswerTo, RequestFits, OpenLogin, Given, Open
    <2>2. CASE sent[i].who # Nobody
      <3>1. Firm(r)' = Firm(sent[i])
        BY <2>2 DEF AnswerTo, SameRequest, Firm
      <3>2. status = 200 /\ sent[i].what \in Keys => list # <<>> /\ list[1] = belongs[sent[i].as][1]
        BY DEF WebTypes
      <3> QED
        BY <2>2, <3>1, <3>2 DEF AnswerTo, SameRequest, RequestFits, OpenLogin, Given, Open
    <2> QED
      BY <2>1, <2>2
  <1>3. sent' \in Seq(WebRequests) /\ RequestsFit' /\ CacheFits'
    <2>1. \A f \in Firms, m \in Forms : edition'[f][m] \in Nat
      OBVIOUS
    <2>2. ~Open(r) => sent[i].who = Nobody
      BY DEF AnswerTo, Open
    <2> QED
      BY <1>0, <1>1, <1>2, <2>1, <2>2, OneChanged
  <1>4. WebTypes' /\ SessionFits'
    BY <1>3 DEF WebTypes, SessionFits
  <1>5. PageFits'
    <2>1. Mine' => Mine /\ cookie'.access = auth.user
      BY DEF Mine, LoggedIn, PageFits
    <2>2. Mine' => OursFits(r, auth.user)
      BY <2>1 DEF PageFits, OursFits, AnswerTo, SameRequest, Open
    <2>3. ASSUME Mine', NEW k \in Screens, cache[k].by = i, ~cache[k].kept
          PROVE  r.head = HeadFirm(org, auth) /\ (Given(r) => Covers(k, r.got, cache[k].due[HeadFirm(org, auth)]))
      <3> DEFINE h == HeadFirm(org, auth)
      <3>1. k \in Keys /\ cache[k] \in CacheLine
        BY TypesGive
      <3>2. Answers(k, sent[i]) /\ \A f \in Firms, m \in Forms : cache[k].due[f][m] <= edition[f][m]
        <4>1. LineFits(k, cache[k], sent)
          BY <3>1 DEF CacheFits
        <4> QED
          BY <1>0, <2>3, <4>1 DEF LineFits
      <3>3. SameRequest(sent[i], r) /\ r.status = status /\ r.got = got
        BY <3>2 DEF Answers, AnswerTo
      <3>4. sent[i].head = h
        BY <2>1, <2>3, TypesGive DEF PageFits, ScreenFits, Coming
      <3>5. h \in Firms /\ h # NoFirm
        BY <2>1, <2>3, TypesGive, HeadIs DEF Mine, LoggedIn
      <3>6. Firm(sent[i]) = h
        BY <3>4, <3>5 DEF Firm
      <3>7. status = 200 => got = edition[h]
        BY <3>1, <3>2, <3>6 DEF Answers
      <3> HIDE DEF h
      <3>8. status = 200 => Covers(k, got, cache[k].due[h])
        <4> SUFFICES ASSUME status = 200, NEW m \in Forms PROVE got[m] >= cache[k].due[h][m]
          BY DEF Covers
        <4>1. cache[k].due[h][m] <= edition[h][m] /\ cache[k].due[h][m] \in Nat /\ edition[h][m] \in Nat
          BY <3>1, <3>2, <3>5 DEF CacheLine, WebTypes
        <4> QED
          BY <3>7, <4>1
      <3> QED
        BY <3>3, <3>4, <3>8 DEF SameRequest, Given, h
    <2> QED
      BY <1>3, <2>1, <2>2, <2>3, PageChanged
  <1>6. FormsFit'
    <2>1. ~Open(r) \/ (r.what = sent[i].what /\ r.who = sent[i].who /\ r.meant = sent[i].meant)
      BY DEF AnswerTo, SameRequest
    <2>2. calm /\ r.what \in Forms /\ Open(r) => r.head = r.meant
      BY <1>0 DEF AnswerTo, SameRequest, FormsFit, FormFits
    <2> QED
      BY <1>0, <2>1, <2>2, FormsChanged
  <1> QED
    BY <1>3, <1>4, <1>5, <1>6

(* A write that a request of the firm named brings about.                  *)
LEMMA WriteTakes ==
    ASSUME WebInv, NEW i \in DOMAIN sent, sent[i].pc = "sent", sent[i].what \in Forms, Authorized(sent[i]), Within(sent[i]),
           edition' = [edition EXCEPT ![Firm(sent[i])][sent[i].what] = @ + 1],
           astray' = (astray \/ (sent[i].meant # NoFirm /\ Firm(sent[i]) # sent[i].meant))
    PROVE  /\ sent[i].as \in People /\ Firm(sent[i]) \in Firms
           /\ edition' \in [Firms -> [Forms -> Nat]] /\ astray' \in BOOLEAN
           /\ \A f \in Firms, m \in Forms : edition'[f][m] >= edition[f][m]
           /\ calm => ~astray'
  <1> USE DEF WebInv
  <1>1. sent[i] \in WebRequests /\ sent[i].as \in People
    <2>1. sent[i] \in WebRequests
      BY SentTyped
    <2>2. sent[i].as \in Tokens
      BY <2>1, RequestTyped
    <2> QED
      BY <2>1, <2>2 DEF Authorized, Tokens
  <1>2. Firm(sent[i]) \in Firms
    <2>1. belongs[sent[i].as] \in Seq(Firms)
      BY <1>1 DEF WebTypes
    <2> QED
      BY <2>1 DEF Within
  <1>3. edition' \in [Firms -> [Forms -> Nat]] /\ \A f \in Firms, m \in Forms : edition'[f][m] >= edition[f][m]
    <2> DEFINE g == Firm(sent[i])
               w == sent[i].what
    <2>1. edition \in [Firms -> [Forms -> Nat]]
      BY DEF WebTypes
    <2>2. edition[g] \in [Forms -> Nat] /\ edition[g][w] \in Nat
      BY <1>2, <2>1
    <2> HIDE DEF g, w
    <2>3. edition' = [edition EXCEPT ![g] = [edition[g] EXCEPT ![w] = edition[g][w] + 1]]
      BY <2>1, <2>2 DEF g, w
    <2>4. [edition[g] EXCEPT ![w] = edition[g][w] + 1] \in [Forms -> Nat]
      <3>1. edition[g][w] + 1 \in Nat
        BY <2>2
      <3> QED
        BY <2>2, <3>1
    <2>5. edition' \in [Firms -> [Forms -> Nat]]
      BY <2>1, <2>3, <2>4
    <2>6. ASSUME NEW f \in Firms, NEW m \in Forms PROVE edition'[f][m] >= edition[f][m]
      <3>1. edition[f] \in [Forms -> Nat] /\ edition[f][m] \in Nat
        BY <2>1
      <3>2. edition'[f][m] = edition[f][m] \/ edition'[f][m] = edition[f][m] + 1
        BY <2>1, <2>2, <2>3, <3>1
      <3> QED
        BY <3>1, <3>2
    <2> QED
      BY <2>5, <2>6
  <1>4. calm => ~astray'
    <2> SUFFICES ASSUME calm PROVE ~astray'
      OBVIOUS
    <2>1. ~astray /\ sent[i].head = sent[i].meant
      BY DEF FormsFit, FormFits, Open
    <2> QED
      BY <2>1 DEF Firm
  <1> QED
    BY <1>1, <1>2, <1>3, <1>4 DEF WebTypes

(* So does handling.                                                       *)
LEMMA HandlingKeeps ==
    ASSUME WebInv, UNCHANGED calm, NEW i \in DOMAIN sent, sent[i].pc = "sent", sent[i].what # "login",
           NEW status \in Statuses, NEW got \in [Forms -> Nat], NEW list \in Seq(Firms), Handles(i, status, got, list),
           UNCHANGED <<auth, org, cookie, page, cache, belongs, again>>, edition' \in [Firms -> [Forms -> Nat]], astray' \in BOOLEAN,
           \A f \in Firms, m \in Forms : edition'[f][m] >= edition[f][m], calm => ~astray',
           status = 200 => /\ sent[i].as \in People /\ Firm(sent[i]) \in Firms
                           /\ \A m \in Forms : got[m] <= edition'[Firm(sent[i])][m]
                           /\ sent[i].what \in Keys => list = belongs[sent[i].as] /\ got = edition[Firm(sent[i])]
    PROVE  WebInv'
  <1>1. WebTypes
    BY DEF WebInv
  <1>2. AnswerSent(i, status, got, list)
    BY <1>1, HandlesIs
  <1> QED
    BY <1>2, AnswersKeep

(* The server refuses, answers a query or makes a write.                   *)
LEMMA ServeKeeps == ASSUME WebInv, NEW i \in DOMAIN sent, Serve(i), UNCHANGED calm PROVE WebInv'
  <1>1. sent[i].pc = "sent"
    BY DEF Serve
  <1>2. sent[i].what # "login"
    BY DEF Serve
  <1>3. UNCHANGED <<auth, org, cookie, page, cache, belongs, again>>
    BY DEF Serve
  <1>4. WebTypes
    BY DEF WebInv
  <1>5. sent[i] \in WebRequests
    BY <1>4, SentTyped
  <1>6. sent[i].got \in [Forms -> Nat]
    BY <1>5, RequestTyped
  <1>7. sent[i].as \in Tokens
    BY <1>5, RequestTyped
  <1>8. /\ edition \in [Firms -> [Forms -> Nat]] /\ astray \in BOOLEAN /\ (calm => ~astray)
        /\ \A f \in Firms, m \in Forms : edition[f][m] \in Nat
    BY <1>4 DEF WebInv, WebTypes, FormsFit
  <1>9. <<>> \in Seq(Firms)
    OBVIOUS
  <1>10. ASSUME edition' = edition
         PROVE  edition' \in [Firms -> [Forms -> Nat]] /\ \A f \in Firms, m \in Forms : edition'[f][m] >= edition[f][m]
    BY <1>8, <1>10
  <1>11. ASSUME NEW status \in Statuses, status # 200, Handles(i, status, sent[i].got, <<>>), edition' = edition, astray' = astray
         PROVE  WebInv'
    <2>1. Handles(i, status, sent[i].got, <<>>)
      BY <1>11
    <2>2. edition' \in [Firms -> [Forms -> Nat]] /\ \A f \in Firms, m \in Forms : edition'[f][m] >= edition[f][m]
      BY <1>10, <1>11
    <2>3. astray' \in BOOLEAN /\ (calm => ~astray')
      BY <1>8, <1>11
    <2>4. status # 200
      BY <1>11
    <2> QED
      BY <1>1, <1>2, <1>3, <1>6, <1>9, <2>1, <2>2, <2>3, <2>4, HandlingKeeps
  <1>12. ASSUME Authorized(sent[i]), Within(sent[i]), Handles(i, 200, edition[Firm(sent[i])], belongs[sent[i].as]),
                edition' = edition, astray' = astray
         PROVE  WebInv'
    <2>1. sent[i].as \in People
      BY <1>7, <1>12 DEF Authorized, Tokens
    <2>2. belongs[sent[i].as] \in Seq(Firms)
      BY <1>4, <2>1 DEF WebTypes
    <2>3. Firm(sent[i]) \in Firms
      BY <1>12, <2>2 DEF Within
    <2>4. edition[Firm(sent[i])] \in [Forms -> Nat]
      BY <1>8, <2>3
    <2>5. \A m \in Forms : edition[Firm(sent[i])][m] <= edition'[Firm(sent[i])][m]
      BY <1>8, <1>12, <2>3
    <2>6. edition' \in [Firms -> [Forms -> Nat]] /\ \A f \in Firms, m \in Forms : edition'[f][m] >= edition[f][m]
      BY <1>10, <1>12
    <2>7. astray' \in BOOLEAN /\ (calm => ~astray')
      BY <1>8, <1>12
    <2>8. Handles(i, 200, edition[Firm(sent[i])], belongs[sent[i].as])
      BY <1>12
    <2>9. 200 \in Statuses
      BY DEF Statuses
    <2> QED
      BY <1>1, <1>2, <1>3, <2>1, <2>2, <2>3, <2>4, <2>5, <2>6, <2>7, <2>8, <2>9, HandlingKeeps
  <1>13. ASSUME Authorized(sent[i]), Within(sent[i]), sent[i].what \in Forms,
                edition' = [edition EXCEPT ![Firm(sent[i])][sent[i].what] = @ + 1],
                astray' = (astray \/ (sent[i].meant # NoFirm /\ Firm(sent[i]) # sent[i].meant)),
                Handles(i, 200, edition'[Firm(sent[i])], <<>>)
         PROVE  WebInv'
    <2>1. /\ sent[i].as \in People /\ Firm(sent[i]) \in Firms /\ edition' \in [Firms -> [Forms -> Nat]] /\ astray' \in BOOLEAN
          /\ (\A f \in Firms, m \in Forms : edition'[f][m] >= edition[f][m]) /\ (calm => ~astray')
      BY <1>1, <1>13, WriteTakes
    <2>2. edition'[Firm(sent[i])] \in [Forms -> Nat]
      BY <2>1
    <2>3. sent[i].what \notin Keys
      BY <1>13, NamesDiffer
    <2>4. \A m \in Forms : edition'[Firm(sent[i])][m] <= edition'[Firm(sent[i])][m]
      BY <2>2
    <2>5. 200 \in Statuses
      BY DEF Statuses
    <2>6. Handles(i, 200, edition'[Firm(sent[i])], <<>>)
      BY <1>13
    <2> QED
      BY <1>1, <1>2, <1>3, <1>9, <2>1, <2>2, <2>3, <2>4, <2>5, <2>6, HandlingKeeps
  <1>14. 401 \in Statuses /\ 403 \in Statuses /\ 401 # 200 /\ 403 # 200
    BY DEF Statuses
  <1> QED
    BY <1>11, <1>12, <1>13, <1>14 DEF Serve

(* An answer that is lost, the write made or not, is no answer.            *)
LEMMA LostKeeps == ASSUME WebInv, NEW i \in DOMAIN sent, Lost(i), UNCHANGED calm PROVE WebInv'
  <1>1. ~calm
    BY DEF Lost
  <1>2. sent[i].pc = "sent" /\ sent[i].who # Nobody
    BY DEF Lost
  <1>3. UNCHANGED <<auth, org, cookie, page, cache, belongs, again>>
    BY DEF Lost
  <1>4. WebTypes
    BY DEF WebInv
  <1>5. sent[i] \in WebRequests
    BY <1>4, SentTyped
  <1>6. sent[i].got \in [Forms -> Nat] /\ sent[i].list \in Seq(Firms)
    BY <1>5, RequestTyped
  <1>7. edition \in [Firms -> [Forms -> Nat]] /\ astray \in BOOLEAN /\ \A f \in Firms, m \in Forms : edition[f][m] >= edition[f][m]
    BY <1>4 DEF WebTypes
  <1>8. PICK r : r = [sent[i] EXCEPT !.pc = "answered", !.status = 0]
    OBVIOUS
  <1>9. Changes(i, r) /\ r.pc = "answered" /\ r.status = 0 /\ r.what = sent[i].what /\ r.who = sent[i].who /\ r.armed = sent[i].armed
        /\ AnswerSent(i, 0, sent[i].got, sent[i].list)
    <2>0. "answered" \in Stages /\ 0 \in Statuses
      BY DEF Stages, Statuses
    <2>1. r \in WebRequests
      BY <1>5, <1>8, <2>0, RequestSet
    <2>2. r.pc = "answered" /\ r.status = 0 /\ r.got = sent[i].got /\ r.list = sent[i].list
      BY <1>5, <1>8 DEF WebRequests
    <2>3. SameRequest(sent[i], r)
      BY <1>5, <1>8 DEF WebRequests, SameRequest
    <2>4. sent' = [sent EXCEPT ![i] = r]
      BY <1>8 DEF Lost
    <2>5. Changes(i, r)
      BY <1>4, <2>1, <2>4, ChangesIs
    <2> QED
      BY <1>2, <2>2, <2>3, <2>5 DEF AnswerTo, AnswerSent, Changes, SameRequest
  <1>10. ASSUME sent[i].what # "login", edition' \in [Firms -> [Forms -> Nat]], astray' \in BOOLEAN,
                \A f \in Firms, m \in Forms : edition'[f][m] >= edition[f][m]
         PROVE  WebInv'
    <2>1. 0 \in Statuses /\ 0 # 200
      BY DEF Statuses
    <2>2. AnswerSent(i, 0, sent[i].got, sent[i].list)
      BY <1>9
    <2>3. sent[i].pc = "sent"
      BY <1>2
    <2> QED
      BY <1>1, <1>3, <1>6, <1>10, <2>1, <2>2, <2>3, AnswersKeep
  <1>11. CASE sent[i].what # "login" /\ UNCHANGED <<edition, astray>>
    BY <1>7, <1>10, <1>11
  <1>12. CASE sent[i].what \in Forms /\ Authorized(sent[i]) /\ Within(sent[i])
              /\ edition' = [edition EXCEPT ![Firm(sent[i])][sent[i].what] = @ + 1]
              /\ astray' = (astray \/ (sent[i].meant # NoFirm /\ Firm(sent[i]) # sent[i].meant))
    <2>1. /\ edition' \in [Firms -> [Forms -> Nat]] /\ astray' \in BOOLEAN
          /\ \A f \in Firms, m \in Forms : edition'[f][m] >= edition[f][m]
      BY <1>2, <1>12, WriteTakes
    <2>2. sent[i].what # "login"
      BY <1>12, NamesDiffer
    <2> QED
      BY <1>10, <2>1, <2>2
  <1>13. CASE sent[i].what = "login" /\ UNCHANGED <<edition, astray>>
    <2> USE DEF WebInv
    <2>1. Open(sent[i]) /\ RequestFits(sent[i]) /\ ~Given(r) /\ Open(r)
      BY <1>2, <1>9 DEF Open, Given, RequestsFit
    <2>2. page.path = "login" /\ ~sent[i].armed
      BY <1>13, <2>1 DEF RequestFits, OpenLogin
    <2>3. RequestFits(r)'
      BY <1>2, <1>3, <1>9, <1>13, <2>1, <2>2, NamesDiffer DEF RequestFits, OpenLogin, Open, Given
    <2>4. sent' \in Seq(WebRequests) /\ RequestsFit' /\ CacheFits'
      <3>1. \A f \in Firms, m \in Forms : edition'[f][m] >= edition[f][m] /\ edition'[f][m] \in Nat
        BY <1>7, <1>13
      <3>2. Changes(i, r) /\ r.what = sent[i].what /\ r.who = sent[i].who
        BY <1>9
      <3>3. UNCHANGED <<belongs, page, cache>> /\ cookie'.refresh = cookie.refresh
        BY <1>3
      <3> QED
        BY <2>1, <2>3, <3>1, <3>2, <3>3, OneChanged
    <2>5. WebTypes' /\ SessionFits'
      BY <1>3, <1>13, <2>4 DEF WebTypes, SessionFits
    <2>6. auth'.user = Nobody
      BY <1>3, <2>2 DEF SessionFits
    <2>7. PageFits'
      BY <2>6, NobodysPage
    <2>8. FormsFit'
      BY <1>1 DEF FormsFit
    <2> QED
      BY <2>4, <2>5, <2>7, <2>8
  <1> QED
    BY <1>11, <1>12, <1>13 DEF Lost

(* A token renewed is the user's: only a logged-in user's request is.      *)
LEMMA AskRefreshKeeps == ASSUME WebInv, NEW i \in DOMAIN sent, AskRefresh(i), UNCHANGED calm PROVE WebInv'
  <1>1. sent[i].pc = "answered" /\ sent[i].status = 401 /\ sent[i].armed
    BY DEF AskRefresh
  <1>2. UNCHANGED <<auth, org, cookie, page, cache, belongs, edition, astray, again>>
    BY DEF AskRefresh
  <1>3. WebTypes
    BY DEF WebInv
  <1>4. sent[i] \in WebRequests
    BY <1>3, SentTyped
  <1>5. cookie.refresh \in Tokens
    BY <1>3 DEF WebTypes
  <1>6. PICK r : r = [sent[i] EXCEPT !.pc = "refreshing", !.as = cookie.refresh]
    OBVIOUS
  <1>7. r \in WebRequests
    <2>1. "refreshing" \in Stages /\ 0 \in Statuses
      BY DEF Stages, Statuses
    <2> QED
      BY <1>4, <1>5, <1>6, <2>1, RequestSet
  <1>8. r.pc = "refreshing" /\ r.as = cookie.refresh /\ r.what = sent[i].what /\ r.who = sent[i].who /\ r.head = sent[i].head
        /\ r.meant = sent[i].meant
    BY <1>4, <1>6 DEF WebRequests
  <1>9. Changes(i, r)
    <2>1. sent' = [sent EXCEPT ![i] = r]
      BY <1>6 DEF AskRefresh
    <2> QED
      BY <1>3, <1>7, <2>1, ChangesIs
  <1> USE DEF WebInv
  <1>10. Open(sent[i]) /\ RequestFits(sent[i]) /\ Open(r) /\ ~Given(r) /\ r.what # "login" /\ r.who # Nobody
    <2>1. Open(sent[i]) /\ RequestFits(sent[i]) /\ Open(r) /\ ~Given(r)
      BY <1>1, <1>8 DEF Open, Given, RequestsFit
    <2> QED
      BY <1>1, <1>8, <2>1 DEF RequestFits, OpenLogin
  <1>11. RequestFits(r)'
    BY <1>8, <1>10 DEF RequestFits, OpenLogin, Given, Open
  <1>12. sent' \in Seq(WebRequests) /\ RequestsFit' /\ CacheFits'
    <2>1. \A f \in Firms, m \in Forms : edition'[f][m] >= edition[f][m] /\ edition'[f][m] \in Nat
      BY <1>2, <1>3 DEF WebTypes
    <2>2. UNCHANGED <<belongs, page, cache>> /\ cookie'.refresh = cookie.refresh
      BY <1>2
    <2>3. r.what = sent[i].what /\ r.who = sent[i].who
      BY <1>8
    <2> QED
      BY <1>9, <1>10, <1>11, <2>1, <2>2, <2>3, OneChanged
  <1>13. WebTypes' /\ SessionFits'
    BY <1>2, <1>12 DEF WebTypes, SessionFits
  <1>14. PageFits'
    <2>1. Mine' => Mine /\ cookie'.access = auth.user
      BY <1>2 DEF PageFits, Mine, LoggedIn
    <2>2. Mine' => OursFits(r, auth.user)
      BY <1>8, <1>10, <2>1 DEF PageFits, OursFits, SessionFits, Mine, LoggedIn
    <2>3. Mine' => \A k \in Screens : cache[k].by = i /\ ~cache[k].kept =>
              r.head = HeadFirm(org, auth) /\ (Given(r) => Covers(k, r.got, cache[k].due[HeadFirm(org, auth)]))
      <3> SUFFICES ASSUME Mine', NEW k \in Screens, cache[k].by = i, ~cache[k].kept PROVE r.head = HeadFirm(org, auth)
        BY <1>10
      <3>1. i # 0
        BY <1>3, SentTyped
      <3>2. Coming(k, cache[k], sent, HeadFirm(org, auth))
        BY <2>1 DEF PageFits, ScreenFits
      <3> QED
        BY <1>8, <3>1, <3>2 DEF Coming
    <2>4. UNCHANGED <<again, org, belongs, cache, page>> /\ auth'.user = auth.user
      BY <1>2
    <2> QED
      BY <1>9, <2>1, <2>2, <2>3, <2>4, PageChanged
  <1>15. FormsFit'
    <2>1. calm /\ r.what \in Forms /\ Open(r) => r.head = r.meant
      BY <1>8, <1>10 DEF FormsFit, FormFits
    <2>2. UNCHANGED <<calm, belongs, page, org>> /\ (calm => ~astray')
      BY <1>2 DEF FormsFit
    <2> QED
      BY <1>8, <1>9, <1>10, <2>1, <2>2, FormsChanged
  <1> QED
    BY <1>12, <1>13, <1>14, <1>15

(* A login answered with one organization brings the cookies of its user.  *)
LEMMA ServeLoginKeeps == ASSUME WebInv, NEW i \in DOMAIN sent, ServeLogin(i), UNCHANGED calm PROVE WebInv'
  <1>1. sent[i].pc = "sent" /\ sent[i].what = "login"
    BY DEF ServeLogin
  <1>2. UNCHANGED <<auth, org, page, cache, belongs, edition, astray, again>>
    BY DEF ServeLogin
  <1>3. WebTypes
    BY DEF WebInv
  <1>4. sent[i] \in WebRequests
    BY <1>3, SentTyped
  <1>5. sent[i].got \in [Forms -> Nat]
    BY <1>4, RequestTyped
  <1>6. Open(sent[i]) /\ OpenLogin(sent[i]) /\ RequestFits(sent[i])
    BY <1>1 DEF WebInv, RequestsFit, Open, OpenLogin
  <1>7. sent[i].who \in People /\ sent[i].who # Nobody
    <2>1. sent[i].who \in Tokens
      BY <1>4, RequestTyped
    <2> QED
      BY <1>1, <1>6, <2>1 DEF RequestFits, Tokens
  <1>8. page.path = "login" /\ ~sent[i].armed /\ auth.user = Nobody
    BY <1>6 DEF RequestFits, WebInv, SessionFits
  <1>9. <<>> \in Seq(Firms) /\ belongs[sent[i].who] \in Seq(Firms)
    BY <1>3, <1>7 DEF WebTypes
  <1>10. ASSUME NEW status \in Statuses, NEW list \in Seq(Firms), AnswerSent(i, status, sent[i].got, list),
                cookie' \in [refresh : Tokens, access : Tokens, live : BOOLEAN],
                status = 200 /\ Len(list) = 1 => cookie'.refresh = sent[i].who
         PROVE  WebInv'
    <2> USE DEF WebInv
    <2>1. PICK r : r = sent'[i]
      OBVIOUS
    <2>2. Changes(i, r) /\ SameRequest(sent[i], r) /\ r.pc = "answered" /\ r.status = status /\ r.list = list
      BY <1>7, <1>10, <2>1 DEF AnswerSent, AnswerTo
    <2>3. RequestFits(r)'
      BY <1>1, <1>2, <1>7, <1>8, <1>10, <2>2, NamesDiffer DEF RequestFits, OpenLogin, Open, Given, SameRequest
    <2>4. Open(r) /\ r.what = sent[i].what /\ r.who = sent[i].who /\ r.meant = sent[i].meant
      BY <2>2 DEF Open, SameRequest
    <2>5. sent' \in Seq(WebRequests) /\ RequestsFit' /\ CacheFits'
      <3>1. \A f \in Firms, m \in Forms : edition'[f][m] >= edition[f][m] /\ edition'[f][m] \in Nat
        BY <1>2, <1>3 DEF WebTypes
      <3>2. UNCHANGED <<belongs, page, cache>>
        BY <1>2
      <3>3. Changes(i, r)
        BY <2>2
      <3> QED
        BY <1>6, <2>3, <2>4, <3>1, <3>2, <3>3, OneChanged
    <2>6. WebTypes' /\ SessionFits'
      BY <1>2, <1>8, <1>10, <2>5 DEF WebTypes, SessionFits
    <2>7. PageFits'
      BY <1>2, <1>8, NobodysPage
    <2>8. FormsFit'
      <3>1. r.what \notin Forms
        BY <1>1, <2>4, NamesDiffer
      <3>2. UNCHANGED <<calm, belongs, page, org>> /\ (calm => ~astray')
        BY <1>2 DEF FormsFit
      <3>3. Changes(i, r)
        BY <2>2
      <3> QED
        BY <1>6, <2>4, <3>1, <3>2, <3>3, FormsChanged
    <2> QED
      BY <2>5, <2>6, <2>7, <2>8
  <1>11. 200 \in Statuses /\ 401 \in Statuses
    BY DEF Statuses
  <1>12. CASE Handles(i, 401, sent[i].got, <<>>) /\ UNCHANGED cookie
    <2>1. Handles(i, 401, sent[i].got, <<>>)
      BY <1>12
    <2>2. AnswerSent(i, 401, sent[i].got, <<>>)
      BY <1>3, <1>5, <1>9, <1>11, <2>1, HandlesIs
    <2>3. cookie' \in [refresh : Tokens, access : Tokens, live : BOOLEAN]
      BY <1>3, <1>12 DEF WebTypes
    <2>4. 401 = 200 /\ Len(<<>>) = 1 => cookie'.refresh = sent[i].who
      OBVIOUS
    <2> QED
      BY <1>9, <1>10, <1>11, <2>2, <2>3, <2>4
  <1>13. CASE /\ Handles(i, 200, sent[i].got, belongs[sent[i].who])
              /\ cookie' = IF Len(belongs[sent[i].who]) = 1 THEN [refresh |-> sent[i].who, access |-> sent[i].who, live |-> TRUE] ELSE cookie
    <2>1. Handles(i, 200, sent[i].got, belongs[sent[i].who])
      BY <1>13
    <2>2. AnswerSent(i, 200, sent[i].got, belongs[sent[i].who])
      BY <1>3, <1>5, <1>9, <1>11, <2>1, HandlesIs
    <2>3. cookie' \in [refresh : Tokens, access : Tokens, live : BOOLEAN]
      BY <1>3, <1>7, <1>13 DEF WebTypes, Tokens
    <2>4. Len(belongs[sent[i].who]) = 1 => cookie'.refresh = sent[i].who
      BY <1>13
    <2> QED
      BY <1>9, <1>10, <1>11, <2>2, <2>3, <2>4
  <1> QED
    BY <1>12, <1>13 DEF ServeLogin

(* A refresh brings the token of whoever the cookie belonged to when it    *)
(* was asked for, which is the user.                                       *)
LEMMA ServeRefreshKeeps == ASSUME WebInv, NEW i \in DOMAIN sent, ServeRefresh(i), UNCHANGED calm PROVE WebInv'
  <1>1. sent[i].pc = "refreshing"
    BY DEF ServeRefresh
  <1>2. UNCHANGED <<auth, org, page, cache, belongs, edition, astray, again>>
    BY DEF ServeRefresh
  <1>3. WebTypes
    BY DEF WebInv
  <1>4. sent[i] \in WebRequests
    BY <1>3, SentTyped
  <1>5. sent[i].as \in Tokens
    BY <1>4, RequestTyped
  <1>6. Open(sent[i]) /\ RequestFits(sent[i]) /\ sent[i].what # "login" /\ sent[i].who # Nobody
    <2>1. Open(sent[i]) /\ RequestFits(sent[i])
      BY <1>1 DEF Open, WebInv, RequestsFit
    <2> QED
      BY <1>1, <2>1 DEF RequestFits, OpenLogin
  <1>7. PICK r : r = sent'[i]
    OBVIOUS
  <1>8. Changes(i, r) /\ r.pc \in {"renewed", "refused"} /\ (r.pc = "renewed" => r.as # Nobody) /\ SameRequest(sent[i], r)
    <2>1. PICK pc \in {"renewed", "refused"} : sent' = [sent EXCEPT ![i].pc = pc] /\ (pc = "renewed" => sent[i].as # Nobody)
      BY DEF ServeRefresh
    <2>2. PICK x : x = [sent[i] EXCEPT !.pc = pc]
      OBVIOUS
    <2>3. x \in WebRequests /\ x.pc = pc
      BY <1>4, <2>2 DEF WebRequests
    <2>4. SameRequest(sent[i], x)
      BY <1>4, <2>2 DEF WebRequests, SameRequest
    <2>5. sent' = [sent EXCEPT ![i] = x]
      BY <1>3, <2>1, <2>2 DEF WebTypes
    <2>6. Changes(i, x)
      BY <1>3, <2>3, <2>5, ChangesIs
    <2> QED
      BY <1>7, <2>1, <2>3, <2>4, <2>6 DEF Changes, SameRequest
  <1>9. cookie' \in [refresh : Tokens, access : Tokens, live : BOOLEAN] /\ cookie'.refresh = cookie.refresh
        /\ (cookie'.access = cookie.access \/ cookie'.access = sent[i].as)
    BY <1>3, <1>5 DEF ServeRefresh, WebTypes
  <1>10. Open(r) /\ ~Given(r) /\ r.what = sent[i].what /\ r.who = sent[i].who /\ r.meant = sent[i].meant /\ r.head = sent[i].head
         /\ r.as = sent[i].as
    BY <1>8 DEF Open, Given, SameRequest
  <1> USE DEF WebInv
  <1>11. RequestFits(r)'
    BY <1>6, <1>8, <1>10 DEF RequestFits, OpenLogin, Given, Open
  <1>12. sent' \in Seq(WebRequests) /\ RequestsFit' /\ CacheFits'
    <2>1. \A f \in Firms, m \in Forms : edition'[f][m] >= edition[f][m] /\ edition'[f][m] \in Nat
      BY <1>2, <1>3 DEF WebTypes
    <2>2. UNCHANGED <<belongs, page, cache>> /\ cookie'.refresh = cookie.refresh
      BY <1>2, <1>9
    <2>3. Changes(i, r)
      BY <1>8
    <2> QED
      BY <1>6, <1>10, <1>11, <2>1, <2>2, <2>3, OneChanged
  <1>13. WebTypes' /\ SessionFits'
    BY <1>2, <1>9, <1>12 DEF WebTypes, SessionFits
  <1>14. PageFits'
    <2>0. Mine' => Mine
      BY <1>2 DEF Mine, LoggedIn
    <2>1. Mine => cookie.access = auth.user /\ OursFits(sent[i], auth.user)
      BY DEF PageFits
    <2>2. Mine => cookie'.access = auth.user /\ OursFits(r, auth.user)
      BY <1>6, <1>9, <1>10, <2>1 DEF OursFits
    <2>3. Mine' => \A k \in Screens : cache[k].by = i /\ ~cache[k].kept =>
              r.head = HeadFirm(org, auth) /\ (Given(r) => Covers(k, r.got, cache[k].due[HeadFirm(org, auth)]))
      <3> SUFFICES ASSUME Mine', NEW k \in Screens, cache[k].by = i, ~cache[k].kept PROVE r.head = HeadFirm(org, auth)
        BY <1>10
      <3>1. i # 0
        BY <1>3, SentTyped
      <3>2. Coming(k, cache[k], sent, HeadFirm(org, auth))
        BY <2>0 DEF PageFits, ScreenFits
      <3> QED
        BY <1>10, <3>1, <3>2 DEF Coming
    <2>4. UNCHANGED <<again, org, belongs, cache, page>> /\ auth'.user = auth.user
      BY <1>2
    <2>5. Changes(i, r)
      BY <1>8
    <2> QED
      BY <2>0, <2>2, <2>3, <2>4, <2>5, PageChanged
  <1>15. FormsFit'
    <2>1. calm /\ r.what \in Forms /\ Open(r) => r.head = r.meant
      BY <1>6, <1>10 DEF FormsFit, FormFits
    <2>2. UNCHANGED <<calm, belongs, page, org>> /\ (calm => ~astray')
      BY <1>2 DEF FormsFit
    <2>3. Changes(i, r)
      BY <1>8
    <2> QED
      BY <1>6, <1>10, <2>1, <2>2, <2>3, FormsChanged
  <1> QED
    BY <1>12, <1>13, <1>14, <1>15

(* The second request names the organization again.                        *)
LEMMA RetryKeeps == ASSUME WebInv, NEW i \in DOMAIN sent, Retry(i), UNCHANGED calm PROVE WebInv'
  <1>1. sent[i].pc = "renewed" /\ auth' = [auth EXCEPT !.access = sent[i].as]
    BY DEF Retry
  <1>2. UNCHANGED <<org, cookie, page, cache, belongs, edition, astray, again>>
    BY DEF Retry
  <1>3. WebTypes
    BY DEF WebInv
  <1>4. sent[i] \in WebRequests
    BY <1>3, SentTyped
  <1>5. sent[i].as \in Tokens /\ sent[i].who \in Tokens
    BY <1>4, RequestTyped
  <1>6. Open(sent[i]) /\ RequestFits(sent[i]) /\ sent[i].what # "login" /\ sent[i].who # Nobody /\ sent[i].as # Nobody
    <2>1. Open(sent[i]) /\ RequestFits(sent[i])
      BY <1>1 DEF Open, WebInv, RequestsFit
    <2> QED
      BY <1>1, <2>1 DEF RequestFits, OpenLogin
  <1>7. auth' \in AuthTypes /\ auth'.user = auth.user /\ auth'.access # Nobody
    <2>1. auth \in AuthTypes
      BY <1>3, TypesGive
    <2> QED
      BY <1>1, <1>5, <1>6, <2>1 DEF AuthTypes
  <1>8. cookie.access \in Tokens /\ cookie.live \in BOOLEAN
    BY <1>3 DEF WebTypes
  <1>9. HeadOnRetry(sent[i]) \in Heads
        /\ HeadOnRetry(sent[i]) = IF org.chosen # NoFirm THEN org.chosen ELSE belongs[sent[i].who][1]
    <2>1. PICK a : a = [auth EXCEPT !.user = sent[i].who]
      OBVIOUS
    <2>2. a \in AuthTypes /\ a.user = sent[i].who
      BY <1>3, <1>5, <2>1, TypesGive DEF AuthTypes
    <2>3. org \in OrgTypes
      BY <1>3, TypesGive
    <2>4. HeadFirm(org, a) \in Heads
      BY <1>3, <2>2, <2>3, HeadIs
    <2>5. HeadOnRetry(sent[i]) = HeadFirm(org, a)
      BY <2>1 DEF HeadOnRetry
    <2> QED
      BY <1>6, <2>2, <2>4, <2>5 DEF HeadFirm
  <1>10. PICK r : r = [sent[i] EXCEPT !.pc = "sent", !.second = TRUE, !.as = cookie.access, !.live = cookie.live,
                                      !.head = HeadOnRetry(sent[i])]
    OBVIOUS
  <1>11. r \in WebRequests
    <2>1. "sent" \in Stages /\ 0 \in Statuses
      BY DEF Stages, Statuses
    <2> QED
      BY <1>4, <1>8, <1>9, <1>10, <2>1, RequestSet
  <1>12. r.pc = "sent" /\ r.as = cookie.access /\ r.head = HeadOnRetry(sent[i])
    BY <1>4, <1>10 DEF WebRequests
  <1>13. r.what = sent[i].what /\ r.who = sent[i].who /\ r.meant = sent[i].meant
    BY <1>4, <1>10 DEF WebRequests
  <1>14. Changes(i, r)
    <2>1. sent' = [sent EXCEPT ![i] = r]
      BY <1>10 DEF Retry
    <2> QED
      BY <1>3, <1>11, <2>1, ChangesIs
  <1>15. Open(r) /\ ~Given(r)
    BY <1>12 DEF Open, Given
  <1> USE DEF WebInv
  <1>16. RequestFits(r)'
    BY <1>6, <1>12, <1>13, <1>15 DEF RequestFits, OpenLogin, Given, Open
  <1>17. sent' \in Seq(WebRequests) /\ RequestsFit' /\ CacheFits'
    <2>1. \A f \in Firms, m \in Forms : edition'[f][m] >= edition[f][m] /\ edition'[f][m] \in Nat
      BY <1>2, <1>3 DEF WebTypes
    <2>2. UNCHANGED <<belongs, page, cache>> /\ cookie'.refresh = cookie.refresh
      BY <1>2
    <2> QED
      BY <1>6, <1>13, <1>14, <1>15, <1>16, <2>1, <2>2, OneChanged
  <1>18. WebTypes' /\ SessionFits'
    BY <1>2, <1>7, <1>17 DEF WebTypes, SessionFits, AuthTypes
  <1>19. PageFits'
    <2>1. Mine' => Mine /\ cookie.access = auth.user /\ sent[i].who = auth.user
      <3>1. Mine' => Mine
        BY <1>2, <1>7 DEF Mine, LoggedIn, SessionFits
      <3> QED
        BY <3>1, <1>6 DEF PageFits, OursFits
    <2>2. Mine' => OursFits(r, auth.user)
      BY <1>12, <1>13, <2>1 DEF OursFits
    <2>3. Mine => HeadFirm(org, auth) = IF org.chosen # NoFirm THEN org.chosen ELSE belongs[auth.user][1]
      BY DEF HeadFirm, Mine, LoggedIn
    <2>4. Mine' => \A k \in Screens : cache[k].by = i =>
              r.head = HeadFirm(org, auth) /\ (Given(r) => Covers(k, r.got, cache[k].due[HeadFirm(org, auth)]))
      BY <1>9, <1>12, <1>15, <2>1, <2>3
    <2>5. UNCHANGED <<again, org, belongs, cache, page>> /\ auth'.user = auth.user
      BY <1>2, <1>7
    <2>6. Mine' => Mine /\ cookie'.access = auth.user
      BY <1>2, <2>1
    <2> QED
      BY <1>14, <2>2, <2>4, <2>5, <2>6, PageChanged
  <1>20. FormsFit'
    <2>1. calm /\ r.what \in Forms /\ Open(r) => r.head = r.meant
      BY <1>6, <1>9, <1>12, <1>13 DEF FormsFit, FormFits
    <2>2. UNCHANGED <<calm, belongs, page, org>> /\ (calm => ~astray')
      BY <1>2 DEF FormsFit
    <2> QED
      BY <1>6, <1>13, <1>14, <2>1, <2>2, FormsChanged
  <1> QED
    BY <1>17, <1>18, <1>19, <1>20

-----------------------------------------------------------------------------
(* A request that is over leaves its place.                                *)
LEMMA OverIs ==
    ASSUME WebInv, NEW i \in DOMAIN sent, Open(sent[i])
    PROVE  /\ OldRequests(Over(i)) /\ Over(i) \in Seq(WebRequests) /\ DOMAIN Over(i) = DOMAIN sent
           /\ ~Open(Over(i)[i]) /\ \A j \in DOMAIN sent : j # i => Over(i)[j] = sent[j]
           /\ calm => \A j \in DOMAIN Over(i) : Over(i)[j].what \in Forms => ~Open(Over(i)[j])
  <1>1. NoRequest \in WebRequests /\ ~Open(NoRequest)
    <2>1. <<>> \in Seq(Firms) /\ [m \in Forms |-> 0] \in [Forms -> Nat]
      OBVIOUS
    <2> QED
      BY <2>1 DEF NoRequest, WebRequests, Tokens, Heads, Open
  <1>2. sent \in Seq(WebRequests)
    BY DEF WebInv, WebTypes
  <1> HIDE DEF NoRequest
  <1>3. Over(i) \in Seq(WebRequests) /\ Len(Over(i)) = Len(sent) /\ DOMAIN Over(i) = DOMAIN sent /\ Over(i)[i] = NoRequest
        /\ \A j \in DOMAIN sent : j # i => Over(i)[j] = sent[j]
    BY <1>1, <1>2 DEF Over
  <1>4. OldRequests(Over(i))
    BY <1>1, <1>3 DEF OldRequests
  <1>5. ASSUME calm, NEW j \in DOMAIN sent, j # i, sent[j].what \in Forms PROVE ~Open(sent[j])
    BY <1>5 DEF WebInv, FormsFit, FormFits
  <1> QED
    BY <1>1, <1>3, <1>4, <1>5

(* What a failure leaves of the line for k: nothing changed; or it failed, *)
(* and is perhaps asked for once more.                                     *)
FailedLine(k, i, a) ==
    \/ cache'[k] = cache[k] /\ cache[k].by # i
    \/ /\ LineKept(cache[k], cache'[k]) /\ cache'[k].stale = cache[k].stale
       /\ \/ cache'[k].by = 0 /\ cache'[k].failed /\ cache'[k].kept = cache[k].kept
          \/ LoggedIn(a) /\ cache[k].by = i /\ ~cache'[k].kept /\ cache'[k].by \in DOMAIN sent' /\ cache'[k].by # 0 /\ sent'[cache'[k].by] = Request(k, a.user, org, a)

(* What a failure makes of requests and cache.                             *)
LEMMA FailsIs ==
    ASSUME WebInv, NEW i \in DOMAIN sent, Open(sent[i]), NEW a \in AuthTypes, NEW once, Fails(i, a, once)
    PROVE  /\ NewRequests(Over(i), org, a) /\ \A j \in DOMAIN sent' : j > Len(Over(i)) => \E k \in Keys : sent'[j] = Request(k, a.user, org, a)
           /\ cache' \in [Keys -> CacheLine] /\ \A k \in Keys : FailedLine(k, i, a)
  <1> DEFINE k == sent[i].what
             s == Over(i)
             l == [cache[k] EXCEPT !.by = 0, !.failed = TRUE, !.tries = 1]
             c == [cache EXCEPT ![k].by = 0, ![k].failed = TRUE, ![k].tries = 1]
  <1>1. WebTypes /\ org \in OrgTypes /\ cache \in [Keys -> CacheLine]
    BY TypesGive DEF WebInv
  <1>2. s \in Seq(WebRequests) /\ DOMAIN s = DOMAIN sent /\ Len(s) \in Nat /\ DOMAIN s = 1..Len(s)
    BY OverIs
  <1>3. ASSUME NEW x \in Keys, x # k \/ cache[x].by # i PROVE cache[x].by # i
    <2>1. cache[x].by # 0 => Answers(x, sent[cache[x].by])
      BY DEF WebInv, CacheFits, LineFits
    <2>2. i # 0
      BY <1>1, SentTyped
    <2> QED
      BY <1>3, <2>1, <2>2 DEF Answers
  <1>4. CASE cache' = cache /\ sent' = s /\ ~(k \in Keys /\ cache[k].by = i)
    <2>1. \A x \in Keys : cache[x].by # i
      BY <1>3, <1>4
    <2>2. NewRequests(s, org, a) /\ ~\E j \in DOMAIN sent' : j > Len(s)
      BY <1>2, <1>4 DEF NewRequests
    <2> QED
      BY <1>1, <1>4, <2>1, <2>2 DEF FailedLine
  <1>5. ASSUME k \in Keys, cache[k].by = i
        PROVE  /\ c \in [Keys -> CacheLine] /\ c[k] = l /\ l \in CacheLine /\ l.by = 0 /\ l.failed /\ LineKept(cache[k], l)
               /\ l.stale = cache[k].stale /\ l.kept = cache[k].kept /\ \A x \in Keys \ {k} : c[x] = cache[x] /\ cache[x].by # i
    <2>1. cache[k] \in CacheLine
      BY <1>1, <1>5
    <2>2. l \in CacheLine
      BY <2>1 DEF CacheLine
    <2>3. l.by = 0 /\ l.failed /\ LineKept(cache[k], l) /\ l.stale = cache[k].stale /\ l.kept = cache[k].kept
      BY <2>1 DEF CacheLine, LineKept
    <2>4. c = [cache EXCEPT ![k] = l]
      BY <1>1, <1>5
    <2> HIDE DEF c, l
    <2>5. c \in [Keys -> CacheLine] /\ c[k] = l /\ \A x \in Keys \ {k} : c[x] = cache[x]
      BY <1>1, <1>5, <2>2, <2>4
    <2> QED
      BY <1>3, <2>2, <2>3, <2>5
  <1>6. CASE k \in Keys /\ cache[k].by = i /\ cache' = c /\ sent' = s
    <2>1. NewRequests(s, org, a) /\ ~\E j \in DOMAIN sent' : j > Len(s)
      BY <1>2, <1>6 DEF NewRequests
    <2> HIDE DEF c, l
    <2>2. ASSUME NEW x \in Keys PROVE FailedLine(x, i, a)
      BY <1>5, <1>6 DEF FailedLine
    <2> QED
      BY <1>5, <1>6, <2>1, <2>2
  <1>7. CASE k \in Keys /\ cache[k].by = i /\ Enabled(k, a) /\ Becomes(Fetch(k, c, s, org, a))
    <2> DEFINE req == Request(k, a.user, org, a)
               f == Fetch(k, c, s, org, a)
    <2>1. c \in [Keys -> CacheLine] /\ c[k] = l /\ l \in CacheLine /\ LineKept(cache[k], l) /\ l.stale = cache[k].stale
      BY <1>5, <1>7
    <2>2. \A x \in Keys \ {k} : c[x] = cache[x] /\ cache[x].by # i
      BY <1>5, <1>7
    <2>3. LoggedIn(a) /\ k \in Keys
      BY <1>7 DEF Enabled
    <2> HIDE DEF c, l
    <2>4. AskedFor(k, c, s, req, f)
      BY <1>1, <1>2, <2>1, <2>3, Fetched
    <2>5. cache' = f.cache /\ sent' = f.sent
      BY <1>7 DEF Becomes
    <2> HIDE DEF f, req
    <2>6. /\ cache' \in [Keys -> CacheLine] /\ sent' \in Seq(WebRequests)
          /\ Len(sent') = Len(s) + 1 /\ sent'[Len(s) + 1] = req /\ \A j \in DOMAIN s : sent'[j] = s[j]
          /\ \A x \in Keys \ {k} : cache'[x] = c[x]
          /\ cache'[k] = [l EXCEPT !.by = Len(s) + 1, !.failed = FALSE, !.kept = FALSE]
      BY <2>1, <2>4, <2>5 DEF AskedFor
    <2>7. \A j \in DOMAIN sent' : j > Len(s) => j = Len(s) + 1
      BY <1>2, <2>6
    <2>8. NewRequests(s, org, a) /\ \A j \in DOMAIN sent' : j > Len(s) => \E x \in Keys : sent'[j] = Request(x, a.user, org, a)
      BY <1>2, <2>3, <2>6, <2>7 DEF NewRequests, req
    <2>9. LineKept(l, cache'[k]) /\ cache'[k].stale = l.stale /\ cache'[k].by = Len(s) + 1 /\ ~cache'[k].kept /\ cache[k].by = i
      BY <1>7, <2>1, <2>6 DEF CacheLine, LineKept
    <2>10. Len(s) + 1 \in DOMAIN sent' /\ Len(s) + 1 # 0
      BY <1>2, <2>6
    <2>11. FailedLine(k, i, a)
      BY <2>1, <2>3, <2>6, <2>9, <2>10 DEF FailedLine, LineKept, req
    <2>12. \A x \in Keys \ {k} : FailedLine(x, i, a)
      BY <2>2, <2>6 DEF FailedLine
    <2> QED
      BY <2>6, <2>8, <2>11, <2>12
  <1> HIDE DEF c
  <1> QED
    BY <1>4, <1>6, <1>7 DEF Fails, c

(* A failure keeps requests, cache and forms.                              *)
LEMMA FailsKeeps ==
    ASSUME WebInv, UNCHANGED calm, NEW i \in DOMAIN sent, Open(sent[i]), NEW a \in AuthTypes, NEW once, Fails(i, a, once),
           UNCHANGED <<org, cookie, page, belongs, edition, astray, again>>, auth' = a
    PROVE  sent' \in Seq(WebRequests) /\ cache' \in [Keys -> CacheLine] /\ RequestsFit' /\ CacheFits' /\ FormsFit'
  <1>1. WebTypes
    BY DEF WebInv
  <1>2. org \in OrgTypes
    BY <1>1, TypesGive
  <1>3. NewRequests(Over(i), org, a) /\ \A j \in DOMAIN sent' : j > Len(Over(i)) => \E k \in Keys : sent'[j] = Request(k, a.user, org, a)
    BY FailsIs
  <1>4. cache' \in [Keys -> CacheLine] /\ \A k \in Keys : FailedLine(k, i, a)
    BY FailsIs
  <1>5. OldRequests(Over(i)) /\ Over(i) \in Seq(WebRequests)
    BY OverIs
  <1>6. RequestsFit'
    <2>1. UNCHANGED <<belongs, edition>> /\ cookie'.refresh = cookie.refresh /\ page'.path = page.path
      OBVIOUS
    <2>2. RequestsFit
      BY DEF WebInv
    <2> QED
      BY <1>1, <1>2, <1>3, <1>5, <2>1, <2>2, RequestsAfter
  <1>7. CacheFits'
    <2> SUFFICES ASSUME NEW k \in Keys PROVE LineFits(k, cache[k], sent)'
      BY DEF CacheFits
    <2>1. LineFits(k, cache[k], sent) /\ FailedLine(k, i, a)
      BY <1>4 DEF WebInv, CacheFits
    <2>2. cache'[k].by # 0 => cache'[k].by \in DOMAIN sent' /\ Answers(k, sent'[cache'[k].by])
      <3>1. CASE cache'[k] = cache[k] /\ cache[k].by # i /\ cache[k].by # 0
        <4>1. cache[k].by \in DOMAIN sent /\ Answers(k, sent[cache[k].by])
          BY <2>1, <3>1 DEF LineFits
        <4>2. Over(i)[cache[k].by] = sent[cache[k].by] /\ cache[k].by \in DOMAIN Over(i)
          BY <3>1, <4>1, OverIs
        <4>3. sent'[cache[k].by] = sent[cache[k].by] /\ cache[k].by \in DOMAIN sent'
          BY <1>3, <1>5, <4>2 DEF NewRequests
        <4> QED
          BY <3>1, <4>1, <4>3
      <3>2. CASE LoggedIn(a) /\ cache'[k].by \in DOMAIN sent' /\ sent'[cache'[k].by] = Request(k, a.user, org, a)
        <4>1. Answers(k, sent'[cache'[k].by])
          BY <1>1, <1>2, <3>2, NewFits DEF Answers, Open, LoggedIn
        <4> QED
          BY <3>2, <4>1
      <3> QED
        BY <2>1, <3>1, <3>2 DEF FailedLine
    <2>3. cache'[k].due = cache[k].due
      BY <2>1 DEF FailedLine, LineKept
    <2>4. cache'[k].by # 0 /\ cache'[k].kept => cache'[k].stale
      BY <2>1 DEF FailedLine, LineFits
    <2> QED
      BY <2>1, <2>2, <2>3, <2>4 DEF LineFits, Answers, Open
  <1>8. FormsFit'
    <2>1. calm => \A j \in DOMAIN Over(i) : Over(i)[j].what \in Forms => ~Open(Over(i)[j])
      BY OverIs
    <2>2. FormsFit /\ UNCHANGED <<calm, astray>>
      BY DEF WebInv
    <2> QED
      BY <1>1, <1>2, <1>3, <1>5, <2>1, <2>2, FormsAfter
  <1>9. sent' \in Seq(WebRequests)
    BY <1>3 DEF NewRequests
  <1> QED
    BY <1>4, <1>6, <1>7, <1>8, <1>9

(* When the session ends nobody is left to see the page.                   *)
LEMMA SessionEndsKeeps == ASSUME WebInv, NEW i \in DOMAIN sent, SessionEnds(i), UNCHANGED calm PROVE WebInv'
  <1>1. auth' = NoAuth /\ UNCHANGED <<org, cookie, page, belongs, edition, astray, again>> /\ Open(sent[i])
    BY DEF SessionEnds, Open
  <1>2. NoAuth \in AuthTypes /\ NoAuth.user = Nobody
    BY DEF NoAuth, AuthTypes, Tokens
  <1>3. PICK once : Fails(i, NoAuth, once)
    BY DEF SessionEnds
  <1>4. sent' \in Seq(WebRequests) /\ cache' \in [Keys -> CacheLine] /\ RequestsFit' /\ CacheFits' /\ FormsFit'
    BY <1>1, <1>2, <1>3, FailsKeeps
  <1>5. WebTypes' /\ SessionFits'
    BY <1>1, <1>2, <1>4 DEF WebInv, WebTypes, SessionFits, AuthTypes
  <1>6. PageFits'
    BY <1>1, <1>2, NobodysPage
  <1> QED
    BY <1>4, <1>5, <1>6 DEF WebInv

(* A query that failed shows no data as current; one asked for once more   *)
(* is asked for in the organization shown.                                 *)
LEMMA GivenUpKeeps == ASSUME WebInv, NEW i \in DOMAIN sent, GivenUp(i), UNCHANGED calm PROVE WebInv'
  <1>1. UNCHANGED <<auth, org, cookie, page, belongs, edition, astray, again>> /\ Open(sent[i])
    BY DEF GivenUp, Open
  <1>2. WebTypes
    BY DEF WebInv
  <1>3. auth \in AuthTypes /\ org \in OrgTypes
    BY <1>2, TypesGive
  <1>4. PICK once : Fails(i, auth, once)
    BY DEF GivenUp
  <1>5. sent' \in Seq(WebRequests) /\ cache' \in [Keys -> CacheLine] /\ RequestsFit' /\ CacheFits' /\ FormsFit'
    BY <1>1, <1>3, <1>4, FailsKeeps
  <1>6. WebTypes' /\ SessionFits'
    BY <1>1, <1>5 DEF WebInv, WebTypes, SessionFits
  <1>7. PageFits'
    <2> DEFINE h == HeadFirm(org, auth)
    <2> SUFFICES ASSUME Mine'
                 PROVE  /\ cookie.access = auth.user /\ \A j \in DOMAIN sent' : OursFits(sent'[j], auth.user)
                        /\ \A k \in Screens : ScreenFits(k, cache[k], sent, HeadFirm(org, auth), auth.user)'
      BY <1>1 DEF PageFits
    <2>1. Mine /\ LoggedIn(auth)
      BY <1>1 DEF Mine, LoggedIn
    <2>2. cookie.access = auth.user /\ \A j \in DOMAIN sent : OursFits(sent[j], auth.user)
      BY <2>1 DEF WebInv, PageFits
    <2>3. NewRequests(Over(i), org, auth)
      BY <1>1, <1>3, <1>4, FailsIs
    <2>4. ~Open(Over(i)[i]) /\ DOMAIN Over(i) = DOMAIN sent /\ DOMAIN Over(i) = 1..Len(Over(i)) /\ Len(Over(i)) \in Nat
          /\ \A j \in DOMAIN sent : j # i => Over(i)[j] = sent[j]
      BY <1>1, OverIs
    <2>5. ASSUME NEW j \in DOMAIN sent' PROVE OursFits(sent'[j], auth.user)
      <3>1. CASE j \in DOMAIN Over(i)
        <4>1. sent'[j] = Over(i)[j]
          BY <2>3, <3>1 DEF NewRequests
        <4> QED
          BY <2>2, <2>4, <3>1, <4>1 DEF OursFits
      <3>2. CASE j \notin DOMAIN Over(i)
        <4>1. j > Len(Over(i))
          BY <2>3, <2>4, <3>2 DEF NewRequests
        <4>2. PICK k \in Keys \cup Forms : sent'[j] = Request(k, auth.user, org, auth)
          BY <2>3, <4>1 DEF NewRequests
        <4> QED
          BY <1>2, <1>3, <2>1, <2>2, <4>2, NewFits DEF OursFits
      <3> QED
        BY <3>1, <3>2
    <2>6. ASSUME NEW k \in Screens PROVE ScreenFits(k, cache[k], sent, HeadFirm(org, auth), auth.user)'
      <3>1. ScreenFits(k, cache[k], sent, h, auth.user)
        BY <2>1 DEF WebInv, PageFits
      <3>2. k \in Keys
        BY NamesDiffer
      <3>3. FailedLine(k, i, auth) /\ LineFits(k, cache[k], sent)
        BY <1>1, <1>3, <1>4, <3>2, FailsIs DEF WebInv, CacheFits
      <3>4. HeadFirm(org, auth)' = h
        BY <1>1 DEF HeadFirm
      <3> HIDE DEF h
      <3>5. CASE cache'[k] = cache[k] /\ cache[k].by # i
        <4>1. cache[k].by # 0 => cache[k].by \in DOMAIN sent
          BY <3>3 DEF LineFits
        <4>2. cache[k].by # 0 => sent'[cache[k].by] = sent[cache[k].by]
          BY <2>3, <2>4, <3>5, <4>1 DEF NewRequests
        <4> QED
          BY <1>1, <3>1, <3>4, <3>5, <4>2 DEF ScreenFits, Coming, Current, Covers, Given
      <3>6. CASE LineKept(cache[k], cache'[k]) /\ cache'[k].stale = cache[k].stale /\ cache'[k].by = 0 /\ cache'[k].failed
                 /\ cache'[k].kept = cache[k].kept
        BY <1>1, <3>1, <3>4, <3>6 DEF ScreenFits, Coming, Current, Covers, LineKept
      <3>7. CASE /\ LineKept(cache[k], cache'[k]) /\ cache'[k].stale = cache[k].stale /\ cache'[k].by # 0
                 /\ sent'[cache'[k].by] = Request(k, auth.user, org, auth) /\ cache[k].by = i
        <4>0. i # 0 /\ (cache[k].kept => cache[k].stale)
          BY <1>1, <3>3, <3>7, SentTyped DEF LineFits, WebInv
        <4>1. sent'[cache'[k].by].head = h /\ sent'[cache'[k].by].pc = "sent"
          BY <1>2, <1>3, <2>1, <3>2, <3>7, NewFits DEF h
        <4> QED
          BY <1>1, <3>1, <3>4, <3>7, <4>0, <4>1 DEF ScreenFits, Coming, Current, Covers, LineKept, Given
      <3> QED
        BY <3>3, <3>5, <3>6, <3>7 DEF FailedLine
    <2> QED
      BY <2>2, <2>5, <2>6
  <1> QED
    BY <1>5, <1>6, <1>7 DEF WebInv

(* Nothing is asked for when a request is over.                            *)
LEMMA OverOnly ==
    ASSUME WebInv, NEW i \in DOMAIN sent, Open(sent[i]), sent' = Over(i), NEW o, NEW a
    PROVE  NewRequests(Over(i), o, a) /\ \A j \in DOMAIN sent' : ~(j > Len(Over(i)))
  <1>1. Over(i) \in Seq(WebRequests)
    BY OverIs
  <1> HIDE DEF Over
  <1>2. DOMAIN Over(i) = 1..Len(Over(i)) /\ Len(Over(i)) \in Nat
    BY <1>1
  <1> QED
    BY <1>1, <1>2 DEF NewRequests

(* A line that waits for another request waits on.                         *)
LEMMA OthersWait ==
    ASSUME WebInv, NEW i \in DOMAIN sent, Open(sent[i]), NEW k \in Keys, k # sent[i].what \/ cache[k].by # i
    PROVE  cache[k].by # i /\ LineFits(k, cache[k], Over(i))
           /\ (cache[k].by # 0 => cache[k].by \in DOMAIN sent /\ Over(i)[cache[k].by] = sent[cache[k].by])
  <1>1. LineFits(k, cache[k], sent)
    BY DEF WebInv, CacheFits
  <1>2. cache[k].by # i
    <2>1. i # 0
      BY SentTyped DEF WebInv
    <2> QED
      BY <1>1, <2>1 DEF LineFits, Answers
  <1> QED
    BY <1>1, <1>2, OverIs DEF LineFits

(* A login that finds nothing left behind starts with nothing cached.      *)
LEMMA LoginKeeps == ASSUME WebInv, NEW i \in DOMAIN sent, LoginAnswered(i), UNCHANGED calm PROVE WebInv'
  <1>1. sent[i].pc = "answered" /\ sent[i].status = 200 /\ sent[i].what = "login"
    BY DEF LoginAnswered
  <1>2. UNCHANGED <<org, cookie, belongs, edition, astray>> /\ again' = (again \/ LeftBehind(i))
    BY DEF LoginAnswered
  <1>3. WebTypes /\ sent[i] \in WebRequests
    BY SentTyped DEF WebInv
  <1>4. Open(sent[i]) /\ OpenLogin(sent[i]) /\ Given(sent[i]) /\ RequestFits(sent[i])
    BY <1>1 DEF Open, OpenLogin, Given, WebInv, RequestsFit
  <1>5. sent[i].who \in Tokens /\ sent[i].who # Nobody
    <2>1. sent[i].who \in Tokens
      BY <1>3, RequestTyped
    <2> QED
      BY <1>1, <1>4, <2>1 DEF RequestFits
  <1>6. page.path = "login" /\ auth.user = Nobody /\ (Len(sent[i].list) = 1 => cookie.refresh = sent[i].who)
    BY <1>4 DEF RequestFits, WebInv, SessionFits
  <1>7. OldRequests(Over(i)) /\ Over(i) \in Seq(WebRequests) /\ DOMAIN Over(i) = DOMAIN sent /\ ~Open(Over(i)[i])
        /\ (\A j \in DOMAIN sent : j # i => Over(i)[j] = sent[j])
        /\ (calm => \A j \in DOMAIN Over(i) : Over(i)[j].what \in Forms => ~Open(Over(i)[j]))
    BY <1>4, OverIs
  <1>8. \A j \in DOMAIN Over(i) : ~OpenLogin(Over(i)[j])
    <2>1. OneLogin
      BY DEF WebInv, RequestsFit
    <2> QED
      BY <1>4, <1>7, <2>1 DEF OneLogin, OpenLogin
  <1>9. \A k \in Keys : LineFits(k, cache[k], Over(i)) /\ cache[k].by # i
                        /\ (cache[k].by # 0 => cache[k].by \in DOMAIN sent /\ Answers(k, sent[cache[k].by]))
    <2> SUFFICES ASSUME NEW k \in Keys
                 PROVE  LineFits(k, cache[k], Over(i)) /\ cache[k].by # i
                        /\ (cache[k].by # 0 => cache[k].by \in DOMAIN sent /\ Answers(k, sent[cache[k].by]))
      OBVIOUS
    <2>1. k # sent[i].what
      BY <1>1, NamesDiffer
    <2>2. LineFits(k, cache[k], Over(i)) /\ cache[k].by # i
      BY <1>4, <2>1, OthersWait
    <2>3. LineFits(k, cache[k], sent)
      BY DEF WebInv, CacheFits
    <2> QED
      BY <2>2, <2>3 DEF LineFits
  <1>10. org \in OrgTypes /\ auth \in AuthTypes /\ page \in Pages /\ cache \in [Keys -> CacheLine]
    BY <1>3, TypesGive
  <1> HIDE DEF Over
  <1>11. CASE Len(sent[i].list) = 1
    <2> DEFINE a == [auth EXCEPT !.user = sent[i].who, !.access = sent[i].who]
               p == [path |-> "app", shows |-> "none"]
    <2>1. auth' = a /\ page' = p /\ Becomes(Refresh({}, cache, Over(i), org, a, p))
      BY <1>11 DEF LoginAnswered
    <2>2. a \in AuthTypes /\ a.user = sent[i].who /\ a.access = sent[i].who
      BY <1>5, <1>10 DEF AuthTypes
    <2>3. p \in Pages /\ p.path = "app"
      BY DEF Pages
    <2> HIDE DEF a, p
    <2>4. NewRequests(Over(i), org, a) /\ Refreshes({}, cache, Over(i), org, a, p)
      BY <1>3, <1>7, <1>10, <2>1, <2>2, <2>3, RefreshesIs
    <2>5. WebTypes'
      BY <1>2, <1>3, <2>1, <2>2, <2>3, <2>4 DEF WebTypes, NewRequests, Refreshes, AuthTypes, Pages
    <2>6. SessionFits'
      BY <1>2, <1>5, <1>6, <1>11, <2>1, <2>2, <2>3 DEF SessionFits
    <2>7. RequestsFit'
      <3>1. UNCHANGED <<belongs, edition>> /\ cookie'.refresh = cookie.refresh
        BY <1>2
      <3>2. RequestsFit
        BY DEF WebInv
      <3> QED
        BY <1>3, <1>7, <1>8, <1>10, <2>2, <2>4, <3>1, <3>2, RequestsAfter
    <2>8. CacheFits'
      <3>1. edition' = edition /\ {} \in SUBSET Keys
        BY <1>2
      <3> QED
        BY <1>3, <1>7, <1>9, <1>10, <2>2, <2>3, <2>4, <3>1, CacheAfter
    <2>9. PageFits'
      <3>1. NewRequests(Over(i), org', auth') /\ Refreshes({}, cache, Over(i), org', auth', page')
        BY <1>2, <2>1, <2>4
      <3>2. Mine' => /\ cookie.access = auth.user'
                     /\ \A j \in DOMAIN Over(i) : OursFits(Over(i)[j], auth.user')
                     /\ \A k \in Screens \ {} : Ready(k, cache[k], Over(i), HeadFirm(org', auth'), auth.user')
        <4> SUFFICES ASSUME Mine'
                     PROVE  /\ cookie.access = auth.user'
                            /\ \A j \in DOMAIN Over(i) : OursFits(Over(i)[j], auth.user')
                            /\ \A k \in Screens : Ready(k, cache[k], Over(i), HeadFirm(org', auth'), auth.user')
          OBVIOUS
        <4>1. ~LeftBehind(i)
          BY <1>2 DEF Mine
        <4>2. /\ cookie.access = sent[i].who /\ \A k \in Keys : ~cache[k].known
              /\ \A j \in DOMAIN sent \ {i} : ~Open(sent[j]) \/ sent[j].who = Nobody
          BY <4>1 DEF LeftBehind, Open
        <4>3. auth'.user = sent[i].who
          BY <2>1, <2>2
        <4>4. ASSUME NEW j \in DOMAIN Over(i) PROVE OursFits(Over(i)[j], auth'.user)
          BY <1>7, <4>2 DEF OursFits
        <4>5. ASSUME NEW k \in Screens PROVE Ready(k, cache[k], Over(i), HeadFirm(org', auth'), auth'.user)
          <5>1. k \in Keys
            BY NamesDiffer
          <5>2. cache[k].by = 0
            BY <1>9, <4>2, <5>1 DEF Answers
          <5> QED
            BY <4>2, <5>1, <5>2 DEF Ready, Coming
        <4> QED
          BY <4>2, <4>3, <4>4, <4>5
      <3>3. UNCHANGED <<belongs, cookie>> /\ {} \in SUBSET Keys
        BY <1>2
      <3>4. \A k \in Keys : LineFits(k, cache[k], Over(i))
        BY <1>9
      <3> QED
        BY <1>3, <1>7, <1>10, <2>5, <2>6, <3>1, <3>2, <3>3, <3>4, PageAfter
    <2>10. FormsFit'
      <3>1. FormsFit /\ UNCHANGED <<calm, astray>>
        BY <1>2 DEF WebInv
      <3>2. \A j \in DOMAIN sent' : j > Len(Over(i)) => \E k \in Keys : sent'[j] = Request(k, a.user, org, a)
        BY <2>4 DEF Refreshes
      <3> QED
        BY <1>3, <1>7, <1>10, <2>2, <2>4, <3>1, <3>2, FormsAfter
    <2> QED
      BY <2>5, <2>6, <2>7, <2>8, <2>9, <2>10 DEF WebInv
  <1>12. CASE Len(sent[i].list) # 1
    <2>1. page' = [page EXCEPT !.path = "select"] /\ sent' = Over(i) /\ UNCHANGED <<auth, cache>>
      BY <1>12 DEF LoginAnswered
    <2>2. page' \in Pages
      BY <1>10, <2>1 DEF Pages
    <2>3. NewRequests(Over(i), org, auth) /\ \A j \in DOMAIN sent' : ~(j > Len(Over(i)))
      BY <1>4, <2>1, OverOnly
    <2>4. WebTypes' /\ SessionFits'
      BY <1>2, <1>3, <1>6, <1>7, <2>1, <2>2 DEF WebTypes, SessionFits, Pages
    <2>5. RequestsFit'
      <3>1. UNCHANGED <<belongs, edition>> /\ cookie'.refresh = cookie.refresh
        BY <1>2
      <3>2. RequestsFit
        BY DEF WebInv
      <3> QED
        BY <1>3, <1>7, <1>8, <1>10, <2>3, <3>1, <3>2, RequestsAfter
    <2>6. CacheFits'
      BY <1>2, <1>9, <2>1 DEF CacheFits, LineFits, Answers, Open
    <2>7. PageFits'
      BY <1>6, <2>1, NobodysPage
    <2>8. FormsFit'
      <3>1. FormsFit /\ UNCHANGED <<calm, astray>>
        BY <1>2 DEF WebInv
      <3> QED
        BY <1>3, <1>7, <1>10, <2>3, <3>1, FormsAfter
    <2> QED
      BY <2>4, <2>5, <2>6, <2>7, <2>8 DEF WebInv
  <1> QED
    BY <1>11, <1>12

(* An answer that comes in is the one its line waited for, or is not       *)
(* shown; the organization chosen then is the one that was named.          *)
LEMMA GetsKeeps == ASSUME WebInv, NEW i \in DOMAIN sent, Gets(i), UNCHANGED calm PROVE WebInv'
  <1> DEFINE r == sent[i]
             k == sent[i].what
             h == HeadFirm(org, auth)
             l == [cache[k] EXCEPT !.firm = r.head, !.of = r.as, !.ver = r.got, !.known = TRUE, !.stale = FALSE, !.failed = FALSE,
                                   !.by = 0, !.tries = 0]
  <1>1. r.pc = "answered" /\ r.status = 200 /\ k \in Keys /\ sent' = Over(i)
    BY DEF Gets
  <1>2. UNCHANGED <<auth, cookie, page, belongs, edition, astray, again>>
    BY DEF Gets
  <1>3. WebTypes /\ r \in WebRequests
    BY SentTyped DEF WebInv
  <1>4. Open(r) /\ Given(r) /\ RequestFits(r)
    BY <1>1 DEF Open, Given, WebInv, RequestsFit
  <1>5. k # "login"
    BY <1>1, NamesDiffer
  <1>6. r.who # Nobody /\ r.as \in People /\ r.list # <<>> /\ r.list[1] = belongs[r.as][1]
    BY <1>1, <1>4, <1>5 DEF RequestFits
  <1>7. r.head \in Heads /\ r.as \in Tokens /\ r.got \in [Forms -> Nat] /\ r.list \in Seq(Firms)
    BY <1>3, RequestTyped
  <1>8. org \in OrgTypes /\ auth \in AuthTypes /\ page \in Pages /\ cache \in [Keys -> CacheLine]
    BY <1>3, TypesGive
  <1>9. org' = org \/ org' = [chosen |-> IF org.chosen = NoFirm THEN r.list[1] ELSE org.chosen, known |-> r.list]
    BY DEF Gets
  <1>10. org' \in OrgTypes /\ (org'.chosen = org.chosen \/ (org.chosen = NoFirm /\ org'.chosen = belongs[r.as][1]))
    <2>1. r.list[1] \in Firms
      BY <1>6, <1>7
    <2> QED
      BY <1>6, <1>7, <1>8, <1>9, <2>1 DEF OrgTypes, Heads
  <1>11. /\ l \in CacheLine
         /\ l.firm = r.head /\ l.of = r.as /\ l.ver = r.got /\ l.due = cache[k].due /\ l.by = 0 /\ l.kept = cache[k].kept
    <2>1. cache[k] \in CacheLine
      BY <1>1, <1>8
    <2>2. l \in CacheLine
      BY <1>7, <2>1 DEF CacheLine
    <2> QED
      BY <2>1, <2>2 DEF CacheLine
  <1>12. \/ cache' = cache /\ cache[k].by # i
         \/ cache' = [cache EXCEPT ![k] = l] /\ cache[k].by = i
    BY <1>1, <1>8 DEF Gets
  <1> HIDE DEF l
  <1>13. /\ cache' \in [Keys -> CacheLine]
         /\ \A x \in Keys : \/ cache'[x] = cache[x] /\ (x # k \/ cache[x].by # i)
                            \/ x = k /\ cache'[x] = l /\ cache[x].by = i
    BY <1>1, <1>8, <1>11, <1>12
  <1>14. OldRequests(Over(i)) /\ Over(i) \in Seq(WebRequests) /\ DOMAIN Over(i) = DOMAIN sent /\ ~Open(Over(i)[i])
         /\ (\A j \in DOMAIN sent : j # i => Over(i)[j] = sent[j])
         /\ (calm => \A j \in DOMAIN Over(i) : Over(i)[j].what \in Forms => ~Open(Over(i)[j]))
    BY <1>4, OverIs
  <1>15. NewRequests(Over(i), org, auth) /\ \A j \in DOMAIN sent' : ~(j > Len(Over(i)))
    BY <1>1, <1>4, OverOnly
  <1> HIDE DEF Over
  <1>16. WebTypes' /\ SessionFits'
    BY <1>1, <1>2, <1>3, <1>10, <1>13, <1>14 DEF WebInv, WebTypes, SessionFits, OrgTypes
  <1>17. RequestsFit'
    <2>1. UNCHANGED <<belongs, edition>> /\ cookie'.refresh = cookie.refresh /\ page'.path = page.path
      BY <1>2
    <2>2. RequestsFit
      BY DEF WebInv
    <2> QED
      BY <1>3, <1>8, <1>14, <1>15, <2>1, <2>2, RequestsAfter
  <1>18. CacheFits'
    <2> SUFFICES ASSUME NEW x \in Keys PROVE LineFits(x, cache[x], sent)'
      BY DEF CacheFits
    <2>1. LineFits(x, cache[x], sent)
      BY DEF WebInv, CacheFits
    <2>2. CASE cache'[x] = cache[x] /\ (x # k \/ cache[x].by # i)
      <3>1. LineFits(x, cache[x], Over(i))
        BY <1>4, <2>2, OthersWait
      <3> QED
        BY <1>1, <1>2, <2>2, <3>1 DEF LineFits, Answers, Open
    <2>3. CASE x = k /\ cache'[x] = l
      BY <1>2, <1>11, <2>1, <2>3 DEF LineFits
    <2> QED
      BY <1>13, <2>2, <2>3
  <1>19. PageFits'
    <2> SUFFICES ASSUME Mine'
                 PROVE  /\ cookie.access = auth.user /\ \A j \in DOMAIN sent' : OursFits(sent'[j], auth.user)
                        /\ \A x \in Screens : ScreenFits(x, cache[x], sent, HeadFirm(org, auth), auth.user)'
      BY <1>2 DEF PageFits
    <2>1. Mine /\ LoggedIn(auth)
      BY <1>2 DEF Mine, LoggedIn
    <2>2. cookie.access = auth.user /\ \A j \in DOMAIN sent : OursFits(sent[j], auth.user)
      BY <2>1 DEF WebInv, PageFits
    <2>3. \A j \in DOMAIN sent' : OursFits(sent'[j], auth.user)
      BY <1>1, <1>14, <2>2 DEF OursFits
    <2>4. r.as = auth.user
      BY <1>4, <1>6, <2>2 DEF OursFits
    <2>5. HeadFirm(org, auth)' = h
      BY <1>2, <1>10, <2>1, <2>4, WebNames DEF HeadFirm, LoggedIn
    <2>6. ASSUME NEW x \in Screens PROVE ScreenFits(x, cache[x], sent, HeadFirm(org, auth), auth.user)'
      <3>1. ScreenFits(x, cache[x], sent, h, auth.user)
        BY <2>1 DEF WebInv, PageFits
      <3>2. x \in Keys
        BY NamesDiffer
      <3> HIDE DEF h
      <3>3. CASE cache'[x] = cache[x] /\ (x # k \/ cache[x].by # i)
        <4>1. cache[x].by # 0 => sent'[cache[x].by] = sent[cache[x].by]
          BY <1>1, <1>4, <3>2, <3>3, OthersWait
        <4> QED
          BY <1>2, <2>5, <3>1, <3>3, <4>1 DEF ScreenFits, Coming, Current, Covers, Given
      <3>4. CASE x = k /\ cache'[x] = l /\ cache[x].by = i
        <4>1. i # 0
          BY <1>3, SentTyped
        <4>2. ~l.kept => r.head = h /\ Covers(x, r.got, cache[x].due[h])
          BY <1>4, <1>11, <3>1, <3>4, <4>1 DEF ScreenFits, Coming
        <4>3. ~l.kept => Current(x, l, h, auth.user)
          BY <1>11, <2>4, <3>4, <4>2 DEF Current
        <4> QED
          BY <1>2, <1>11, <2>5, <3>4, <4>3 DEF ScreenFits, Coming, Current, Covers
      <3> QED
        BY <1>13, <3>2, <3>3, <3>4
    <2> QED
      BY <2>2, <2>3, <2>6
  <1>20. FormsFit'
    <2>1. FormsFit /\ UNCHANGED <<calm, astray>>
      BY <1>2 DEF WebInv
    <2> QED
      BY <1>3, <1>8, <1>14, <1>15, <2>1, FormsAfter
  <1> QED
    BY <1>16, <1>17, <1>18, <1>19, <1>20 DEF WebInv

(* What a write changes and its hook does not refresh is overlooked.       *)
LEMMA NotOverlooked ==
    ASSUME NEW m \in Forms, NEW k \in Screens, <<m, k>> \notin Overlooked, AllWrites[m].changes \cap AllQueries[k].shows # {}
    PROVE  k \in Refreshed(m)
  <1>1. m \in DOMAIN AllWrites /\ k \in DOMAIN AllQueries
    BY WebKeys
  <1>2. k \in AllWrites[m].refreshes
    BY <1>1 DEF Overlooked
  <1> QED
    BY <1>2, NamesDiffer DEF Refreshed

(* A write that is answered is owed by the queries it changes, and those   *)
(* that owe it are asked for again unless overlooked.                      *)
LEMMA WriteDoneKeeps == ASSUME WebInv, NEW i \in DOMAIN sent, WriteDone(i), UNCHANGED calm PROVE WebInv'
  <1> DEFINE r == sent[i]
             m == sent[i].what
             g == Firm(sent[i])
             h == HeadFirm(org, auth)
             owed == [k \in Keys |-> IF AllWrites[r.what].changes \cap AllQueries[k].shows # {}
                                        THEN [cache[k] EXCEPT !.due[Firm(r)][r.what] = r.got[r.what]] ELSE cache[k]]
             ks == Refreshed(m)
  <1>1. r.pc = "answered" /\ r.status = 200 /\ m \in Forms /\ Becomes(Refresh(ks, owed, Over(i), org, auth, page))
    BY DEF WriteDone
  <1>2. UNCHANGED <<auth, org, cookie, page, belongs, edition, astray, again>>
    BY DEF WriteDone
  <1>3. WebTypes /\ r \in WebRequests
    BY SentTyped DEF WebInv
  <1>4. Open(r) /\ Given(r) /\ RequestFits(r)
    BY <1>1 DEF Open, Given, WebInv, RequestsFit
  <1>5. m # "login" /\ m \notin Keys
    BY <1>1, NamesDiffer
  <1>6. g \in Firms /\ r.got[m] <= edition[g][m]
    BY <1>1, <1>4, <1>5 DEF RequestFits
  <1>7. r.got[m] \in Nat
    <2>1. r.got \in [Forms -> Nat]
      BY <1>3, RequestTyped
    <2> QED
      BY <1>1, <2>1
  <1>8. org \in OrgTypes /\ auth \in AuthTypes /\ page \in Pages /\ cache \in [Keys -> CacheLine]
    BY <1>3, TypesGive
  <1>9. ks \in SUBSET Keys
    BY DEF Refreshed
  <1>10. ASSUME NEW k \in Keys
         PROVE  /\ owed[k] \in CacheLine /\ owed[k].by = cache[k].by /\ owed[k].known = cache[k].known /\ owed[k].stale = cache[k].stale
                /\ owed[k].kept = cache[k].kept
                /\ owed[k].of = cache[k].of /\ owed[k].firm = cache[k].firm /\ owed[k].ver = cache[k].ver
                /\ \A f \in Firms, n \in Forms :
                      \/ owed[k].due[f][n] = cache[k].due[f][n]
                      \/ f = g /\ n = m /\ owed[k].due[f][n] = r.got[m] /\ AllWrites[m].changes \cap AllQueries[k].shows # {}
    <2>1. cache[k] \in CacheLine
      BY <1>8
    <2>2. CASE AllWrites[m].changes \cap AllQueries[k].shows = {}
      BY <2>1, <2>2
    <2>3. CASE AllWrites[m].changes \cap AllQueries[k].shows # {}
      <3> DEFINE d == [cache[k].due EXCEPT ![g] = [cache[k].due[g] EXCEPT ![m] = r.got[m]]]
                 l == [cache[k] EXCEPT !.due = d]
      <3>1. cache[k].due \in [Firms -> [Forms -> Nat]]
        BY <2>1 DEF CacheLine
      <3>2. cache[k].due[g] \in [Forms -> Nat]
        BY <1>6, <3>1
      <3>3. [cache[k].due[g] EXCEPT ![m] = r.got[m]] \in [Forms -> Nat]
        BY <1>1, <1>7, <3>2
      <3>4. d \in [Firms -> [Forms -> Nat]]
        BY <1>6, <3>1, <3>3
      <3>5. \A f \in Firms, n \in Forms : d[f][n] = cache[k].due[f][n] \/ (f = g /\ n = m /\ d[f][n] = r.got[m])
        BY <1>1, <1>6, <3>1, <3>2
      <3>6. owed[k] = l
        BY <2>1, <2>3, <3>1, <3>2 DEF CacheLine
      <3> HIDE DEF d, owed
      <3>7. l \in CacheLine
        BY <2>1, <3>4 DEF CacheLine
      <3>8. l.due = d /\ l.by = cache[k].by /\ l.known = cache[k].known /\ l.stale = cache[k].stale /\ l.kept = cache[k].kept
            /\ l.of = cache[k].of /\ l.firm = cache[k].firm /\ l.ver = cache[k].ver
        BY <2>1 DEF CacheLine
      <3> HIDE DEF l
      <3> QED
        BY <2>3, <3>5, <3>6, <3>7, <3>8
    <2> QED
      BY <2>2, <2>3
  <1>11. owed \in [Keys -> CacheLine]
    BY <1>10
  <1>12. OldRequests(Over(i)) /\ Over(i) \in Seq(WebRequests) /\ DOMAIN Over(i) = DOMAIN sent /\ ~Open(Over(i)[i])
         /\ (\A j \in DOMAIN sent : j # i => Over(i)[j] = sent[j])
         /\ (calm => \A j \in DOMAIN Over(i) : Over(i)[j].what \in Forms => ~Open(Over(i)[j]))
    BY <1>4, OverIs
  <1> HIDE DEF owed, ks, Over
  <1>13. NewRequests(Over(i), org, auth) /\ Refreshes(ks, owed, Over(i), org, auth, page)
    BY <1>1, <1>3, <1>8, <1>9, <1>11, <1>12, RefreshesIs
  <1>14. ASSUME NEW k \in Keys
         PROVE  /\ LineFits(k, cache[k], Over(i)) /\ cache[k].by # i
                /\ (cache[k].by # 0 => cache[k].by \in DOMAIN sent /\ Over(i)[cache[k].by] = sent[cache[k].by])
    BY <1>4, <1>5, OthersWait
  <1>15. ASSUME NEW k \in Keys PROVE LineFits(k, owed[k], Over(i))
    <2>1. LineFits(k, cache[k], Over(i)) /\ owed[k].by = cache[k].by /\ owed[k].kept = cache[k].kept /\ owed[k].stale = cache[k].stale
      BY <1>10, <1>14
    <2>2. ASSUME NEW f \in Firms, NEW n \in Forms PROVE owed[k].due[f][n] <= edition[f][n]
      BY <1>6, <1>10, <2>1 DEF LineFits
    <2> QED
      BY <2>1, <2>2 DEF LineFits
  <1>16. WebTypes' /\ SessionFits'
    BY <1>2, <1>3, <1>13 DEF WebInv, WebTypes, SessionFits, NewRequests, Refreshes
  <1>17. RequestsFit'
    <2>1. UNCHANGED <<belongs, edition>> /\ cookie'.refresh = cookie.refresh /\ page'.path = page.path
      BY <1>2
    <2>2. RequestsFit
      BY DEF WebInv
    <2> QED
      BY <1>3, <1>8, <1>12, <1>13, <2>1, <2>2, RequestsAfter
  <1>18. CacheFits'
    <2>1. edition' = edition
      BY <1>2
    <2> QED
      BY <1>3, <1>8, <1>9, <1>11, <1>12, <1>13, <1>15, <2>1, CacheAfter
  <1>19. PageFits'
    <2>1. NewRequests(Over(i), org', auth') /\ Refreshes(ks, owed, Over(i), org', auth', page')
      BY <1>2, <1>13
    <2>2. UNCHANGED <<belongs, cookie>>
      BY <1>2
    <2>3. Mine' => /\ cookie.access = auth.user'
                   /\ \A j \in DOMAIN Over(i) : OursFits(Over(i)[j], auth.user')
                   /\ \A k \in Screens \ ks : Ready(k, owed[k], Over(i), HeadFirm(org', auth'), auth.user')
      <3> SUFFICES ASSUME Mine'
                   PROVE  /\ cookie.access = auth.user
                          /\ \A j \in DOMAIN Over(i) : OursFits(Over(i)[j], auth.user)
                          /\ \A k \in Screens \ ks : Ready(k, owed[k], Over(i), h, auth.user)
        BY <1>2 DEF HeadFirm
      <3>1. Mine /\ LoggedIn(auth)
        BY <1>2 DEF Mine, LoggedIn
      <3>2. cookie.access = auth.user /\ \A j \in DOMAIN sent : OursFits(sent[j], auth.user)
        BY <3>1 DEF WebInv, PageFits
      <3>3. \A j \in DOMAIN Over(i) : OursFits(Over(i)[j], auth.user)
        BY <1>12, <3>2 DEF OursFits
      <3>4. h \in Firms
        BY <1>3, <1>8, <3>1, HeadIs DEF LoggedIn
      <3>5. ASSUME NEW k \in Screens \ ks PROVE Ready(k, owed[k], Over(i), h, auth.user)
        <4>1. ScreenFits(k, cache[k], sent, h, auth.user) /\ k \in Keys
          BY <3>1, NamesDiffer DEF WebInv, PageFits
        <4> HIDE DEF h
        <4>2. ASSUME NEW got, Covers(k, got, cache[k].due[h]) PROVE Covers(k, got, owed[k].due[h])
          <5> SUFFICES ASSUME NEW n \in Forms, <<n, k>> \notin Overlooked PROVE got[n] >= owed[k].due[h][n]
            BY DEF Covers
          <5>1. got[n] >= cache[k].due[h][n]
            BY <4>2 DEF Covers
          <5>2. owed[k].due[h][n] = cache[k].due[h][n]
            <6>1. n = m => AllWrites[m].changes \cap AllQueries[k].shows = {}
              BY NotOverlooked DEF ks
            <6> QED
              BY <1>10, <3>4, <4>1, <6>1
          <5> QED
            BY <5>1, <5>2
        <4>3. ~owed[k].kept => Coming(k, owed[k], Over(i), h)
          <5>1. owed[k].by = cache[k].by /\ owed[k].kept = cache[k].kept /\ (cache[k].by # 0 => Over(i)[cache[k].by] = sent[cache[k].by])
            BY <1>10, <1>14, <4>1
          <5> QED
            BY <4>1, <4>2, <5>1 DEF ScreenFits, Coming
        <4>4. ~owed[k].kept /\ owed[k].known /\ ~owed[k].stale => Current(k, owed[k], h, auth.user)
          BY <1>10, <4>1, <4>2 DEF ScreenFits, Current
        <4> QED
          BY <4>3, <4>4 DEF Ready
      <3> QED
        BY <3>2, <3>3, <3>5
    <2> QED
      BY <1>3, <1>9, <1>11, <1>12, <1>15, <1>16, <2>1, <2>2, <2>3, PageAfter
  <1>20. FormsFit'
    <2>1. FormsFit /\ UNCHANGED <<calm, astray>>
      BY <1>2 DEF WebInv
    <2>2. \A j \in DOMAIN sent' : j > Len(Over(i)) => \E k \in Keys : sent'[j] = Request(k, auth.user, org, auth)
      BY <1>13 DEF Refreshes
    <2> QED
      BY <1>3, <1>8, <1>12, <1>13, <2>1, <2>2, FormsAfter
  <1> QED
    BY <1>16, <1>17, <1>18, <1>19, <1>20 DEF WebInv

-----------------------------------------------------------------------------
(* Every step keeps the invariant                                          *)
LEMMA WebStep == ASSUME WebInv, WebNext, UNCHANGED calm PROVE WebInv'
  <1>1. CASE UserActs
    BY <1>1, SubmitKeeps, LogOutKeeps, VisitKeeps, SwitchKeeps, SubmitFormKeeps, ReloadKeeps DEF UserActs
  <1>2. CASE Joins \/ TokenExpires \/ GoesStale
    BY <1>2, JoinsKeep, ExpiryKeeps, StaleKeeps
  <1>3. ASSUME NEW i \in DOMAIN sent, ServerActs(i) PROVE WebInv'
    BY <1>3, ServeLoginKeeps, ServeKeeps, ServeRefreshKeeps, LostKeeps DEF ServerActs
  <1>4. ASSUME NEW i \in DOMAIN sent, Answered(i) PROVE WebInv'
    BY <1>4, AskRefreshKeeps, RetryKeeps, SessionEndsKeeps, GivenUpKeeps, LoginKeeps, GetsKeeps, WriteDoneKeeps DEF Answered
  <1> QED
    BY <1>1, <1>2, <1>3, <1>4 DEF WebNext

(* and so does none.                                                       *)
LEMMA WebStutter == ASSUME WebInv, UNCHANGED <<webVars, calm>> PROVE WebInv'
  <1>1. UNCHANGED <<auth, org, cookie, page, cache, sent, belongs, edition, astray, again>> /\ calm' = calm
    BY DEF webVars
  <1>2. WebTypes' /\ SessionFits'
    BY <1>1 DEF WebInv, WebTypes, SessionFits
  <1>3. RequestsFit'
    BY <1>1 DEF WebInv, RequestsFit, OneLogin, RequestFits, OpenLogin, Given, Open, Firm
  <1>4. CacheFits'
    BY <1>1 DEF WebInv, CacheFits, LineFits, Answers, Open
  <1>5. PageFits'
    BY <1>1 DEF WebInv, PageFits, Mine, LoggedIn, OursFits, ScreenFits, Coming, Current, Covers, Given, HeadFirm, Open
  <1>6. FormsFit'
    BY <1>1 DEF WebInv, FormsFit, FormFits, Open
  <1> QED
    BY <1>2, <1>3, <1>4, <1>5, <1>6 DEF WebInv

(* The invariant of the browser session holds throughout.                  *)
THEOREM WebInvariant == WebSpec => []WebInv
  <1>1. WebInit => WebInv
    BY WebInitFits
  <1>2. WebInv /\ [WebNext /\ UNCHANGED calm]_<<webVars, calm>> => WebInv'
    BY WebStep, WebStutter
  <1> QED
    BY <1>1, <1>2, PTL DEF WebSpec

(* Once nothing is being asked for, what a page shows was read for its     *)
(* user, in the organization the switcher names, and after every write of  *)
(* this user that its hook covers, in every interleaving of answers,       *)
(* expiries, losses, changes of organization and logins, as long as nobody *)
(* before left something in the page and the data is not the answer of a   *)
(* fetch that an invalidation met and left under way.                      *)
THEOREM ScreenAlwaysCurrent == WebSpec => []ScreenIsCurrent
  <1>1. WebInv => ScreenIsCurrent
    <2> SUFFICES ASSUME WebInv, ~again, PagesShown, LoggedIn(auth), page.shows # "none", cache[page.shows].known,
                        cache[page.shows].by = 0, ~cache[page.shows].failed, ~cache[page.shows].kept
                 PROVE  /\ cache[page.shows].of = auth.user /\ cache[page.shows].firm = HeadFirm(org, auth)
                        /\ \A m \in Forms : \/ <<m, page.shows>> \in Overlooked
                                              \/ cache[page.shows].ver[m] >= cache[page.shows].due[HeadFirm(org, auth)][m]
      BY DEF ScreenIsCurrent, AtRest
    <2>1. page.shows \in Screens
      BY DEF WebInv, WebTypes
    <2>2. ScreenFits(page.shows, cache[page.shows], sent, HeadFirm(org, auth), auth.user)
      BY <2>1 DEF WebInv, PageFits, Mine
    <2> QED
      BY <2>2 DEF ScreenFits, Current, Covers
  <1> QED
    BY <1>1, WebInvariant, PTL

(* A user who waits for one answer before changing organization has every  *)
(* write made in the organization the form showed, however often the token *)
(* expires on the way.                                                     *)
THEOREM WritesAlwaysLand == WebSpec => []WritesLandWhereMeant
  <1>1. WebInv => WritesLandWhereMeant
    BY DEF WebInv, FormsFit, WritesLandWhereMeant
  <1> QED
    BY <1>1, WebInvariant, PTL

-----------------------------------------------------------------------------
(* The stock dialog.                                                       *)
BulkRow == [id : Nat, goods : Picks, text : BOOLEAN, qty : Nat, meant : Picks]
Saves ==
    [pc : {"idle", "sent", "added", "refused"}, kind : {"bulk", "entry"}, units : [Goods -> Nat], shown : Nat,
     imeis : SUBSET Imeis, pending : Seq(BulkRow), valid : Seq(BulkRow)]
Dialogs ==
    [open : BOOLEAN, step : 1..3, mode : {"none", "IMEI", "QUANTITY", "BULK"}, goods : Picks, imeis : Seq(Imeis), qty : Nat,
     rows : Seq(BulkRow), now : Nat, confirm : BOOLEAN, dontAsk : BOOLEAN]
Pastes == [open : BOOLEAN, text : Seq(Lines), taken : Seq(Lines), omit : BOOLEAN, busy : BOOLEAN]

FormTypes ==
    /\ form \in Dialogs /\ feed \in [Feeds -> Pastes] /\ post \in [now : Saves, late : Saves]
    /\ shelf \in [units : [Goods -> Nat], imeis : SUBSET Imeis]
    /\ told \in Nat /\ lost \in BOOLEAN /\ clicks \in Nat

(* A save sends the units it shows, and keeps rows without an item only.   *)
Units(u) == Sum(u, Goods)
Unassigned(rows) == \A i \in DOMAIN rows : rows[i].goods = NoGoods /\ rows[i].meant = NoGoods
SaveFits(s) == Units(s.units) = s.shown /\ Unassigned(s.pending)

(* What was reported, or is about to be, is on the shelf; in calm weather  *)
(* nothing else.                                                           *)
Reported == IF post.now.pc = "added" THEN told + post.now.shown ELSE told
ShelfFits ==
    /\ Reported <= Units(shelf.units)
    /\ calm => Reported = Units(shelf.units) /\ post.late = NoSave

(* In calm weather the rows do not move while they are saved.              *)
RowsWait ==
    calm => /\ ~lost
            /\ Loading => ~Matching
            /\ Loading /\ post.now.kind = "bulk" => post.now.valid = ValidRows(form.rows) /\ post.now.pending = PendingRows(form.rows)

(* A row whose item was not chosen for it shares its id with one for which *)
(* it was.                                                                 *)
RowFits(rows, i) ==
    /\ rows[i].goods = NoGoods => rows[i].meant = NoGoods
    /\ rows[i].goods # rows[i].meant => \E j \in DOMAIN rows \ {i} : rows[j].id = rows[i].id
RowsFit(rows) == \A i \in DOMAIN rows : RowFits(rows, i)

FormInv ==
    /\ FormTypes /\ SaveFits(post.now) /\ SaveFits(post.late)
    /\ ShelfFits /\ RowsWait /\ RowsFit(form.rows)

-----------------------------------------------------------------------------
(* The members of a sequence at some positions are numbered by how many of *)
(* the positions are not above theirs.                                     *)
LEMMA Placed ==
    ASSUME NEW I \in SUBSET Nat, IsFiniteSet(I)
    PROVE  \E b \in Bijection(1..Cardinality(I), I) : \A s : Only(s, I) = [k \in 1..Cardinality(I) |-> s[b[k]]]
  <1> DEFINE n == Cardinality(I)
             UpTo(i) == {j \in I : j <= i}
             place == [i \in I |-> Cardinality(UpTo(i))]
             b == [k \in 1..n |-> CHOOSE i \in I : Cardinality({j \in I : j <= i}) = k]
  <1>1. n \in Nat
    BY FS_CardinalityType
  <1>2. ASSUME NEW i \in I PROVE IsFiniteSet(UpTo(i)) /\ place[i] \in 1..n
    <2>1. IsFiniteSet(UpTo(i)) /\ Cardinality(UpTo(i)) <= n
      BY FS_Subset
    <2>2. Cardinality(UpTo(i)) \in Nat
      BY <2>1, FS_CardinalityType
    <2>3. i \in UpTo(i)
      OBVIOUS
    <2>4. Cardinality(UpTo(i)) # 0
      BY <2>1, <2>3, FS_EmptySet
    <2> QED
      BY <1>1, <2>1, <2>2, <2>4
  <1>3. ASSUME NEW i \in I, NEW j \in I, i < j PROVE place[i] # place[j]
    <2>1. i \in Nat /\ j \in Nat /\ \A x \in I : x \in Nat
      OBVIOUS
    <2>2. (\A x \in I : x <= i => x <= j) /\ j <= j /\ ~(j <= i)
      BY <1>3, <2>1
    <2>3. UpTo(i) \subseteq UpTo(j) /\ j \in UpTo(j) /\ j \notin UpTo(i)
      BY <2>2
    <2> QED
      BY <1>2, <2>3, FS_Subset
  <1>4. \A i, j \in I : place[i] = place[j] => i = j
    BY <1>3
  <1>5. place \in Injection(I, 1..n)
    BY <1>2, <1>4 DEF Injection, IsInjective
  <1>6. IsFiniteSet(1..n) /\ Cardinality(1..n) = n
    BY <1>1, FS_Interval
  <1>7. place \in Surjection(I, 1..n)
    BY <1>5, <1>6, FS_Injection
  <1>8. \A k \in 1..n : b[k] \in I /\ place[b[k]] = k
    <2> SUFFICES ASSUME NEW k \in 1..n PROVE b[k] \in I /\ place[b[k]] = k
      OBVIOUS
    <2>1. \E i \in I : place[i] = k
      <3> HIDE DEF place
      <3> QED
        BY <1>7 DEF Surjection
    <2>2. \E i \in I : Cardinality({j \in I : j <= i}) = k
      BY <2>1
    <2> QED
      BY <2>2
  <1>9. \A i \in I : b[place[i]] = i
    BY <1>2, <1>4, <1>8
  <1>10. b \in Bijection(1..n, I)
    <2> HIDE DEF place
    <2>1. b \in [1..n -> I] /\ \A k, l \in 1..n : b[k] = b[l] => k = l
      BY <1>8
    <2>2. \A i \in I : \E k \in 1..n : b[k] = i
      <3> HIDE DEF b
      <3> QED
        BY <1>2, <1>9
    <2> QED
      BY <2>1, <2>2 DEF Bijection, Injection, Surjection, IsInjective
  <1>11. \A s : Only(s, I) = [k \in 1..n |-> s[b[k]]]
    BY DEF Only
  <1> QED
    BY <1>10, <1>11

(* They are a sequence again, of just those members, and no two are of one *)
(* position.                                                               *)
Places(s, I, b) ==
    /\ b \in [DOMAIN Only(s, I) -> I]
    /\ \A k \in DOMAIN Only(s, I) : Only(s, I)[k] = s[b[k]]
    /\ \A i \in I : \E k \in DOMAIN Only(s, I) : b[k] = i
    /\ \A k, l \in DOMAIN Only(s, I) : b[k] = b[l] => k = l

LEMMA OnlySome ==
    ASSUME NEW X, NEW s \in Seq(X), NEW I \in SUBSET DOMAIN s
    PROVE  Only(s, I) \in Seq(X) /\ \E b : Places(s, I, b)
  <1>1. DOMAIN s = 1..Len(s) /\ Len(s) \in Nat /\ \A i \in DOMAIN s : s[i] \in X
    BY ElementOfSeq
  <1>2. I \in SUBSET Nat /\ IsFiniteSet(I)
    <2>1. IsFiniteSet(1..Len(s))
      BY <1>1, FS_Interval
    <2> QED
      BY <1>1, <2>1, FS_Subset
  <1> DEFINE n == Cardinality(I)
  <1>3. n \in Nat
    BY <1>2, FS_CardinalityType
  <1>4. PICK b \in Bijection(1..n, I) : Only(s, I) = [k \in 1..n |-> s[b[k]]]
    BY <1>2, Placed
  <1>5. /\ b \in [1..n -> I]
        /\ \A i \in I : \E k \in 1..n : b[k] = i
        /\ \A k, l \in 1..n : b[k] = b[l] => k = l
    BY <1>4 DEF Bijection, Injection, Surjection, IsInjective
  <1> HIDE DEF n
  <1>6. DOMAIN Only(s, I) = 1..n /\ DOMAIN b = 1..n
    BY <1>4, <1>5
  <1>7. Only(s, I) \in Seq(X)
    <2>1. \A k \in 1..n : s[b[k]] \in X
      BY <1>1, <1>5
    <2> QED
      BY <1>3, <1>4, <2>1, IsASeq
  <1>8. Places(s, I, b)
    BY <1>4, <1>5, <1>6 DEF Places
  <1> QED
    BY <1>7, <1>8

-----------------------------------------------------------------------------
(* Units.                                                                  *)
LEMMA UnitsType == ASSUME NEW u \in [Goods -> Nat] PROVE Units(u) \in Nat
  <1>1. \A g \in Goods : u[g] \in Nat
    OBVIOUS
  <1> QED
    BY <1>1, FormAssumption, SumType DEF Units

LEMMA UnitsAdd ==
    ASSUME NEW u \in [Goods -> Nat], NEW v \in [Goods -> Nat]
    PROVE  Plus(u, v) \in [Goods -> Nat] /\ Units(Plus(u, v)) = Units(u) + Units(v)
  <1>1. IsFiniteSet(Goods) /\ \A g \in Goods : u[g] \in Int /\ v[g] \in Int
    BY FormAssumption
  <1>2. Sum([g \in Goods |-> u[g] + v[g]], Goods) = Sum(u, Goods) + Sum(v, Goods)
    BY <1>1, SumPlus
  <1> QED
    BY <1>2 DEF Plus, Units

LEMMA NoUnitsFit == NoUnits \in [Goods -> Nat] /\ Units(NoUnits) = 0
  <1>1. NoUnits \in [Goods -> Nat] /\ \A g \in Goods : NoUnits[g] = 0
    BY DEF NoUnits
  <1> QED
    BY <1>1, FormAssumption, SumType DEF Units

LEMMA OneItem ==
    ASSUME NEW g \in Goods, NEW n \in Nat
    PROVE  [NoUnits EXCEPT ![g] = n] \in [Goods -> Nat] /\ Units([NoUnits EXCEPT ![g] = n]) = n
  <1> DEFINE u == [NoUnits EXCEPT ![g] = n]
  <1>1. u \in [Goods -> Nat] /\ u[g] = n /\ \A x \in Goods \ {g} : u[x] = 0
    BY DEF NoUnits
  <1>2. n \in Int
    OBVIOUS
  <1> HIDE DEF u
  <1>3. Sum(u, Goods) = u[g]
    BY <1>1, <1>2, FormAssumption, SumOfOne
  <1>4. u \in [Goods -> Nat] /\ Units(u) = n
    BY <1>1, <1>3 DEF Units
  <1> QED
    BY <1>4 DEF u

(* The units sent for the items are those of the rows.                     *)
LEMMA UnitsOfRows ==
    ASSUME NEW rows \in Seq(BulkRow), \A i \in DOMAIN rows : rows[i].goods \in Goods
    PROVE  /\ Consolidated(rows) \in [Goods -> Nat] /\ UnitsShown(rows) \in Nat
           /\ Units(Consolidated(rows)) = UnitsShown(rows)
  <1> DEFINE q == Quantities(rows)
             p == [i \in DOMAIN rows |-> rows[i].goods]
             D == DOMAIN rows
  <1>1. IsFiniteSet(D) /\ \A i \in D : rows[i] \in BulkRow
    <2>1. D = 1..Len(rows) /\ Len(rows) \in Nat /\ \A i \in D : rows[i] \in BulkRow
      BY ElementOfSeq
    <2> QED
      BY <2>1, FS_Interval
  <1>2. DOMAIN q = D /\ \A i \in D : q[i] \in Nat /\ q[i] \in Int /\ p[i] \in Goods
    BY <1>1 DEF Quantities, BulkRow
  <1> DEFINE Part(g) == {i \in D : p[i] = g}
  <1>3. \A g \in Goods : Part(g) = {i \in D : rows[i].goods = g}
    OBVIOUS
  <1> HIDE DEF q, p, D
  <1>4. \A g \in Goods : IsFiniteSet(Part(g)) /\ Sum(q, Part(g)) \in Nat
    <2> TAKE g \in Goods
    <2>1. IsFiniteSet(Part(g)) /\ \A i \in Part(g) : q[i] \in Nat
      BY <1>1, <1>2, FS_Subset
    <2> HIDE DEF Part
    <2> QED
      BY <2>1, SumType
  <1>5. Sum([g \in Goods |-> Sum(q, Part(g))], Goods) = Sum(q, D)
    BY <1>1, <1>2, FormAssumption, SumByParts
  <1>6. Consolidated(rows) = [g \in Goods |-> Sum(q, Part(g))]
    BY <1>3 DEF Consolidated, Sum, q, D
  <1>7. UnitsShown(rows) = Sum(q, D)
    BY <1>2 DEF UnitsShown, SumFunction, Sum, q
  <1>8. Sum(q, D) \in Nat
    BY <1>1, <1>2, SumType
  <1> QED
    BY <1>4, <1>5, <1>6, <1>7, <1>8 DEF Units

-----------------------------------------------------------------------------
(* Rows.                                                                   *)
LEMMA RowsSeq ==
    ASSUME NEW rows \in Seq(BulkRow)
    PROVE  /\ DOMAIN rows = 1..Len(rows) /\ Len(rows) \in Nat
           /\ \A i \in DOMAIN rows : rows[i] \in BulkRow
  BY ElementOfSeq

LEMMA EmptyRowType ==
    ASSUME NEW id \in Nat
    PROVE  EmptyRow(id) \in BulkRow /\ EmptyRow(id).goods = NoGoods /\ EmptyRow(id).meant = NoGoods
  BY DEF EmptyRow, BulkRow, Picks

(* What a save takes of the rows and what it leaves.                       *)
LEMMA RowsDivided ==
    ASSUME NEW rows \in Seq(BulkRow), RowsFit(rows)
    PROVE  /\ ValidRows(rows) \in Seq(BulkRow) /\ PendingRows(rows) \in Seq(BulkRow)
           /\ \A k \in DOMAIN ValidRows(rows) : ValidRows(rows)[k].goods \in Goods
           /\ Unassigned(PendingRows(rows))
           /\ Contents(rows) \subseteq Range(ValidRows(rows) \o PendingRows(rows))
  <1> DEFINE V == {i \in DOMAIN rows : ValidRow(rows[i])}
             P == {i \in DOMAIN rows : PendingRow(rows[i])}
             v == Only(rows, V)
             p == Only(rows, P)
  <1>0. V \in SUBSET DOMAIN rows /\ P \in SUBSET DOMAIN rows
    OBVIOUS
  <1>1. PICK b : Places(rows, V, b)
    <2> HIDE DEF V
    <2> QED
      BY <1>0, OnlySome
  <1>2. PICK c : Places(rows, P, c)
    <2> HIDE DEF P
    <2> QED
      BY <1>0, OnlySome
  <1>3. v \in Seq(BulkRow) /\ p \in Seq(BulkRow)
    <2> HIDE DEF V, P
    <2> QED
      BY <1>0, OnlySome
  <1>4. v = ValidRows(rows) /\ p = PendingRows(rows)
    BY DEF ValidRows, PendingRows
  <1>9. /\ b \in [DOMAIN v -> V] /\ (\A k \in DOMAIN v : v[k] = rows[b[k]]) /\ \A i \in V : \E k \in DOMAIN v : b[k] = i
        /\ c \in [DOMAIN p -> P] /\ (\A k \in DOMAIN p : p[k] = rows[c[k]]) /\ \A i \in P : \E k \in DOMAIN p : c[k] = i
    <2> HIDE DEF V, P
    <2> QED
      BY <1>1, <1>2 DEF Places
  <1> HIDE DEF v, p
  <1>5. \A k \in DOMAIN v : v[k].goods \in Goods
    <2> SUFFICES ASSUME NEW k \in DOMAIN v PROVE v[k].goods \in Goods
      OBVIOUS
    <2>1. v[k] = rows[b[k]] /\ b[k] \in DOMAIN rows /\ ValidRow(rows[b[k]])
      BY <1>9
    <2>2. rows[b[k]].goods \in Picks
      BY <2>1, RowsSeq DEF BulkRow
    <2> QED
      BY <2>1, <2>2 DEF ValidRow, Picks
  <1>6. Unassigned(p)
    <2> SUFFICES ASSUME NEW k \in DOMAIN p PROVE p[k].goods = NoGoods /\ p[k].meant = NoGoods
      BY DEF Unassigned
    <2>1. p[k] = rows[c[k]] /\ c[k] \in DOMAIN rows /\ PendingRow(rows[c[k]])
      BY <1>9
    <2> QED
      BY <2>1 DEF PendingRow, RowsFit, RowFits
  <1>7. Range(v \o p) = Range(v) \cup Range(p)
    BY <1>3, RangeConcatenation
  <1>8. ASSUME NEW r \in Contents(rows) PROVE r \in Range(v) \cup Range(p)
    <2>1. PICK i \in V \cup P : r = rows[i]
      BY <1>8 DEF Contents
    <2>2. CASE i \in V
      <3>1. PICK k \in DOMAIN v : b[k] = i
        BY <1>9, <2>2
      <3>2. v[k] = r
        BY <1>9, <2>1, <3>1
      <3> QED
        BY <3>2 DEF Range
    <2>3. CASE i \in P
      <3>1. PICK k \in DOMAIN p : c[k] = i
        BY <1>9, <2>3
      <3>2. p[k] = r
        BY <1>9, <2>1, <3>1
      <3> QED
        BY <3>2 DEF Range
    <2> QED
      BY <2>1, <2>2, <2>3
  <1> QED
    BY <1>3, <1>4, <1>5, <1>6, <1>7, <1>8

(* No save shows nothing.                                                  *)
LEMMA NoSaveType == NoSave \in Saves /\ SaveFits(NoSave) /\ NoSave.pc = "idle"
  <1>1. NoSave.units = NoUnits /\ NoSave.shown = 0 /\ NoSave.pending = <<>> /\ NoSave.pc = "idle"
    BY DEF NoSave
  <1>2. Unassigned(<<>>)
    BY DEF Unassigned
  <1>3. NoSave \in Saves
    <2>1. <<>> \in Seq(BulkRow)
      BY EmptySeq
    <2> QED
      BY <2>1, NoUnitsFit DEF NoSave, Saves
  <1>4. SaveFits(NoSave)
    BY <1>1, <1>2, NoUnitsFit DEF SaveFits
  <1> QED
    BY <1>1, <1>3, <1>4

(* A save that is sent shows the units it sends.                           *)
LEMMA SaveType ==
    ASSUME form.rows \in Seq(BulkRow), RowsFit(form.rows)
    PROVE  Save \in Saves /\ SaveFits(Save) /\ Save.pc = "sent" /\ Save.kind = "bulk"
           /\ Save.valid = ValidRows(form.rows) /\ Save.pending = PendingRows(form.rows)
  <1> DEFINE v == ValidRows(form.rows)
             p == PendingRows(form.rows)
             u == Consolidated(v)
             n == UnitsShown(v)
  <1>1. v \in Seq(BulkRow) /\ p \in Seq(BulkRow) /\ (\A k \in DOMAIN v : v[k].goods \in Goods) /\ Unassigned(p)
    BY RowsDivided
  <1>2. u \in [Goods -> Nat] /\ n \in Nat /\ Units(u) = n
    <2> HIDE DEF v
    <2> QED
      BY <1>1, UnitsOfRows
  <1>3. Save = [NoSave EXCEPT !.pc = "sent", !.units = u, !.shown = n, !.valid = v, !.pending = p]
    BY DEF Save
  <1> HIDE DEF v, p, u, n
  <1>4. Save \in Saves /\ Save.pc = "sent" /\ Save.kind = NoSave.kind /\ Save.units = u /\ Save.shown = n
        /\ Save.pending = p /\ Save.valid = v
    BY <1>1, <1>2, <1>3, NoSaveType DEF Saves
  <1>5. NoSave.kind = "bulk"
    BY DEF NoSave
  <1> QED
    BY <1>1, <1>2, <1>4, <1>5 DEF v, p, SaveFits

(* New rows, each with the item it was made for, at the end.               *)
LEMMA RowsAppended ==
    ASSUME NEW rows \in Seq(BulkRow), RowsFit(rows), NEW new \in Seq(BulkRow), \A k \in DOMAIN new : new[k].goods = new[k].meant
    PROVE  rows \o new \in Seq(BulkRow) /\ RowsFit(rows \o new)
  <1> DEFINE all == rows \o new
             n == Len(rows)
  <1>1. all \in Seq(BulkRow) /\ Len(all) = n + Len(new) /\ (\A i \in 1..n : all[i] = rows[i])
        /\ \A i \in 1..Len(new) : all[n + i] = new[i]
    BY ConcatProperties
  <1>2. DOMAIN all = 1..(n + Len(new)) /\ n \in Nat /\ Len(new) \in Nat /\ DOMAIN rows = 1..n /\ DOMAIN new = 1..Len(new)
    BY <1>1, RowsSeq
  <1> HIDE DEF all, n
  <1>3. ASSUME NEW i \in DOMAIN all PROVE RowFits(all, i)
    <2>1. CASE i \in 1..n
      <3>1. all[i] = rows[i] /\ RowFits(rows, i)
        BY <1>1, <1>2, <2>1 DEF RowsFit
      <3>2. \A j \in DOMAIN rows \ {i} : j \in DOMAIN all \ {i} /\ all[j] = rows[j]
        BY <1>1, <1>2
      <3> QED
        BY <3>1, <3>2 DEF RowFits
    <2>2. CASE i \notin 1..n
      <3>1. i - n \in 1..Len(new) /\ n + (i - n) = i
        BY <1>2, <2>2
      <3>2. all[i] = new[i - n] /\ i - n \in DOMAIN new
        BY <1>1, <1>2, <3>1
      <3> QED
        BY <3>2 DEF RowFits
    <2> QED
      BY <2>1, <2>2
  <1>4. RowsFit(all)
    BY <1>3 DEF RowsFit
  <1> QED
    BY <1>1, <1>4 DEF all

LEMMA RowAppended ==
    ASSUME NEW rows \in Seq(BulkRow), RowsFit(rows), NEW id \in Nat
    PROVE  Append(rows, EmptyRow(id)) \in Seq(BulkRow) /\ RowsFit(Append(rows, EmptyRow(id)))
  <1> DEFINE r == EmptyRow(id)
  <1>1. r \in BulkRow /\ r.goods = r.meant
    BY EmptyRowType
  <1> HIDE DEF r
  <1>2. <<r>> \in Seq(BulkRow) /\ Append(rows, r) = rows \o <<r>> /\ \A k \in DOMAIN <<r>> : <<r>>[k] = r
    BY <1>1, AppendIsConcat
  <1>3. rows \o <<r>> \in Seq(BulkRow) /\ RowsFit(rows \o <<r>>)
    BY <1>1, <1>2, RowsAppended
  <1> QED
    BY <1>2, <1>3 DEF r

(* Without the rows of one id.                                             *)
LEMMA RowsWithout ==
    ASSUME NEW rows \in Seq(BulkRow), RowsFit(rows), NEW k \in DOMAIN rows,
           NEW I, I = DOMAIN rows \ {i \in DOMAIN rows : rows[i].id = rows[k].id}
    PROVE  Only(rows, I) \in Seq(BulkRow) /\ RowsFit(Only(rows, I))
  <1> DEFINE left == Only(rows, I)
  <1>0. I \in SUBSET DOMAIN rows
    OBVIOUS
  <1>2. left \in Seq(BulkRow) /\ \E b : Places(rows, I, b)
    BY <1>0, OnlySome
  <1>3. PICK b : Places(rows, I, b)
    BY <1>2
  <1>1. /\ b \in [DOMAIN left -> I] /\ \A l \in DOMAIN left : left[l] = rows[b[l]]
        /\ \A i \in I : \E l \in DOMAIN left : b[l] = i
    BY <1>3 DEF Places
  <1> HIDE DEF left
  <1>4. ASSUME NEW l \in DOMAIN left PROVE RowFits(left, l)
    <2>1. left[l] = rows[b[l]] /\ b[l] \in I /\ RowFits(rows, b[l])
      BY <1>1 DEF RowsFit
    <2>2. ASSUME NEW j \in DOMAIN rows \ {b[l]}, rows[j].id = rows[b[l]].id
          PROVE  \E x \in DOMAIN left \ {l} : left[x].id = left[l].id
      <3>1. j \in I
        BY <2>1, <2>2
      <3>2. PICK x \in DOMAIN left : b[x] = j
        BY <1>1, <3>1
      <3>3. x \in DOMAIN left \ {l} /\ left[x] = rows[j]
        BY <1>1, <2>2, <3>2
      <3> QED
        BY <2>1, <2>2, <3>3
    <2> QED
      BY <2>1, <2>2 DEF RowFits
  <1> QED
    BY <1>2, <1>4 DEF RowsFit, left

-----------------------------------------------------------------------------
(* The rows made of a list have the items found for them.                  *)
LEMMA LinesSeq ==
    ASSUME NEW lines \in Seq(Lines)
    PROVE  /\ DOMAIN lines = 1..Len(lines) /\ Len(lines) \in Nat /\ IsFiniteSet(DOMAIN lines)
           /\ \A i \in DOMAIN lines : lines[i] \in Lines
  <1>1. DOMAIN lines = 1..Len(lines) /\ Len(lines) \in Nat /\ \A i \in DOMAIN lines : lines[i] \in Lines
    BY ElementOfSeq
  <1> QED
    BY <1>1, FS_Interval

LEMMA WellformedType == ASSUME NEW lines \in Seq(Lines) PROVE Wellformed(lines) \in Seq(Lines)
  <1> DEFINE I == {i \in DOMAIN lines : lines[i].qty >= 1}
  <1>1. I \in SUBSET DOMAIN lines
    OBVIOUS
  <1> HIDE DEF I
  <1>2. Only(lines, I) \in Seq(Lines)
    BY <1>1, OnlySome
  <1> QED
    BY <1>2 DEF Wellformed, I

LEMMA QuantityType == ASSUME NEW lines \in Seq(Lines), NEW m, NEW g PROVE QuantityOf(lines, m, g) \in Nat
  <1> DEFINE I == {i \in DOMAIN lines : m[lines[i].clean] = g}
             q == Quantities(lines)
  <1>1. IsFiniteSet(I) /\ \A i \in I : q[i] \in Nat
    <2>1. IsFiniteSet(I)
      BY LinesSeq, FS_Subset
    <2>2. \A i \in I : lines[i] \in Lines
      BY LinesSeq
    <2> QED
      BY <2>1, <2>2 DEF Quantities, Lines
  <1> HIDE DEF I, q
  <1>2. Sum(q, I) \in Nat
    BY <1>1, SumType
  <1> QED
    BY <1>2 DEF QuantityOf, Sum, q, I

LEMMA IsRows ==
    ASSUME NEW n \in Nat, NEW f, f = [k \in 1..n |-> f[k]], \A k \in 1..n : f[k] \in BulkRow
    PROVE  f \in Seq(BulkRow)
  BY IsASeq

LEMMA NewRowsFit ==
    ASSUME NEW lines \in Seq(Lines), NEW m \in [Cleans(lines) -> Picks], NEW omit \in BOOLEAN
    PROVE  /\ NewRows(lines, m, omit) \in Seq(BulkRow)
           /\ \A k \in DOMAIN NewRows(lines, m, omit) : NewRows(lines, m, omit)[k].goods = NewRows(lines, m, omit)[k].meant
  <1> DEFINE M == {i \in DOMAIN lines : m[lines[i].clean] # NoGoods}
             F == {i \in M : \A j \in 1..i - 1 : m[lines[j].clean] # m[lines[i].clean]}
             first == Only(lines, F)
             left == Only(lines, DOMAIN lines \ M)
             rowOf(g) == [EmptyRow(0) EXCEPT !.goods = g, !.text = TRUE, !.meant = g, !.qty = QuantityOf(lines, m, g)]
             made == [k \in DOMAIN first |-> rowOf(m[first[k].clean])]
             open == [k \in DOMAIN left |-> [EmptyRow(0) EXCEPT !.text = TRUE, !.qty = left[k].qty]]
             kept == IF omit THEN <<>> ELSE open
  <1>1. NewRows(lines, m, omit) = made \o kept
    BY DEF NewRows
  <1>2. F \in SUBSET DOMAIN lines /\ DOMAIN lines \ M \in SUBSET DOMAIN lines
    OBVIOUS
  <1>3. first \in Seq(Lines) /\ left \in Seq(Lines)
    <2> HIDE DEF F, M
    <2> QED
      BY <1>2, OnlySome
  <1>4. PICK b : Places(lines, F, b)
    <2> HIDE DEF F
    <2> QED
      BY <1>2, OnlySome
  <1>5. \A k \in DOMAIN first : m[first[k].clean] \in Picks
    <2> SUFFICES ASSUME NEW k \in DOMAIN first PROVE m[first[k].clean] \in Picks
      OBVIOUS
    <2>1. first[k] = lines[b[k]] /\ b[k] \in F
      <3> HIDE DEF F
      <3> QED
        BY <1>4 DEF Places
    <2>2. first[k].clean \in Cleans(lines)
      BY <1>2, <2>1 DEF Cleans
    <2> QED
      BY <2>2
  <1>6. \A g \in Picks : rowOf(g) \in BulkRow /\ rowOf(g).goods = rowOf(g).meant
    <2> TAKE g \in Picks
    <2>1. QuantityOf(lines, m, g) \in Nat
      BY QuantityType
    <2> QED
      BY <2>1 DEF EmptyRow, BulkRow
  <1> HIDE DEF rowOf, first, left, M, F
  <1>7. made \in Seq(BulkRow) /\ \A k \in DOMAIN made : made[k].goods = made[k].meant
    <2>1. \A k \in DOMAIN first : made[k] \in BulkRow /\ made[k].goods = made[k].meant
      BY <1>5, <1>6
    <2>2. DOMAIN made = 1..Len(first) /\ Len(first) \in Nat /\ DOMAIN made = DOMAIN first
      BY <1>3, LinesSeq
    <2> HIDE DEF made
    <2>3. made = [k \in 1..Len(first) |-> made[k]]
      BY <2>2 DEF made
    <2>4. \A k \in 1..Len(first) : made[k] \in BulkRow
      BY <2>1, <2>2
    <2> HIDE DEF kept
    <2> QED
      BY <2>1, <2>2, <2>3, <2>4, IsRows
  <1>8. open \in Seq(BulkRow) /\ \A k \in DOMAIN open : open[k].goods = open[k].meant
    <2>1. \A k \in DOMAIN left : open[k] \in BulkRow /\ open[k].goods = open[k].meant
      BY <1>3, LinesSeq DEF Lines, EmptyRow, BulkRow, Picks
    <2>2. DOMAIN open = 1..Len(left) /\ Len(left) \in Nat /\ DOMAIN open = DOMAIN left
      BY <1>3, LinesSeq
    <2> HIDE DEF open
    <2>3. open = [k \in 1..Len(left) |-> open[k]]
      BY <2>2 DEF open
    <2>4. \A k \in 1..Len(left) : open[k] \in BulkRow
      BY <2>1, <2>2
    <2> HIDE DEF kept, made
    <2> QED
      BY <2>1, <2>2, <2>3, <2>4, IsRows
  <1> HIDE DEF made, open
  <1>9. kept \in Seq(BulkRow) /\ \A k \in DOMAIN kept : kept[k].goods = kept[k].meant
    BY <1>8, EmptySeq
  <1> HIDE DEF kept
  <1>10. \A k \in DOMAIN (made \o kept) : (made \o kept)[k].goods = (made \o kept)[k].meant
    <2> DEFINE n == Len(made)
               all == made \o kept
    <2>1. all \in Seq(BulkRow) /\ Len(all) = n + Len(kept) /\ (\A k \in 1..n : all[k] = made[k])
          /\ \A k \in 1..Len(kept) : all[n + k] = kept[k]
      BY <1>7, <1>9, ConcatProperties
    <2>2. DOMAIN all = 1..(n + Len(kept)) /\ n \in Nat /\ Len(kept) \in Nat /\ DOMAIN made = 1..n /\ DOMAIN kept = 1..Len(kept)
      BY <1>7, <1>9, <2>1, RowsSeq
    <2> HIDE DEF all, n
    <2>3. ASSUME NEW k \in DOMAIN all PROVE all[k].goods = all[k].meant
      <3>1. CASE k \in 1..n
        BY <1>7, <2>1, <2>2, <3>1
      <3>2. CASE k \notin 1..n
        <4>1. k - n \in 1..Len(kept) /\ n + (k - n) = k
          BY <2>2, <3>2
        <4> QED
          BY <1>9, <2>1, <2>2, <4>1
      <3> QED
        BY <3>1, <3>2
    <2> QED
      BY <2>3 DEF all
  <1> QED
    BY <1>1, <1>7, <1>9, <1>10, ConcatProperties

-----------------------------------------------------------------------------
(* Steps.  Most of them leave the save and the stock alone.                *)
KeepsStock == UNCHANGED <<post, shelf, told, lost>>

(* The rows stay as they are.                                              *)
LEMMA DialogMoves ==
    ASSUME FormInv, FormTypes', KeepsStock, form'.rows = form.rows, calm' = calm, calm /\ Loading => ~Matching'
    PROVE  FormInv'
  <1>1. (SaveFits(post.now) /\ SaveFits(post.late) /\ ShelfFits)'
    BY DEF FormInv, KeepsStock, SaveFits, ShelfFits, Reported, Units, NoSave, NoUnits, Unassigned
  <1>2. RowsWait'
    BY DEF FormInv, KeepsStock, RowsWait, Loading
  <1>3. RowsFit(form.rows)'
    BY DEF FormInv
  <1> QED
    BY <1>1, <1>2, <1>3 DEF FormInv

(* The rows change, while nothing is being saved unless it may go wrong.   *)
LEMMA RowsMove ==
    ASSUME FormInv, FormTypes', KeepsStock, RowsFit(form'.rows), calm' = calm, calm => ~Loading
    PROVE  FormInv'
  <1>1. (SaveFits(post.now) /\ SaveFits(post.late) /\ ShelfFits)'
    BY DEF FormInv, KeepsStock, SaveFits, ShelfFits, Reported, Units, NoSave, NoUnits, Unassigned
  <1>2. RowsWait'
    BY DEF FormInv, KeepsStock, RowsWait, Loading
  <1>3. RowsFit(form.rows)'
    OBVIOUS
  <1> QED
    BY <1>1, <1>2, <1>3 DEF FormInv

(* A save begins.                                                          *)
LEMMA SaveBegins ==
    ASSUME FormInv, NEW s \in Saves, SaveFits(s), s.pc = "sent",
           s.kind = "bulk" => s.valid = ValidRows(form.rows) /\ s.pending = PendingRows(form.rows),
           Press(form'), form' \in Dialogs, form'.rows = form.rows, post' = [post EXCEPT !.now = s], UNCHANGED <<feed, calm>>
    PROVE  FormInv'
  <1> USE DEF FormInv
  <1>1. post'.now = s /\ post'.late = post.late /\ post' \in [now : Saves, late : Saves]
    BY DEF FormTypes
  <1>2. UNCHANGED <<shelf, told, lost>> /\ clicks' = clicks + 1 /\ (calm => ~Loading /\ ~Matching)
    BY DEF Press
  <1>3. FormTypes'
    BY <1>1, <1>2 DEF FormTypes
  <1>4. (SaveFits(post.now) /\ SaveFits(post.late))'
    BY <1>1 DEF SaveFits, Units, Unassigned
  <1>5. ShelfFits'
    <2>1. Reported' = told /\ told <= Reported /\ (calm => Reported = told)
      BY <1>1, <1>2 DEF Reported, Loading, FormTypes, Saves
    <2>2. Units(shelf.units)' = Units(shelf.units) /\ Units(shelf.units) \in Nat /\ Reported \in Nat /\ told \in Nat
      BY <1>2, UnitsType DEF Units, FormTypes, Reported, Saves
    <2> QED
      BY <1>1, <2>1, <2>2 DEF ShelfFits, NoSave, NoUnits
  <1>6. RowsWait'
    BY <1>1, <1>2 DEF RowsWait, Loading, Matching
  <1>7. RowsFit(form.rows)'
    OBVIOUS
  <1> QED
    BY <1>3, <1>4, <1>5, <1>6, <1>7


-----------------------------------------------------------------------------
(* The dialog begins with nothing saved.                                   *)
LEMMA FormStart == ASSUME FormInit PROVE FormInv
  <1> USE DEF FormInit
  <1>1. EmptyRow(1) \in BulkRow /\ EmptyRow(1).goods = NoGoods /\ EmptyRow(1).meant = NoGoods
        /\ EmptyRow(2) \in BulkRow /\ EmptyRow(2).goods = NoGoods /\ EmptyRow(2).meant = NoGoods
    BY EmptyRowType
  <1> DEFINE r == <<EmptyRow(1), EmptyRow(2)>>
  <1>2. r \in Seq(BulkRow) /\ RowsFit(r)
    <2>1. r \in Seq(BulkRow) /\ DOMAIN r = 1..2
      <3> HIDE DEF FormInit
      <3> QED
        BY <1>1
    <2>2. \A i \in 1..2 : r[i].goods = NoGoods /\ r[i].meant = NoGoods
      BY <1>1
    <2> HIDE DEF r
    <2> QED
      BY <2>1, <2>2 DEF RowsFit, RowFits
  <1>3. form.rows = r /\ post.now = NoSave /\ post.late = NoSave /\ shelf.units = NoUnits /\ told = 0 /\ ~lost
    OBVIOUS
  <1>4. form \in Dialogs
    <2> HIDE DEF r
    <2>1. <<>> \in Seq(Imeis)
      BY EmptySeq
    <2>2. form = [open |-> FALSE, step |-> 1, mode |-> "none", goods |-> NoGoods, imeis |-> <<>>, qty |-> 0,
                  rows |-> r, now |-> 3, confirm |-> FALSE, dontAsk |-> FALSE]
      BY DEF r
    <2> HIDE DEF FormInit
    <2> QED
      BY <1>2, <2>1, <2>2 DEF Dialogs, Picks
  <1>5. feed \in [Feeds -> Pastes]
    <2>1. <<>> \in Seq(Lines)
      BY EmptySeq
    <2> QED
      BY <2>1 DEF Pastes
  <1>6. FormTypes
    BY <1>4, <1>5, NoUnitsFit, NoSaveType DEF FormTypes
  <1>7. ~Loading /\ Reported = 0
    BY <1>3, NoSaveType DEF Loading, Reported
  <1>8. ShelfFits /\ RowsWait
    BY <1>3, <1>7, NoUnitsFit DEF ShelfFits, RowsWait
  <1> HIDE DEF FormInit, r
  <1> QED
    BY <1>2, <1>3, <1>6, <1>8, NoSaveType DEF FormInv

(* A step of the user other than a save.                                   *)
LEMMA Pressed ==
    ASSUME FormInv, NEW d \in Dialogs, Press(d), RowsFit(d.rows), feed' \in [Feeds -> Pastes], UNCHANGED <<post, calm>>
    PROVE  FormInv'
  <1>1. form' = d /\ UNCHANGED <<post, shelf, told, lost, calm>> /\ clicks' = clicks + 1 /\ (calm => ~Loading)
    BY DEF Press
  <1>2. FormTypes'
    BY <1>1 DEF FormInv, FormTypes
  <1>3. RowsFit(form'.rows)
    BY <1>1
  <1> QED
    BY <1>1, <1>2, <1>3, RowsMove DEF KeepsStock

(* The steps of the dialog: the rows stay as they are.                     *)
LEMMA FormSteps == ASSUME FormInv, FormStep, UNCHANGED calm PROVE FormInv'
  <1>0. form \in Dialogs /\ feed \in [Feeds -> Pastes] /\ RowsFit(form.rows)
    BY DEF FormInv, FormTypes
  <1>1. CASE OpenForm
    <2>1. KeepsStock /\ form'.rows = form.rows /\ feed' = feed /\ clicks' = clicks + 1
      BY <1>0, <1>1 DEF OpenForm, KeepsStock, Dialogs
    <2>2. form' \in Dialogs
      <3>1. NoGoods \in Picks /\ 1 \in 1..3 /\ "none" \in {"none", "IMEI", "QUANTITY", "BULK"} /\ 0 \in Nat
        BY DEF Picks
      <3> QED
        BY <1>0, <1>1, <3>1 DEF OpenForm, Dialogs
    <2>3. FormTypes'
      BY <2>1, <2>2 DEF FormInv, FormTypes, KeepsStock
    <2>4. calm /\ Loading => ~Matching'
      BY <2>1 DEF FormInv, RowsWait, Matching
    <2> QED
      BY <2>1, <2>3, <2>4, DialogMoves
  <1>2. ASSUME NEW d, Press(d), d \in Dialogs, d.rows = form.rows, UNCHANGED <<feed, post>> PROVE FormInv'
    <2>1. feed' \in [Feeds -> Pastes] /\ RowsFit(d.rows)
      BY <1>0, <1>2
    <2> QED
      BY <1>2, <2>1, Pressed
  <1>3. CASE CloseForm
    <2> DEFINE d == [form EXCEPT !.open = FALSE]
    <2>1. d \in Dialogs /\ d.rows = form.rows
      BY <1>0 DEF Dialogs
    <2>2. Press(d) /\ UNCHANGED <<feed, post>>
      BY <1>3 DEF CloseForm, Click
    <2> HIDE DEF d
    <2> QED
      BY <1>2, <2>1, <2>2
  <1>4. CASE ChooseMode
    <2>1. PICK m \in {"IMEI", "QUANTITY", "BULK"} : Press([form EXCEPT !.mode = m]) /\ UNCHANGED <<feed, post>>
      BY <1>4 DEF ChooseMode, Click
    <2>2. [form EXCEPT !.mode = m] \in Dialogs /\ [form EXCEPT !.mode = m].rows = form.rows
      BY <1>0 DEF Dialogs
    <2> QED
      BY <1>2, <2>1, <2>2
  <1>5. CASE ChooseGoods
    <2>1. PICK g \in Goods : Press([form EXCEPT !.goods = g]) /\ UNCHANGED <<feed, post>>
      BY <1>5 DEF ChooseGoods, Click
    <2>2. [form EXCEPT !.goods = g] \in Dialogs /\ [form EXCEPT !.goods = g].rows = form.rows
      BY <1>0 DEF Dialogs, Picks
    <2> QED
      BY <1>2, <2>1, <2>2
  <1>6. ASSUME NEW n \in 1..3, Press([form EXCEPT !.step = n]), UNCHANGED <<feed, post>> PROVE FormInv'
    <2>1. [form EXCEPT !.step = n] \in Dialogs /\ [form EXCEPT !.step = n].rows = form.rows
      BY <1>0 DEF Dialogs
    <2> QED
      BY <1>2, <1>6, <2>1
  <1>7. CASE NextStep
    <2>1. CASE Press([form EXCEPT !.step = IF form.mode = "BULK" THEN 3 ELSE 2])
      <3>1. (IF form.mode = "BULK" THEN 3 ELSE 2) \in 1..3
        OBVIOUS
      <3>2. UNCHANGED <<feed, post>>
        BY <1>7 DEF NextStep
      <3> QED
        BY <1>6, <2>1, <3>1, <3>2
    <2>2. CASE Press([form EXCEPT !.step = 3])
      <3>2. UNCHANGED <<feed, post>>
        BY <1>7 DEF NextStep
      <3> QED
        BY <1>6, <2>2, <3>2
    <2> QED
      BY <1>7, <2>1, <2>2 DEF NextStep, Click
  <1>8. CASE Back
    <2>1. (IF form.step = 3 /\ form.mode # "BULK" THEN 2 ELSE 1) \in 1..3
      OBVIOUS
    <2>2. Press([form EXCEPT !.step = IF form.step = 3 /\ form.mode # "BULK" THEN 2 ELSE 1]) /\ UNCHANGED <<feed, post>>
      BY <1>8 DEF Back, Click
    <2> QED
      BY <1>6, <2>1, <2>2
  <1>9. CASE TypeQuantity
    <2>1. PICK n \in Amounts : Press([form EXCEPT !.qty = n]) /\ UNCHANGED <<feed, post>>
      BY <1>9 DEF TypeQuantity, Click
    <2>2. [form EXCEPT !.qty = n] \in Dialogs /\ [form EXCEPT !.qty = n].rows = form.rows
      BY <1>0, FormAssumption DEF Dialogs
    <2> QED
      BY <1>2, <2>1, <2>2
  <1>10. ASSUME NEW q \in Seq(Imeis), Press([form EXCEPT !.imeis = q]), UNCHANGED <<feed, post>> PROVE FormInv'
    <2>1. [form EXCEPT !.imeis = q] \in Dialogs /\ [form EXCEPT !.imeis = q].rows = form.rows
      BY <1>0 DEF Dialogs
    <2> QED
      BY <1>2, <1>10, <2>1
  <1>11. CASE TypeImei
    <2>1. PICK i \in Imeis : Press([form EXCEPT !.imeis = Append(form.imeis, i)]) /\ UNCHANGED <<feed, post>>
      BY <1>0, <1>11 DEF TypeImei, Click, Dialogs
    <2>2. form.imeis \in Seq(Imeis)
      BY <1>0 DEF Dialogs
    <2>3. Append(form.imeis, i) \in Seq(Imeis)
      BY <2>2, AppendProperties
    <2> QED
      BY <1>10, <2>1, <2>3
  <1>12. CASE ClearImeis
    <2>1. Press([form EXCEPT !.imeis = <<>>]) /\ UNCHANGED <<feed, post>>
      BY <1>12 DEF ClearImeis, Click
    <2>2. <<>> \in Seq(Imeis)
      BY EmptySeq
    <2> QED
      BY <1>10, <2>1, <2>2
  <1> QED
    BY <1>1, <1>3, <1>4, <1>5, <1>7, <1>8, <1>9, <1>11, <1>12 DEF FormStep

-----------------------------------------------------------------------------
(* The rows that share an id: of them at most one has the item it is given *)
(* chosen for it, and that one stands for the others.                      *)
LEMMA GoodsPicked ==
    ASSUME NEW rows \in Seq(BulkRow), RowsFit(rows), NEW k \in DOMAIN rows, NEW g \in Goods,
           NEW S, S = {i \in DOMAIN rows : rows[i].id = rows[k].id},
           NEW new, new = [i \in DOMAIN rows |->
                             IF i \in S THEN [rows[i] EXCEPT !.goods = g, !.text = TRUE, !.meant = IF i = k THEN g ELSE @] ELSE rows[i]]
    PROVE  new \in Seq(BulkRow) /\ RowsFit(new)
  <1>1. DOMAIN rows = 1..Len(rows) /\ Len(rows) \in Nat /\ \A i \in DOMAIN rows : rows[i] \in BulkRow
    BY RowsSeq
  <1>2. g \in Picks /\ g # NoGoods
    BY FormAssumption DEF Picks
  <1>3. \A i \in DOMAIN rows : new[i] \in BulkRow /\ new[i].id = rows[i].id
    BY <1>1, <1>2 DEF BulkRow
  <1>4. \A i \in S : new[i].goods = g /\ (i = k => new[i].meant = g)
    <2> SUFFICES ASSUME NEW i \in S PROVE new[i].goods = g /\ (i = k => new[i].meant = g)
      OBVIOUS
    <2>1. i \in DOMAIN rows /\ rows[i] \in BulkRow
      BY <1>1
    <2>2. new[i] = [rows[i] EXCEPT !.goods = g, !.text = TRUE, !.meant = IF i = k THEN g ELSE @]
      BY <2>1
    <2> QED
      BY <2>1, <2>2 DEF BulkRow
  <1>5. \A i \in DOMAIN rows \ S : new[i] = rows[i]
    OBVIOUS
  <1>6. new \in Seq(BulkRow) /\ DOMAIN new = DOMAIN rows
    <2>1. new = [i \in 1..Len(rows) |-> new[i]] /\ DOMAIN new = DOMAIN rows
      BY <1>1
    <2>2. \A i \in 1..Len(rows) : new[i] \in BulkRow
      BY <1>1, <1>3
    <2> QED
      BY <1>1, <2>1, <2>2, IsRows
  <1>7. k \in S /\ S \subseteq DOMAIN rows /\ \A i \in S : rows[i].id = rows[k].id
    OBVIOUS
  <1>8. ASSUME NEW i \in DOMAIN rows PROVE RowFits(new, i)
    <2>1. CASE i \in S
      <3>1. new[i].goods # NoGoods
        BY <1>2, <1>4, <2>1
      <3>2. CASE i = k
        BY <1>4, <2>1, <3>1, <3>2 DEF RowFits
      <3>3. CASE i # k
        BY <1>3, <1>6, <1>7, <2>1, <3>1, <3>3 DEF RowFits
      <3> QED
        BY <3>2, <3>3
    <2>2. CASE i \notin S
      BY <1>3, <1>5, <1>6, <2>2 DEF RowFits, RowsFit
    <2> QED
      BY <2>1, <2>2
  <1> QED
    BY <1>6, <1>8 DEF RowsFit

(* A number typed changes no item.                                         *)
LEMMA NumberTyped ==
    ASSUME NEW rows \in Seq(BulkRow), RowsFit(rows), NEW S, NEW n \in Nat,
           NEW new, new = [i \in DOMAIN rows |-> IF i \in S THEN [rows[i] EXCEPT !.qty = n] ELSE rows[i]]
    PROVE  new \in Seq(BulkRow) /\ RowsFit(new)
  <1>1. DOMAIN rows = 1..Len(rows) /\ Len(rows) \in Nat /\ \A i \in DOMAIN rows : rows[i] \in BulkRow
    BY RowsSeq
  <1>2. \A i \in DOMAIN rows : new[i] \in BulkRow /\ new[i].id = rows[i].id /\ new[i].goods = rows[i].goods /\ new[i].meant = rows[i].meant
    BY <1>1 DEF BulkRow
  <1>3. new \in Seq(BulkRow) /\ DOMAIN new = DOMAIN rows
    BY <1>1, <1>2, IsASeq
  <1>4. \A i \in DOMAIN rows : RowFits(new, i)
    BY <1>2, <1>3 DEF RowsFit, RowFits
  <1> QED
    BY <1>3, <1>4 DEF RowsFit

(* The steps on rows.                                                      *)
LEMMA RowSteps == ASSUME FormInv, RowStep, UNCHANGED calm PROVE FormInv'
  <1>0. form \in Dialogs /\ feed \in [Feeds -> Pastes] /\ RowsFit(form.rows) /\ form.rows \in Seq(BulkRow) /\ form.now \in Nat
    BY DEF FormInv, FormTypes, Dialogs
  <1>1. ASSUME NEW new \in Seq(BulkRow), RowsFit(new), Press([form EXCEPT !.rows = new]), UNCHANGED <<feed, post>> PROVE FormInv'
    <2>1. [form EXCEPT !.rows = new] \in Dialogs /\ [form EXCEPT !.rows = new].rows = new
      BY <1>0 DEF Dialogs
    <2> QED
      BY <1>0, <1>1, <2>1, Pressed
  <1>2. CASE AddRow
    <2> DEFINE new == Append(form.rows, EmptyRow(form.now))
               d == [form EXCEPT !.rows = new, !.now = form.now + 1]
    <2>1. new \in Seq(BulkRow) /\ RowsFit(new)
      BY <1>0, RowAppended
    <2>2. Press(d) /\ UNCHANGED <<feed, post>>
      BY <1>0, <1>2 DEF AddRow, Click, Dialogs
    <2>4. form.now + 1 \in Nat
      BY <1>0
    <2> HIDE DEF new
    <2>3. d \in Dialogs /\ d.rows = new
      BY <1>0, <2>1, <2>4 DEF Dialogs
    <2> HIDE DEF d
    <2> QED
      BY <1>0, <2>1, <2>2, <2>3, Pressed
  <1>3. CASE PickGoods
    <2>1. PICK k \in DOMAIN form.rows, g \in Goods : Press([form EXCEPT !.rows = Picked(k, g)]) /\ UNCHANGED <<feed, post>>
      BY <1>3 DEF PickGoods, Click
    <2>2. Picked(k, g) \in Seq(BulkRow) /\ RowsFit(Picked(k, g))
      BY <1>0, GoodsPicked DEF SameId, Picked
    <2> QED
      BY <1>1, <2>1, <2>2
  <1>4. CASE TypeRow
    <2>1. PICK k \in DOMAIN form.rows, n \in Amounts : Press([form EXCEPT !.rows = Typed(k, n)]) /\ UNCHANGED <<feed, post>>
      BY <1>4 DEF TypeRow, Click
    <2>2. n \in Nat
      BY FormAssumption
    <2>3. Typed(k, n) \in Seq(BulkRow) /\ RowsFit(Typed(k, n))
      BY <1>0, <2>2, NumberTyped DEF Typed
    <2> QED
      BY <1>1, <2>1, <2>3
  <1>5. CASE RemoveRow
    <2>1. PICK k \in DOMAIN form.rows : Press([form EXCEPT !.rows = Only(form.rows, DOMAIN form.rows \ SameId(k))])
      BY <1>0, <1>5 DEF RemoveRow, Click, Dialogs
    <2> DEFINE new == Only(form.rows, DOMAIN form.rows \ SameId(k))
    <2>2. new \in Seq(BulkRow) /\ RowsFit(new)
      BY <1>0, RowsWithout DEF SameId
    <2>3. Press([form EXCEPT !.rows = new]) /\ UNCHANGED <<feed, post>>
      BY <1>5, <2>1 DEF RemoveRow
    <2> HIDE DEF new
    <2> QED
      BY <1>1, <2>2, <2>3
  <1> QED
    BY <1>2, <1>3, <1>4, <1>5 DEF RowStep

-----------------------------------------------------------------------------
(* The steps of a list: the rows made of it get the items found for them.  *)
LEMMA FeedSteps == ASSUME FormInv, NEW f \in Feeds, FeedStep(f), UNCHANGED calm PROVE FormInv'
  <1>0. form \in Dialogs /\ feed \in [Feeds -> Pastes] /\ RowsFit(form.rows) /\ form.rows \in Seq(BulkRow) /\ form.now \in Nat
        /\ feed[f] \in Pastes
    BY DEF FormInv, FormTypes, Dialogs
  <1>1. ASSUME NEW rec \in Pastes, FeedClick(f, rec) PROVE FormInv'
    <2>1. Press(form) /\ feed' \in [Feeds -> Pastes] /\ UNCHANGED post
      BY <1>0, <1>1 DEF FeedClick, Click
    <2> QED
      BY <1>0, <2>1, Pressed
  <1>2. CASE ToggleFeed(f)
    <2>1. PICK rec : rec = [feed[f] EXCEPT !.open = ~@] /\ FeedClick(f, rec)
      BY <1>2 DEF ToggleFeed
    <2>2. rec \in Pastes
      BY <1>0, <2>1 DEF Pastes
    <2> QED
      BY <1>1, <2>1, <2>2
  <1>3. CASE EnterText(f)
    <2>1. PICK t \in Texts \cup {<<>>} : FeedClick(f, [feed[f] EXCEPT !.text = t])
      BY <1>3 DEF EnterText
    <2>2. t \in Seq(Lines)
      BY FormAssumption, EmptySeq
    <2>3. [feed[f] EXCEPT !.text = t] \in Pastes
      BY <1>0, <2>2 DEF Pastes
    <2> QED
      BY <1>1, <2>1, <2>3
  <1>4. CASE OmitUnmatched(f)
    <2>1. PICK rec : rec = [feed[f] EXCEPT !.omit = ~@] /\ FeedClick(f, rec)
      BY <1>4 DEF OmitUnmatched
    <2>2. rec \in Pastes
      BY <1>0, <2>1 DEF Pastes
    <2> QED
      BY <1>1, <2>1, <2>2
  <1>5. CASE ProcessFeed(f)
    <2>1. PICK rec : rec = [feed[f] EXCEPT !.busy = TRUE, !.taken = feed[f].text] /\ FeedClick(f, rec)
      BY <1>5 DEF ProcessFeed
    <2>2. rec \in Pastes
      BY <1>0, <2>1 DEF Pastes
    <2> QED
      BY <1>1, <2>1, <2>2
  <1>6. CASE FeedMatched(f)
    <2> DEFINE lines == Wellformed(feed[f].taken)
    <2>1. PICK m \in Matches(lines), tick \in {0, 1} :
             LET new == NewRows(lines, m, feed[f].omit)
                 stamped == [k \in DOMAIN new |-> [new[k] EXCEPT !.id = form.now + tick * k]]
             IN  /\ form' = [form EXCEPT !.rows = form.rows \o stamped, !.now = form.now + Len(new) + 1]
                 /\ feed' = [feed EXCEPT ![f].busy = FALSE, ![f].open = (lines = <<>>),
                                         ![f].text = IF lines = <<>> THEN feed[f].text ELSE <<>>]
      BY <1>0, <1>6 DEF FeedMatched, Dialogs, Pastes
    <2> DEFINE new == NewRows(lines, m, feed[f].omit)
               stamped == [k \in DOMAIN new |-> [new[k] EXCEPT !.id = form.now + tick * k]]
    <2>2. feed[f].taken \in Seq(Lines) /\ feed[f].text \in Seq(Lines) /\ feed[f].omit \in BOOLEAN
      BY <1>0 DEF Pastes
    <2>3. lines \in Seq(Lines)
      BY <2>2, WellformedType
    <2>4. m \in [Cleans(lines) -> Picks] /\ tick \in {0, 1}
      BY <2>1 DEF Matches
    <2>9. form' = [form EXCEPT !.rows = form.rows \o stamped, !.now = form.now + Len(new) + 1]
          /\ feed' = [feed EXCEPT ![f].busy = FALSE, ![f].open = (lines = <<>>),
                                  ![f].text = IF lines = <<>> THEN feed[f].text ELSE <<>>]
      BY <2>1
    <2> HIDE DEF lines
    <2>5. new \in Seq(BulkRow) /\ \A k \in DOMAIN new : new[k].goods = new[k].meant
      BY <2>2, <2>3, <2>4, NewRowsFit
    <2>10. stamped = [k \in DOMAIN new |-> [new[k] EXCEPT !.id = form.now + tick * k]]
      OBVIOUS
    <2> HIDE DEF new, stamped
    <2>6. stamped \in Seq(BulkRow) /\ \A k \in DOMAIN stamped : stamped[k].goods = stamped[k].meant
      <3>1. DOMAIN new = 1..Len(new) /\ Len(new) \in Nat /\ \A k \in DOMAIN new : new[k] \in BulkRow
        BY <2>5, RowsSeq
      <3>2. ASSUME NEW k \in DOMAIN new PROVE stamped[k] \in BulkRow /\ stamped[k].goods = stamped[k].meant
        <4>1. form.now + tick * k \in Nat /\ new[k] \in BulkRow /\ new[k].goods = new[k].meant
          BY <1>0, <2>4, <2>5, <3>1
        <4>2. stamped[k] = [new[k] EXCEPT !.id = form.now + tick * k]
          BY <2>10
        <4> QED
          BY <4>1, <4>2 DEF BulkRow
      <3>3. DOMAIN stamped = DOMAIN new /\ stamped = [k \in 1..Len(new) |-> stamped[k]]
        BY <2>10, <3>1
      <3> QED
        BY <3>1, <3>2, <3>3, IsRows
    <2>7. form.rows \o stamped \in Seq(BulkRow) /\ RowsFit(form.rows \o stamped)
      BY <1>0, <2>6, RowsAppended
    <2> DEFINE rows == form.rows \o stamped
               now == form.now + Len(new) + 1
    <2>8. now \in Nat /\ rows \in Seq(BulkRow) /\ RowsFit(rows) /\ form' = [form EXCEPT !.rows = rows, !.now = now]
      BY <1>0, <2>5, <2>7, <2>9, RowsSeq
    <2> HIDE DEF rows, now
    <2>11. form' \in Dialogs /\ form'.rows = rows
      BY <1>0, <2>8 DEF Dialogs
    <2>12. feed' \in [Feeds -> Pastes]
      <3> DEFINE rec == [feed[f] EXCEPT !.busy = FALSE, !.open = (lines = <<>>),
                                        !.text = IF lines = <<>> THEN feed[f].text ELSE <<>>]
      <3>1. rec \in Pastes
        BY <1>0, <2>2, EmptySeq DEF Pastes
      <3>2. feed' = [feed EXCEPT ![f] = rec]
        BY <1>0, <2>9 DEF Pastes
      <3> HIDE DEF rec
      <3> QED
        BY <1>0, <3>1, <3>2
    <2>13. feed[f].busy /\ UNCHANGED <<post, shelf, told, lost, clicks>>
      BY <1>6 DEF FeedMatched
    <2>14. FormTypes'
      BY <2>11, <2>12, <2>13 DEF FormInv, FormTypes
    <2>15. calm => ~Loading
      BY <2>13 DEF FormInv, RowsWait, Matching
    <2> QED
      BY <2>8, <2>11, <2>13, <2>14, <2>15, RowsMove DEF KeepsStock
  <1>7. CASE FeedFails(f)
    <2>1. ~calm /\ feed' = [feed EXCEPT ![f].busy = FALSE] /\ UNCHANGED <<form, post, shelf, told, lost, clicks>>
      BY <1>7 DEF FeedFails
    <2>2. feed' \in [Feeds -> Pastes]
      BY <1>0, <2>1 DEF Pastes
    <2>3. FormTypes'
      BY <2>1, <2>2 DEF FormInv, FormTypes
    <2> QED
      BY <2>1, <2>3, DialogMoves DEF KeepsStock
  <1> QED
    BY <1>2, <1>3, <1>4, <1>5, <1>6, <1>7 DEF FeedStep

-----------------------------------------------------------------------------
(* Saves begin: all rows at once, or one item.                             *)
LEMMA SavesBegin == ASSUME FormInv, SubmitRows \/ DontAskAgain \/ CancelSave \/ ConfirmSave \/ SubmitEntry, UNCHANGED calm PROVE FormInv'
  <1>0. form \in Dialogs /\ feed \in [Feeds -> Pastes] /\ RowsFit(form.rows) /\ form.rows \in Seq(BulkRow) /\ form.imeis \in Seq(Imeis)
        /\ form.goods \in Picks /\ form.qty \in Nat
    BY DEF FormInv, FormTypes, Dialogs
  <1>1. Save \in Saves /\ SaveFits(Save) /\ Save.pc = "sent" /\ Save.kind = "bulk"
        /\ Save.valid = ValidRows(form.rows) /\ Save.pending = PendingRows(form.rows)
    BY <1>0, SaveType
  <1>2. ASSUME NEW d \in Dialogs, Press(d), d.rows = form.rows, UNCHANGED <<feed, post>> PROVE FormInv'
    <2>1. feed' \in [Feeds -> Pastes] /\ RowsFit(d.rows)
      BY <1>0, <1>2
    <2> QED
      BY <1>2, <2>1, Pressed
  <1>3. ASSUME NEW d \in Dialogs, Press(d), d.rows = form.rows, NEW s \in Saves, SaveFits(s), s.pc = "sent",
               s.kind = "bulk" => s.valid = ValidRows(form.rows) /\ s.pending = PendingRows(form.rows),
               post' = [post EXCEPT !.now = s], UNCHANGED feed
        PROVE  FormInv'
    <2>1. form' = d /\ Press(form')
      BY <1>3 DEF Press
    <2> QED
      BY <1>3, <2>1, SaveBegins
  <1>4. CASE SubmitRows
    <2>1. CASE Press([form EXCEPT !.confirm = TRUE]) /\ UNCHANGED post
      <3>1. [form EXCEPT !.confirm = TRUE] \in Dialogs /\ [form EXCEPT !.confirm = TRUE].rows = form.rows
        BY <1>0 DEF Dialogs
      <3>2. UNCHANGED <<feed, post>>
        BY <1>4, <2>1 DEF SubmitRows
      <3> QED
        BY <1>2, <2>1, <3>1, <3>2
    <2>2. CASE Press(form) /\ post' = [post EXCEPT !.now = Save]
      <3>1. UNCHANGED feed
        BY <1>4 DEF SubmitRows
      <3> QED
        BY <1>0, <1>1, <1>3, <2>2, <3>1
    <2> QED
      BY <1>4, <2>1, <2>2 DEF SubmitRows, Click
  <1>5. CASE DontAskAgain
    <2>1. PICK d : d = [form EXCEPT !.dontAsk = ~@] /\ Press(d) /\ UNCHANGED <<feed, post>>
      BY <1>5 DEF DontAskAgain
    <2>2. d \in Dialogs /\ d.rows = form.rows
      BY <1>0, <2>1 DEF Dialogs
    <2> QED
      BY <1>2, <2>1, <2>2
  <1>6. [form EXCEPT !.confirm = FALSE] \in Dialogs /\ [form EXCEPT !.confirm = FALSE].rows = form.rows
    BY <1>0 DEF Dialogs
  <1>7. CASE CancelSave
    BY <1>2, <1>6, <1>7 DEF CancelSave
  <1>8. CASE ConfirmSave
    BY <1>1, <1>3, <1>6, <1>8 DEF ConfirmSave
  <1>9. CASE SubmitEntry
    <2> DEFINE n == IF form.mode = "IMEI" THEN Len(form.imeis) ELSE form.qty
               u == [NoUnits EXCEPT ![form.goods] = n]
               I == IF form.mode = "IMEI" THEN Range(form.imeis) ELSE {}
               s == [NoSave EXCEPT !.pc = "sent", !.kind = "entry", !.units = u, !.shown = n, !.imeis = I]
    <2>1. Press(form) /\ post' = [post EXCEPT !.now = s] /\ UNCHANGED feed /\ form.goods \in Goods
      BY <1>0, <1>9 DEF SubmitEntry, Click, Picks
    <2>2. n \in Nat
      BY <1>0, LenProperties
    <2>3. I \in SUBSET Imeis
      <3>1. \A i \in DOMAIN form.imeis : form.imeis[i] \in Imeis
        BY <1>0, ElementOfSeq
      <3> QED
        BY <3>1 DEF Range
    <2> HIDE DEF n, I
    <2>4. u \in [Goods -> Nat] /\ Units(u) = n
      BY <2>1, <2>2, OneItem
    <2> HIDE DEF u
    <2>5. s \in Saves /\ s.pc = "sent" /\ s.kind = "entry" /\ s.units = u /\ s.shown = n /\ s.pending = NoSave.pending
      BY <2>2, <2>3, <2>4, NoSaveType DEF Saves
    <2>6. SaveFits(s)
      BY <2>4, <2>5, NoSaveType DEF SaveFits
    <2> HIDE DEF s
    <2> QED
      BY <1>0, <1>3, <2>1, <2>5, <2>6
  <1> QED
    BY <1>4, <1>5, <1>7, <1>8, <1>9

(* The save under way is over, or goes on, without anything new on the     *)
(* shelf.                                                                  *)
LEMMA SaveMoves ==
    ASSUME FormInv, NEW now \in Saves, NEW late \in Saves, SaveFits(now), SaveFits(late), post' = [now |-> now, late |-> late],
           calm => late = NoSave, post.now.pc # "added" \/ ~calm, now.pc \in {"idle", "refused"},
           \/ now.kind = post.now.kind /\ now.valid = post.now.valid /\ now.pending = post.now.pending /\ post.now.pc # "idle"
           \/ now.pc = "idle",
           UNCHANGED <<form, feed, shelf, told, lost, clicks, calm>>
    PROVE  FormInv'
  <1> USE DEF FormInv
  <1>1. post'.now = now /\ post'.late = late /\ post' \in [now : Saves, late : Saves]
    OBVIOUS
  <1>2. FormTypes'
    BY <1>1 DEF FormTypes
  <1>3. (SaveFits(post.now) /\ SaveFits(post.late))'
    BY <1>1 DEF SaveFits, Units, Unassigned
  <1>4. ShelfFits'
    <2>1. Reported' = told /\ told <= Reported /\ (calm => Reported = told)
      BY <1>1 DEF Reported, FormTypes, Saves
    <2>2. Units(shelf.units)' = Units(shelf.units) /\ Units(shelf.units) \in Nat /\ Reported \in Nat /\ told \in Nat
      BY UnitsType DEF Units, FormTypes, Reported, Saves
    <2> QED
      BY <1>1, <2>1, <2>2 DEF ShelfFits, NoSave, NoUnits
  <1>5. RowsWait'
    BY <1>1 DEF RowsWait, Loading, Matching
  <1>6. RowsFit(form.rows)'
    OBVIOUS
  <1> QED
    BY <1>2, <1>3, <1>4, <1>5, <1>6

(* What the server takes is on the shelf, what it refuses is not.          *)
LEMMA ServerTakes == ASSUME FormInv, ServerAdds("now") \/ ServerAdds("late"), UNCHANGED calm PROVE FormInv'
  <1>0. post \in [now : Saves, late : Saves] /\ post.now \in Saves /\ post.late \in Saves /\ shelf.units \in [Goods -> Nat]
        /\ shelf.imeis \in SUBSET Imeis /\ SaveFits(post.now) /\ SaveFits(post.late) /\ told \in Nat
        /\ post.now.units \in [Goods -> Nat] /\ post.late.units \in [Goods -> Nat] /\ post.now.imeis \in SUBSET Imeis
        /\ post.late.imeis \in SUBSET Imeis /\ post.now.shown \in Nat /\ post.late.shown \in Nat
    BY DEF FormInv, FormTypes, Saves
  <1>1. UNCHANGED <<form, feed, told, lost, clicks, calm>>
    BY DEF ServerAdds
  <1>2. \A c \in {"added", "refused"} :
          LET s == [post.now EXCEPT !.pc = c]
          IN  s \in Saves /\ SaveFits(s) /\ s.pc = c /\ s.kind = post.now.kind /\ s.valid = post.now.valid /\ s.pending = post.now.pending
              /\ s.shown = post.now.shown
    BY <1>0 DEF Saves, SaveFits
  <1>3. CASE ServerAdds("now")
    <2>0. post.now.pc = "sent"
      BY <1>3 DEF ServerAdds
    <2>1. CASE /\ shelf' = [units |-> Plus(shelf.units, post.now.units), imeis |-> shelf.imeis \cup post.now.imeis]
               /\ post' = [post EXCEPT !.now = [post.now EXCEPT !.pc = "added"]]
      <3> DEFINE s == [post.now EXCEPT !.pc = "added"]
      <3>1. s \in Saves /\ SaveFits(s) /\ s.pc = "added" /\ s.kind = post.now.kind /\ s.valid = post.now.valid
            /\ s.pending = post.now.pending /\ s.shown = post.now.shown
        BY <1>2
      <3>2. post' = [post EXCEPT !.now = s]
        BY <2>1
      <3> HIDE DEF s
      <3>3. post'.now = s /\ post'.late = post.late /\ post' \in [now : Saves, late : Saves]
        BY <1>0, <3>1, <3>2
      <3>4. shelf'.units = Plus(shelf.units, post.now.units) /\ shelf' = [units |-> shelf'.units, imeis |-> shelf.imeis \cup post.now.imeis]
        BY <2>1
      <3>5. shelf'.units \in [Goods -> Nat] /\ Units(shelf'.units) = Units(shelf.units) + post.now.shown
        BY <1>0, <3>4, UnitsAdd DEF SaveFits
      <3>6. FormTypes'
        BY <1>0, <1>1, <3>3, <3>4, <3>5 DEF FormInv, FormTypes
      <3>7. (SaveFits(post.now) /\ SaveFits(post.late))'
        BY <1>0, <3>1, <3>3 DEF SaveFits, Units, Unassigned
      <3>8. ShelfFits'
        <4>1. Reported = told /\ Reported' = told + post.now.shown
          BY <1>1, <2>0, <3>1, <3>3 DEF Reported
        <4>2. Units(shelf.units) \in Nat /\ Units(shelf.units)' = Units(shelf'.units)
          BY <1>0, UnitsType DEF Units
        <4> QED
          BY <1>0, <1>1, <3>3, <3>5, <4>1, <4>2 DEF FormInv, ShelfFits, NoSave, NoUnits
      <3>9. RowsWait'
        BY <1>1, <2>0, <3>1, <3>3 DEF FormInv, RowsWait, Loading, Matching
      <3> QED
        BY <1>1, <3>6, <3>7, <3>8, <3>9 DEF FormInv
    <2>2. CASE post' = [post EXCEPT !.now = [post.now EXCEPT !.pc = "refused"]] /\ UNCHANGED shelf
      <3> DEFINE s == [post.now EXCEPT !.pc = "refused"]
      <3>1. s \in Saves /\ SaveFits(s) /\ s.pc = "refused" /\ s.kind = post.now.kind /\ s.valid = post.now.valid
            /\ s.pending = post.now.pending /\ s.shown = post.now.shown
        BY <1>2
      <3>2. post' = [post EXCEPT !.now = s]
        BY <2>2
      <3> HIDE DEF s
      <3>3. post' = [now |-> s, late |-> post.late] /\ (calm => post.late = NoSave)
        BY <1>0, <3>2 DEF FormInv, ShelfFits
      <3> QED
        BY <1>0, <1>1, <2>0, <2>2, <3>1, <3>3, SaveMoves
    <2> QED
      BY <1>3, <2>1, <2>2 DEF ServerAdds
  <1>4. CASE ServerAdds("late")
    <2>0. post.late.pc = "sent" /\ ~calm
      BY <1>4, NoSaveType DEF ServerAdds, FormInv, ShelfFits
    <2>1. post' = [post EXCEPT !.late = NoSave]
      BY <1>4 DEF ServerAdds
    <2>2. post'.now = post.now /\ post'.late = NoSave /\ post' \in [now : Saves, late : Saves]
      BY <1>0, <2>1, NoSaveType
    <2>3. /\ shelf' \in [units : [Goods -> Nat], imeis : SUBSET Imeis]
          /\ Units(shelf'.units) = Units(shelf.units) + post.late.shown \/ UNCHANGED shelf
      <3>1. CASE shelf' = [units |-> Plus(shelf.units, post.late.units), imeis |-> shelf.imeis \cup post.late.imeis]
        <4>1. shelf'.units = Plus(shelf.units, post.late.units) /\ shelf' = [units |-> shelf'.units, imeis |-> shelf.imeis \cup post.late.imeis]
          BY <3>1
        <4>2. shelf'.units \in [Goods -> Nat] /\ Units(shelf'.units) = Units(shelf.units) + post.late.shown
          BY <1>0, <4>1, UnitsAdd DEF SaveFits
        <4> QED
          BY <1>0, <4>1, <4>2
      <3>2. CASE UNCHANGED shelf
        BY <3>2 DEF FormInv, FormTypes
      <3> QED
        BY <1>4, <3>1, <3>2 DEF ServerAdds
    <2>6. FormTypes'
      BY <1>1, <2>2, <2>3 DEF FormInv, FormTypes
    <2>7. (SaveFits(post.now) /\ SaveFits(post.late))'
      BY <1>0, <2>2, NoSaveType DEF SaveFits, Units, Unassigned
    <2>8. ShelfFits'
      <3>1. Reported' = Reported /\ Reported \in Nat
        BY <1>0, <1>1, <2>2 DEF Reported
      <3>2. Units(shelf.units) \in Nat /\ Units(shelf.units)' = Units(shelf'.units) /\ Units(shelf.units) <= Units(shelf'.units)
        BY <1>0, <2>3, UnitsType DEF Units
      <3> QED
        BY <1>0, <1>1, <2>0, <2>3, <3>1, <3>2 DEF FormInv, ShelfFits
    <2>9. RowsWait'
      BY <1>1, <2>0 DEF RowsWait
    <2> QED
      BY <1>1, <2>6, <2>7, <2>8, <2>9 DEF FormInv
  <1> QED
    BY <1>3, <1>4

(* The dialog reports what the server has added, and keeps the rows that   *)
(* had no item when the save began.                                        *)
LEMMA SavesEnd == ASSUME FormInv, SaveDone, UNCHANGED calm PROVE FormInv'
  <1>0. /\ post \in [now : Saves, late : Saves] /\ post.now \in Saves /\ post.late \in Saves /\ SaveFits(post.now) /\ SaveFits(post.late)
        /\ post.now.pending \in Seq(BulkRow) /\ post.now.shown \in Nat /\ form \in Dialogs /\ form.rows \in Seq(BulkRow)
        /\ RowsFit(form.rows) /\ told \in Nat /\ form.now \in Nat /\ post.now.kind \in {"bulk", "entry"}
    BY DEF FormInv, FormTypes, Saves, Dialogs
  <1>1. post.now.pc = "added" /\ post' = [post EXCEPT !.now = NoSave] /\ told' = told + post.now.shown
        /\ UNCHANGED <<feed, shelf, clicks, calm>>
    BY DEF SaveDone
  <1>2. post'.now = NoSave /\ post'.late = post.late /\ post' \in [now : Saves, late : Saves]
    BY <1>0, <1>1, NoSaveType
  <1>3. form' \in Dialogs /\ RowsFit(form'.rows) /\ lost' \in BOOLEAN /\ (calm => ~lost')
    <2>1. CASE post.now.kind = "bulk"
      <3> DEFINE rows == Append(post.now.pending, EmptyRow(form.now))
                 now == form.now + 1
                 open == form.open /\ post.now.pending # <<>>
      <3>1. form' = [form EXCEPT !.rows = rows, !.now = now, !.open = open]
        BY <1>0, <2>1 DEF SaveDone, Dialogs
      <3>2. RowsFit(post.now.pending)
        BY <1>0 DEF SaveFits, Unassigned, RowsFit, RowFits
      <3>3. rows \in Seq(BulkRow) /\ RowsFit(rows)
        BY <1>0, <3>2, RowAppended
      <3>4. now \in Nat /\ open \in BOOLEAN
        BY <1>0
      <3> HIDE DEF rows, now, open
      <3>5. form' \in Dialogs /\ form'.rows = rows
        BY <1>0, <3>1, <3>3, <3>4 DEF Dialogs
      <3>6. lost' = (lost \/ ~(Contents(form.rows) \subseteq Range(post.now.valid \o post.now.pending)))
        BY <2>1 DEF SaveDone
      <3>7. calm => ~lost /\ post.now.valid = ValidRows(form.rows) /\ post.now.pending = PendingRows(form.rows)
        BY <1>1, <2>1 DEF FormInv, RowsWait, Loading
      <3>8. Contents(form.rows) \subseteq Range(ValidRows(form.rows) \o PendingRows(form.rows))
        BY <1>0, RowsDivided
      <3>9. calm => ~lost'
        BY <3>6, <3>7, <3>8
      <3>10. lost' \in BOOLEAN
        BY <3>6
      <3> QED
        BY <3>3, <3>5, <3>9, <3>10
    <2>2. CASE post.now.kind = "entry"
      <3>1. form' = [form EXCEPT !.step = 1, !.mode = "none", !.goods = NoGoods, !.imeis = <<>>, !.qty = 0, !.open = FALSE] /\ lost' = lost
        BY <1>0, <2>2 DEF SaveDone
      <3>2. <<>> \in Seq(Imeis) /\ NoGoods \in Picks /\ 1 \in 1..3 /\ "none" \in {"none", "IMEI", "QUANTITY", "BULK"} /\ 0 \in Nat
        BY EmptySeq DEF Picks
      <3>3. form' \in Dialogs /\ form'.rows = form.rows
        BY <1>0, <3>1, <3>2 DEF Dialogs
      <3>4. lost \in BOOLEAN /\ (calm => ~lost)
        BY DEF FormInv, FormTypes, RowsWait
      <3> QED
        BY <1>0, <3>1, <3>3, <3>4
    <2> QED
      BY <1>0, <2>1, <2>2
  <1>4. FormTypes'
    BY <1>0, <1>1, <1>2, <1>3 DEF FormInv, FormTypes
  <1>5. (SaveFits(post.now) /\ SaveFits(post.late))'
    BY <1>0, <1>2, NoSaveType DEF SaveFits, Units, Unassigned
  <1>6. ShelfFits'
    <2>1. Reported = told + post.now.shown /\ Reported' = told + post.now.shown
      BY <1>1, <1>2, NoSaveType DEF Reported
    <2>2. Units(shelf.units)' = Units(shelf.units)
      BY <1>1 DEF Units
    <2> QED
      BY <1>1, <1>2, <2>1, <2>2 DEF FormInv, ShelfFits, NoSave, NoUnits
  <1>7. RowsWait'
    BY <1>1, <1>2, <1>3, NoSaveType DEF RowsWait, Loading
  <1> QED
    BY <1>3, <1>4, <1>5, <1>6, <1>7 DEF FormInv

(* A save the server refuses, and one whose answer does not come.          *)
LEMMA SavesFail == ASSUME FormInv, SaveRefused \/ AnswerLost, UNCHANGED calm PROVE FormInv'
  <1>0. /\ post \in [now : Saves, late : Saves] /\ post.now \in Saves /\ post.late \in Saves /\ SaveFits(post.now) /\ SaveFits(post.late)
        /\ (calm => post.late = NoSave)
    BY DEF FormInv, FormTypes, ShelfFits
  <1>1. CASE SaveRefused
    <2>1. post.now.pc = "refused" /\ post' = [now |-> NoSave, late |-> post.late] /\ UNCHANGED <<form, feed, shelf, told, lost, clicks>>
      BY <1>0, <1>1 DEF SaveRefused
    <2> QED
      BY <1>0, <2>1, NoSaveType, SaveMoves
  <1>2. CASE AnswerLost
    <2>1. PICK late \in {post.now, post.late} : post' = [now |-> NoSave, late |-> late]
      BY <1>2 DEF AnswerLost
    <2>2. ~calm /\ UNCHANGED <<form, feed, shelf, told, lost, clicks>>
      BY <1>2 DEF AnswerLost
    <2>3. late \in Saves /\ SaveFits(late)
      BY <1>0
    <2> QED
      BY <2>1, <2>2, <2>3, NoSaveType, SaveMoves
  <1> QED
    BY <1>1, <1>2

(* The invariant of the dialog, for all lists, items and numbers of rows.  *)
LEMMA FormNextKeeps == ASSUME FormInv, FormNext, UNCHANGED calm PROVE FormInv'
  <1>1. ASSUME NEW f \in Feeds, FeedStep(f) PROVE FormInv'
    BY <1>1, FeedSteps
  <1> QED
    BY <1>1, FormSteps, RowSteps, SavesBegin, ServerTakes, SavesEnd, SavesFail DEF FormNext, SaveStep

(* The dialog keeps its books at every moment, whatever the user clicks    *)
(* and whichever answers are lost.                                         *)
THEOREM FormInvariant == FormSpec => []FormInv
  <1>1. FormInit => FormInv
    BY FormStart
  <1>2. FormInv /\ [FormNext /\ UNCHANGED calm]_<<formVars, calm>> => FormInv'
    <2> SUFFICES ASSUME FormInv, [FormNext /\ UNCHANGED calm]_<<formVars, calm>> PROVE FormInv'
      OBVIOUS
    <2>1. CASE FormNext /\ UNCHANGED calm
      BY <2>1, FormNextKeeps
    <2>2. CASE UNCHANGED <<formVars, calm>>
      <3>1. KeepsStock /\ form'.rows = form.rows /\ calm' = calm /\ UNCHANGED <<form, feed, post, shelf, told, lost, clicks>>
        BY <2>2 DEF formVars, KeepsStock
      <3>2. FormTypes'
        BY <3>1 DEF FormInv, FormTypes
      <3>3. calm /\ Loading => ~Matching'
        BY <3>1 DEF FormInv, RowsWait, Matching
      <3> QED
        BY <3>1, <3>2, <3>3, DialogMoves
    <2> QED
      BY <2>1, <2>2
  <1> QED
    BY <1>1, <1>2, PTL DEF FormSpec

(* What the invariant says of the property.                                *)
LEMMA FormFaithful == ASSUME FormInv PROVE StockFormFaithful
  <1>1. shelf.units \in [Goods -> Nat] /\ told \in Nat /\ post.now.shown \in Nat
    BY DEF FormInv, FormTypes, Saves
  <1>2. OnShelf = Units(shelf.units)
    <2>1. DOMAIN shelf.units = Goods
      BY <1>1
    <2> QED
      BY <2>1 DEF OnShelf, SumFunction, Units, Sum
  <1>3. told <= Reported /\ Reported \in Nat /\ Units(shelf.units) \in Nat
    BY <1>1, UnitsType DEF Reported
  <1>4. Distinct => \A i \in DOMAIN form.rows : form.rows[i].goods = form.rows[i].meant
    BY DEF FormInv, RowsFit, RowFits, Distinct
  <1>5. told <= OnShelf /\ (calm => OnShelf = Reported)
    BY <1>1, <1>2, <1>3 DEF FormInv, ShelfFits
  <1> QED
    BY <1>4, <1>5 DEF FormInv, RowsWait, StockFormFaithful, Reported

(* Everything the dialog has reported as saved is on the shelf, whatever   *)
(* happens; in calm weather nothing else is and no row with contents is    *)
(* lost; as long as no two rows were made in one millisecond, every row    *)
(* has the item that was chosen for it.                                    *)
THEOREM StockFormAlwaysFaithful == FormSpec => []StockFormFaithful
  <1>1. FormInv => StockFormFaithful
    BY FormFaithful
  <1> QED
    BY <1>1, FormInvariant, PTL
=============================================================================
