------------------------------- MODULE Session -------------------------------
(***************************************************************************)
(* Signing in with a wallet, and the draft a signed-in creator types       *)
(* (lib/.server/auth.ts, wallet/session.tsx, create/draft.ts, db.ts).      *)
(*                                                                         *)
(* One browser: its tabs share the cookie jar, while each tab has its own  *)
(* selected wallet and its own copy of the last loader data.  The server   *)
(* keeps nonces, sessions and drafts.  A session is named by the request   *)
(* that opened it.  What a draft holds is a version number; the launch of  *)
(* a draft is module Launch.                                               *)
(***************************************************************************)
EXTENDS Integers, FiniteSetsExt

CONSTANTS
  Tabs, Wallets,
  Nonces,        \* nonces in the order they are issued, 1 .. n
  Ids,           \* ids of drafts, 1 .. n
  None,
  NonceTTL,      \* NONCE_TTL_SECONDS
  SessionTTL,    \* SESSION_TTL_SECONDS
  ClockSkew,     \* CLOCK_SKEW_SECONDS
  Repeats,       \* a verify request may reach the server a second time
  MaxTime,       \* bound: the server's clock
  MaxEdits       \* bound: edits of drafts

VARIABLES
  now,       \* the server's clock
  issued,    \* nonces issued so far
  nonces,    \* auth_nonces: the row of each nonce, or None
  sessions,  \* sessions: the row of each token, or None
  drafts,    \* drafts: the row of each id, or None
  fresh,     \* the next id crypto.randomUUID returns
  edits,     \* edits made so far
  jar,       \* the token in the session cookie, or None
  tab,       \* each tab's page
  auth,      \* each tab's click on "Sign in with wallet"
  verify,    \* POST /api/auth/verify at the server, and its repetition
  logout,    \* POST /api/auth/logout: the token it carries
  saves      \* POST /api/drafts, as many as are under way

vars == <<now, issued, nonces, sessions, drafts, fresh, edits, jar, tab, auth, verify,
          logout, saves>>
server == <<issued, nonces, sessions>>

Copies == {1, 2}
Tokens == Nonces \X Copies
Versions == 0 .. MaxEdits

Message == [nonce : Nonces, wallet : Wallets, issuedAt : Int, expires : Nat]
Challenge == [nonce : Nonces, wallet : Wallets, sent : BOOLEAN]
Request == [message : Message, at : {"sent", "consumed"}]
NonceRow == [expires : Nat, used : BOOLEAN]
Row == [creator : Wallets, data : Versions, at : Nat]
Draft == [id : Ids, data : Versions]
\* For the properties: whether the save sent last was sent when no other save of
\* the draft was under way.
Wizard == [id : Ids, data : Versions, sent : Versions, timer : BOOLEAN, alone : BOOLEAN,
           status : {"idle", "saving", "saved", "error"}]
Page == [account : Wallets \cup {None}, session : Wallets \cup {None},
         draft : Draft \cup {None}, wizard : Wizard \cup {None}, reload : BOOLEAN]
\* The wallet is the one the server has found signed in, None until it has looked;
\* the answer of a save that is not live is read by nobody.
Save == [tab : Tabs, id : Ids, data : Versions, token : Tokens \cup {None},
         wallet : Wallets \cup {None}, live : BOOLEAN]

SessionAssumption ==
  /\ NonceTTL \in Nat \ {0} /\ SessionTTL \in Nat \ {0} /\ ClockSkew \in Nat
  /\ MaxTime \in Nat /\ MaxEdits \in Nat /\ Repeats \in BOOLEAN
  /\ None \notin Wallets /\ None \notin Row /\ None \notin NonceRow
  /\ None \notin Request /\ None \notin Wizard
  /\ Nonces \subseteq Nat /\ \E n \in Nonces \cup {0} : Nonces = 1 .. n
  /\ Ids \subseteq Nat /\ \E n \in Ids \cup {0} : Ids = 1 .. n

TypeOK ==
  /\ now \in 0 .. MaxTime
  /\ issued \in Nonces \cup {0}
  /\ nonces \in [Nonces -> NonceRow \cup {None}]
  /\ sessions \in [Tokens -> [address : Wallets, expires : Nat] \cup {None}]
  /\ drafts \in [Ids -> Row \cup {None}]
  /\ fresh \in Nat
  /\ edits \in Versions
  /\ jar \in Tokens \cup {None}
  /\ tab \in [Tabs -> Page]
  /\ auth \in [Tabs -> Challenge \cup {None}]
  /\ verify \in [Tabs \X Copies -> Request \cup {None}]
  /\ logout \in [Tabs -> [token : Tokens \cup {None}] \cup {None}]
  /\ saves \subseteq Save

NoPage == [account |-> None, session |-> None, draft |-> None,
           wizard |-> None, reload |-> FALSE]

Init ==
  /\ now = 0
  /\ issued = 0
  /\ nonces = [n \in Nonces |-> None]
  /\ sessions = [k \in Tokens |-> None]
  /\ drafts = [i \in Ids |-> None]
  /\ fresh = 1
  /\ edits = 0
  /\ jar = None
  /\ tab = [t \in Tabs |-> NoPage]
  /\ auth = [t \in Tabs |-> None]
  /\ verify = [q \in Tabs \X Copies |-> None]
  /\ logout = [t \in Tabs |-> None]
  /\ saves = {}

-----------------------------------------------------------------------------
(* The page of a tab.                                                      *)

\* sessionAddress: the wallet a token stands for.
AddressForever(token) ==                                   \* mutated Address
  IF token = None \/ sessions[token] = None THEN None
  ELSE sessions[token].address
Address(token) ==
  IF token = None \/ sessions[token] = None THEN None
  ELSE IF sessions[token].expires > now THEN sessions[token].address ELSE None

SignedIn(page) == page.account # None /\ page.session = page.account

\* latestDraft: the one of the wallet that was saved last.
DraftsOf(w) == {i \in Ids : drafts[i] # None /\ drafts[i].creator = w}
LatestDraft(w) ==
  IF w = None \/ DraftsOf(w) = {} THEN None
  ELSE LET i == CHOOSE i \in DraftsOf(w) :
                  \A j \in DraftsOf(w) : drafts[j].at <= drafts[i].at
       IN [id |-> i, data |-> drafts[i].data]

\* initialState: what the loader read, or a draft with a new id.
NewWizard(draft) ==
  [id |-> IF draft = None THEN fresh ELSE draft.id,
   data |-> IF draft = None THEN 0 ELSE draft.data,
   sent |-> 0, timer |-> FALSE, alone |-> FALSE, status |-> "idle"]

\* RequireSignIn shows the wizard to the signed-in wallet only, and the draft's
\* id is its key: a page that loses one or changes the other mounts it anew.
Shows(page, t) ==
  IF ~SignedIn(page) THEN [page EXCEPT !.wizard = None]
  ELSE IF tab[t].wizard # None /\ page.draft = None /\ tab[t].draft = None
       THEN page
  ELSE IF /\ tab[t].wizard # None /\ page.draft # None /\ tab[t].draft # None
          /\ page.draft.id = tab[t].draft.id
       THEN page
  ELSE [page EXCEPT !.wizard = NewWizard(page.draft)]

Mounts(t, page) == page.wizard # None /\ page.wizard # tab[t].wizard

\* The answers of the tab's saves find nobody.
Unread(t) == {IF s.tab = t THEN [s EXCEPT !.live = FALSE] ELSE s : s \in saves}

\* The page changes; a wizard that goes takes its timer along.
Becomes(t, page) ==
  LET shown == Shows(page, t)
      takesId == Mounts(t, shown) /\ page.draft = None
  IN /\ takesId => fresh \in Ids
     /\ tab' = [tab EXCEPT ![t] = shown]
     /\ fresh' = IF takesId THEN fresh + 1 ELSE fresh
     /\ saves' = IF tab[t].wizard # None /\ shown.wizard # tab[t].wizard
                 THEN Unread(t) ELSE saves

\* The visitor picks another wallet, or disconnects.
SelectWallet(t, w) ==
  /\ w # tab[t].account
  /\ Becomes(t, [tab[t] EXCEPT !.account = w])
  /\ UNCHANGED <<now, server, drafts, edits, jar, auth, verify, logout>>

\* The loaders of root and of /create run with the cookie of the moment.
Loaded(t) ==
  LET w == Address(jar)
  IN [tab[t] EXCEPT !.session = w, !.draft = LatestDraft(w), !.reload = FALSE]

\* revalidator.revalidate(), which ends a sign-in and a sign-out.
Revalidate(t) ==
  /\ tab[t].reload
  /\ Becomes(t, Loaded(t))
  /\ UNCHANGED <<now, server, drafts, edits, jar, auth, verify, logout>>

\* The page is opened or reloaded; of the tab's state only the selected wallet
\* is kept.
OpenPage(t) ==
  LET page == [Loaded(t) EXCEPT !.wizard = None]
      shown == IF SignedIn(page)
               THEN [page EXCEPT !.wizard = NewWizard(page.draft)] ELSE page
      takesId == SignedIn(page) /\ page.draft = None
  IN /\ takesId => fresh \in Ids
     /\ tab' = [tab EXCEPT ![t] = shown]
     /\ fresh' = IF takesId THEN fresh + 1 ELSE fresh
     /\ auth' = [auth EXCEPT ![t] = None]
     /\ saves' = Unread(t)
     /\ UNCHANGED <<now, server, drafts, edits, jar, verify, logout>>

-----------------------------------------------------------------------------
(* Signing in and out.                                                     *)

\* Expired rows go whenever one is inserted.
Unexpired(rows) ==
  [k \in DOMAIN rows |->
     IF rows[k] # None /\ rows[k].expires < now THEN None ELSE rows[k]]

\* POST /api/auth/nonce: issueChallenge.  The wallet that will sign is the one
\* selected now.
RequestChallenge(t) ==
  /\ auth[t] = None /\ tab[t].account # None /\ ~SignedIn(tab[t])
  /\ issued + 1 \in Nonces
  /\ issued' = issued + 1
  /\ nonces' = [Unexpired(nonces) EXCEPT
                  ![issued'] = [expires |-> now + NonceTTL, used |-> FALSE]]
  /\ auth' = [auth EXCEPT ![t] =
                [nonce |-> issued', wallet |-> tab[t].account, sent |-> FALSE]]
  /\ UNCHANGED <<now, sessions, drafts, fresh, edits, jar, tab, verify, logout,
                 saves>>

\* The message repeats the times of the challenge; a wallet that builds its
\* own may date it by its own clock, which is off by ClockSkew at most.
IssueTimes(asked) == {asked} \cup now - ClockSkew .. now + ClockSkew

\* The wallet has signed; the request may be repeated on its way.
SendVerify(t, issuedAt) ==
  LET n == auth[t].nonce
      expires == nonces[n].expires
      request == [message |-> [nonce |-> n, wallet |-> auth[t].wallet,
                               issuedAt |-> issuedAt, expires |-> expires],
                  at |-> "sent"]
  IN /\ auth[t] # None /\ ~auth[t].sent
     /\ nonces[n] # None /\ issuedAt \in IssueTimes(expires - NonceTTL)
     /\ auth' = [auth EXCEPT ![t] = [@ EXCEPT !.sent = TRUE]]
     /\ \E repeated \in {FALSE, Repeats} :
          /\ \A c \in Copies : verify[t, c] = None
          /\ verify' = [verify EXCEPT
                          ![<<t, 1>>] = request,
                          ![<<t, 2>>] = IF repeated THEN request ELSE None]
     /\ UNCHANGED <<now, server, drafts, fresh, edits, jar, tab, logout, saves>>

\* The visitor declines, or a request fails.
SignInFails(t) ==
  /\ auth[t] # None /\ (~auth[t].sent \/ verify[t, 1] = None)
  /\ auth' = [auth EXCEPT ![t] = None]
  /\ UNCHANGED <<now, server, drafts, fresh, edits, jar, tab, verify, logout,
                 saves>>

\* checkSiwsFields: the times.
InTimeBySkewOnly(m) ==                                     \* mutated InTime
  /\ m.issuedAt - now \in -ClockSkew .. ClockSkew
  /\ m.expires > now
InTime(m) ==
  /\ m.issuedAt - now \in -(NonceTTL + ClockSkew) .. NonceTTL + ClockSkew
  /\ m.expires > now

\* consumeNonce: one UPDATE.
ConsumableAgain(n) == nonces[n] # None /\ nonces[n].expires > now \* mutated
Consumable(n) ==
  nonces[n] # None /\ ~nonces[n].used /\ nonces[n].expires > now

ConsumeNonce(t, c) ==
  LET m == verify[t, c].message
  IN /\ verify[t, c] # None /\ verify[t, c].at = "sent"
     /\ InTime(m) /\ Consumable(m.nonce)
     /\ nonces' = [nonces EXCEPT ![m.nonce] = [@ EXCEPT !.used = TRUE]]
     /\ verify' = [verify EXCEPT ![<<t, c>>] = [@ EXCEPT !.at = "consumed"]]
     /\ UNCHANGED <<now, issued, sessions, drafts, fresh, edits, jar, tab, auth,
                    logout, saves>>

\* The answer to a repetition is read by nobody.
Answered(t, c) ==
  /\ verify' = [verify EXCEPT ![<<t, c>>] = None]
  /\ auth' = IF c = 1 /\ auth[t] # None THEN [auth EXCEPT ![t] = None] ELSE auth

RefuseVerify(t, c) ==
  LET m == verify[t, c].message
  IN /\ verify[t, c] # None /\ verify[t, c].at = "sent"
     /\ ~(InTime(m) /\ Consumable(m.nonce))
     /\ Answered(t, c)
     /\ UNCHANGED <<now, server, drafts, fresh, edits, jar, tab, logout, saves>>

\* insertSession and the answer with the cookie; the page then reloads its data.
InsertSession(t, c) ==
  LET m == verify[t, c].message
  IN /\ verify[t, c] # None /\ verify[t, c].at = "consumed"
     /\ sessions' = [Unexpired(sessions) EXCEPT
                       ![<<m.nonce, c>>] = [address |-> m.wallet,
                                        expires |-> now + SessionTTL]]
     /\ Answered(t, c)
     /\ jar' = IF c = 1 THEN <<m.nonce, 1>> ELSE jar
     /\ tab' = IF c = 1 THEN [tab EXCEPT ![t] = [@ EXCEPT !.reload = TRUE]] ELSE tab
     /\ UNCHANGED <<now, issued, nonces, drafts, fresh, edits, logout, saves>>

\* The server stops between the two: the nonce is spent, nobody is signed in.
LoseVerify(t, c) ==
  /\ verify[t, c] # None /\ verify[t, c].at = "consumed"
  /\ Answered(t, c)
  /\ UNCHANGED <<now, server, drafts, fresh, edits, jar, tab, logout, saves>>

\* "Sign out" sends the cookie that the jar holds.
PressSignOut(t) ==
  /\ SignedIn(tab[t]) /\ logout[t] = None
  /\ logout' = [logout EXCEPT ![t] = [token |-> jar]]
  /\ UNCHANGED <<now, server, drafts, fresh, edits, jar, tab, auth, verify, saves>>

ClearCookieOnly(token) == sessions                         \* mutated DeleteSession
DeleteSession(token) ==
  IF token = None THEN sessions ELSE [sessions EXCEPT ![token] = None]

\* The answer clears the cookie, whichever session it is by then.
SignOut(t) ==
  /\ logout[t] # None
  /\ sessions' = DeleteSession(logout[t].token)
  /\ jar' = None
  /\ logout' = [logout EXCEPT ![t] = None]
  /\ tab' = [tab EXCEPT ![t] = [@ EXCEPT !.reload = TRUE]]
  /\ UNCHANGED <<now, issued, nonces, drafts, fresh, edits, auth, verify, saves>>

-----------------------------------------------------------------------------
(* The draft.                                                              *)

SetWizard(t, wizard) == tab' = [tab EXCEPT ![t] = [@ EXCEPT !.wizard = wizard]]

Edit(t) ==
  /\ tab[t].wizard # None /\ edits < MaxEdits
  /\ edits' = edits + 1
  /\ SetWizard(t, [tab[t].wizard EXCEPT !.data = edits', !.timer = TRUE])
  /\ UNCHANGED <<now, server, drafts, fresh, jar, auth, verify, logout, saves>>

\* The debounce ends.  Saves under way, of this page or of an earlier one, are not
\* waited for.
Autosave(t) ==
  LET w == tab[t].wizard
  IN /\ w # None /\ w.timer
     /\ SetWizard(t, [w EXCEPT !.timer = FALSE, !.status = "saving", !.sent = w.data,
                               !.alone = \A s \in saves : s.id # w.id])
     /\ saves' = saves \cup
          {[tab |-> t, id |-> w.id, data |-> w.data, token |-> jar, wallet |-> None,
            live |-> TRUE]}
     /\ UNCHANGED <<now, server, drafts, fresh, edits, jar, auth, verify, logout>>

SaveAnswered(s, status) ==
  /\ saves' = saves \ {s}
  /\ IF s.live
     THEN SetWizard(s.tab, [tab[s.tab].wizard EXCEPT !.status = status])
     ELSE UNCHANGED tab

Saved == {drafts[i].at : i \in {i \in Ids : drafts[i] # None}}
Latest == 1 + Max(Saved \cup {0})

\* upsertDraft.  A row of another creator is left as it is, which is no error.
UpsertAnyones(w, save) ==                                  \* mutated Upsert
  [drafts EXCEPT ![save.id] = [creator |-> w, data |-> save.data, at |-> Latest]]
UpsertNever(w, save) ==                                    \* mutated Upsert
  IF drafts[save.id] # None THEN drafts
  ELSE [drafts EXCEPT ![save.id] =
          [creator |-> w, data |-> save.data, at |-> Latest]]
Upsert(w, save) ==
  IF drafts[save.id] # None /\ drafts[save.id].creator # w THEN drafts
  ELSE [drafts EXCEPT ![save.id] =
          [creator |-> w, data |-> save.data, at |-> Latest]]

\* POST /api/drafts: requireWallet; then the body is read, and other requests are
\* served in between; then the upsert, for the wallet that was found.
SaveChecked(s) ==
  LET w == Address(s.token)
  IN /\ s \in saves /\ s.wallet = None
     /\ IF w = None THEN SaveAnswered(s, "error")
        ELSE /\ saves' = (saves \ {s}) \cup {[s EXCEPT !.wallet = w]}
             /\ UNCHANGED tab
     /\ UNCHANGED <<now, server, drafts, fresh, edits, jar, auth, verify, logout>>

SaveWrites(s) ==
  /\ s \in saves /\ s.wallet # None
  /\ drafts' = Upsert(s.wallet, s)
  /\ SaveAnswered(s, "saved")
  /\ UNCHANGED <<now, server, fresh, edits, jar, auth, verify, logout>>

\* The request is lost on its way or at the server.
SaveFails(s) ==
  /\ s \in saves
  /\ SaveAnswered(s, "error")
  /\ UNCHANGED <<now, server, drafts, fresh, edits, jar, auth, verify, logout>>

\* The connection breaks, and the server goes on.
SaveDropped(s) ==
  /\ s \in saves /\ s.live
  /\ saves' = (saves \ {s}) \cup {[s EXCEPT !.live = FALSE]}
  /\ SetWizard(s.tab, [tab[s.tab].wizard EXCEPT !.status = "error"])
  /\ UNCHANGED <<now, server, drafts, fresh, edits, jar, auth, verify, logout>>

Tick ==
  /\ now < MaxTime
  /\ now' = now + 1
  /\ UNCHANGED <<server, drafts, fresh, edits, jar, tab, auth, verify, logout,
                 saves>>

Next ==
  \/ \E t \in Tabs :
       \/ \E w \in Wallets \cup {None} : SelectWallet(t, w)
       \/ OpenPage(t) \/ Revalidate(t)
       \/ RequestChallenge(t)
       \/ \E issuedAt \in -ClockSkew .. MaxTime + ClockSkew : SendVerify(t, issuedAt)
       \/ SignInFails(t)
       \/ \E c \in Copies :
            \/ ConsumeNonce(t, c) \/ RefuseVerify(t, c)
            \/ InsertSession(t, c) \/ LoseVerify(t, c)
       \/ PressSignOut(t) \/ SignOut(t)
       \/ Edit(t) \/ Autosave(t)
  \/ \E s \in saves : SaveChecked(s) \/ SaveWrites(s) \/ SaveFails(s) \/ SaveDropped(s)
  \/ Tick

Spec == Init /\ [][Next]_vars

-----------------------------------------------------------------------------
(* Properties.                                                             *)

\* However often a signed message arrives, and however the requests are
\* interleaved, it opens one session at most.
OneSessionPerNonce ==
  \A n \in Nonces : \A c, d \in Copies :
    sessions[n, c] # None /\ sessions[n, d] # None => c = d

\* A message is refused only when its challenge has expired or has been used
\* by its repetition: no wallet's clock within ClockSkew, and no delay up to
\* the expiry, is refused for its dates.
RefusedForCause(t) ==
  LET request == verify[t, 1]
  IN request # None /\ request.at = "sent" /\ verify'[t, 1] = None =>
       \/ request.message.expires <= now
       \/ nonces[request.message.nonce].used

Valid(token) ==
  /\ token # None /\ sessions[token] # None /\ now < sessions[token].expires

\* A save passes the check with a session that is neither signed out nor expired at
\* that moment, and for the wallet of that session.
CheckedInSession ==
  \A s \in saves' : s.wallet # None =>
    \/ \E q \in saves : s = q \/ s = [q EXCEPT !.live = FALSE]
    \/ Valid(s.token) /\ sessions[s.token].address = s.wallet

\* What a draft holds changes only by a save that has passed the check, for the
\* wallet that was found then; a draft never passes to another wallet.
StaysWithCreator(i) ==
  drafts'[i] # drafts[i] =>
    /\ \E s \in saves \ saves' :
         s.id = i /\ s.data = drafts'[i].data /\ s.wallet = drafts'[i].creator
    /\ drafts'[i].creator # None
    /\ drafts[i] # None => drafts[i].creator = drafts'[i].creator

\* After a sign-out was answered the session it named is over: neither its
\* cookie nor a copy of it, in a request already under way, passes the check.
\* What has passed it before is still written.
SignOutEnds(t) ==
  logout[t] # None /\ logout'[t] = None =>
    \A s \in saves :
      s.token = logout[t].token /\ s.wallet = None => ~Valid(s.token)'

SoundStep ==
  /\ CheckedInSession
  /\ \A t \in Tabs : RefusedForCause(t) /\ SignOutEnds(t)
  /\ \A i \in Ids : StaysWithCreator(i)

\* Sessions begin for everybody who signed in time, let nothing through after the
\* sign-out, and write the drafts of their own wallet only.
SessionsSound == [][SoundStep]_vars

\* With one tab open, "Draft saved" is true of a save that was sent when no other
\* of the draft was under way: that version is stored, for the wallet that typed
\* it, whatever was selected, signed in or out or reloaded in between.
SavedIsStored ==
  \A t \in Tabs :
    LET w == tab[t].wizard
    IN w # None /\ w.status = "saved" /\ w.alone =>
         drafts[w.id] # None /\ drafts[w.id].creator = tab[t].account
           /\ drafts[w.id].data = w.sent

\* "Drafts are saved to your wallet": what the page calls saved belongs to the
\* wallet the page shows.
SavedToYourWallet ==
  \A t \in Tabs :
    LET w == tab[t].wizard
    IN w # None /\ w.status = "saved" =>
         drafts[w.id] # None /\ drafts[w.id].creator = tab[t].account

\* "So you can pick up where you left off": a wizard that mounts for a wallet
\* with a stored draft shows one of its drafts as it is stored.
PicksUp ==
  [][\A t \in Tabs :
       tab[t].wizard = None /\ tab'[t].wizard # None
         /\ DraftsOf(tab'[t].account) # {} =>
       \E i \in DraftsOf(tab'[t].account) :
         tab'[t].wizard.id = i /\ tab'[t].wizard.data = drafts[i].data]_vars
=============================================================================
