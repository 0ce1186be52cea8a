----------------------------- MODULE Credentials -----------------------------
(***************************************************************************)
(* A seller's eBay credentials: the OAuth round trip that stores them      *)
(* (routers/ebay.py) and the tasks that refresh an expired access token    *)
(* (sell.get_seller_token), each with a session of its own and no lock.    *)
(***************************************************************************)
EXTENDS Sessions, Naturals, FiniteSets

CONSTANTS Nonces,      \* state nonces; bound: how often connect is called
          Callbacks,   \* callback requests in progress
          Refreshers,  \* tasks that need a token
          Rotating,    \* whether eBay may rotate a refresh token
          MaxConsents, \* bound: how often the seller consents
          MaxExpiries  \* bound: how often the access token expires

ASSUME ConsentsAssumption ==
  MaxConsents \in Nat /\ MaxExpiries \in Nat /\ Rotating \in BOOLEAN

VARIABLES nonces,     \* the unexpired rows of ebay_oauth_states
          issued,     \* the nonces connect has made
          codes,      \* the authorization codes eBay has given out, with their nonce
          redeemed,   \* those it has exchanged
          cred,       \* the row of platform_credentials
          callback,   \* the callbacks in progress
          refresher,  \* the refreshes in progress
          expiries,   \* expiries so far
          saved,      \* history: the last consent stored, and any before it that
                      \* its callback cannot have replaced
          rotated,    \* history: a task has stored a new refresh token since
          overlapped, \* history: two callbacks had the same nonce at a time
          spent       \* history: how often a nonce has led to stored tokens

oauth == <<nonces, issued, codes, redeemed>>
credentialsVars ==
  <<oauth, cred, callback, refresher, expiries, saved, rotated, overlapped, spent>>

Consents == 1..MaxConsents

(* A refresh token is known by its consent and the number of rotations     *)
(* since, an access token by its consent, 0 being one before the first     *)
(* here; there may be no refresh token                                     *)
RefreshToken == Consents \X Nat
NoRefresh    == <<0, 0>>

(* The row before the first consent here, if there is one *)
Bare(stored) == [stored |-> stored, access |-> 0, refresh |-> NoRefresh, expired |-> FALSE]

Cred == [stored : BOOLEAN, access : Consents \cup {0}, refresh : RefreshToken \cup {NoRefresh},
         expired : BOOLEAN]

Refreshable == {c \in Cred : c.refresh # NoRefresh}

Code == [consent : Consents, nonce : Nonces]

NoCallback == [pc |-> "idle"]

(* A callback that has deleted the nonce keeps the row locked until its    *)
(* session ends                                                            *)
CallbackState ==
  {NoCallback} \cup [pc : {"delete", "exchange"}, code : Code]
  \cup [pc : {"save"}, code : Code, loaded : Cred]

RefresherState ==
  {NoCallback} \cup [pc : {"ask"}, loaded : Refreshable]
  \cup [pc : {"save"}, loaded : Refreshable, new : Refreshable]

CredentialsTypeOK ==
  /\ nonces \subseteq issued /\ issued \subseteq Nonces
  /\ codes \subseteq Code /\ redeemed \subseteq Code
  /\ cred \in Cred
  /\ callback \in [Callbacks -> CallbackState]
  /\ refresher \in [Refreshers -> RefresherState]
  /\ expiries \in Nat /\ saved \subseteq Consents
  /\ rotated \in BOOLEAN
  /\ overlapped \subseteq Nonces
  /\ spent \in [Nonces -> Nat]

(* The seller has never been connected, or is without a refresh token *)
CredentialsInit ==
  /\ nonces = {} /\ issued = {} /\ codes = {} /\ redeemed = {}
  /\ cred \in {Bare(stored) : stored \in BOOLEAN}
  /\ callback = [c \in Callbacks |-> NoCallback]
  /\ refresher = [r \in Refreshers |-> NoCallback]
  /\ expiries = 0
  /\ saved = {} /\ rotated = FALSE /\ overlapped = {}
  /\ spent = [n \in Nonces |-> 0]

-----------------------------------------------------------------------------
(* ebay_connect: the nonce is committed before the URL is returned *)
Connect(n) ==
  /\ n \notin issued
  /\ issued' = issued \cup {n} /\ nonces' = nonces \cup {n}
  /\ UNCHANGED <<codes, redeemed, cred, callback, refresher, expiries, saved, rotated,
                 overlapped, spent>>

(* _STATE_TTL has passed: the query does not find the row any more *)
NonceExpires(n) ==
  /\ n \in nonces
  /\ nonces' = nonces \ {n}
  /\ UNCHANGED <<issued, codes, redeemed, cred, callback, refresher, expiries, saved, rotated,
                 overlapped, spent>>

(* The seller consents at eBay, perhaps twice on one URL *)
Consent(n) ==
  /\ n \in issued /\ Cardinality(codes) < MaxConsents
  /\ codes' = codes \cup {[consent |-> Cardinality(codes) + 1, nonce |-> n]}
  /\ UNCHANGED <<nonces, issued, redeemed, cred, callback, refresher, expiries, saved,
                 rotated, overlapped, spent>>

-----------------------------------------------------------------------------
(* ebay_callback selects the nonce; without it, or on a declined consent,  *)
(* it changes nothing                                                      *)
CallbackReads(c, code) ==
  /\ callback[c].pc = "idle" /\ code \in codes /\ code.nonce \in nonces
  /\ callback' = [callback EXCEPT ![c] = [pc |-> "delete", code |-> code]]
  /\ overlapped' = overlapped \cup
       {n \in {code.nonce} : \E d \in Callbacks : callback[d].pc # "idle"
                                                   /\ callback[d].code.nonce = n}
  /\ UNCHANGED <<oauth, cred, refresher, expiries, saved, rotated, spent>>

Locked(n) ==
  \E d \in Callbacks : callback[d].pc \in {"exchange", "save"} /\ callback[d].code.nonce = n

(* session.delete and flush: waits for another session's delete of the row; *)
(* a row that is gone by then is only warned about                         *)
CallbackDeletes(c) ==
  /\ callback[c].pc = "delete" /\ ~Locked(callback[c].code.nonce)
  /\ callback' = [callback EXCEPT ![c].pc = "exchange"]
  /\ UNCHANGED <<oauth, cred, refresher, expiries, saved, rotated, overlapped, spent>>

(* exchange_code, which eBay does once for a code, and the SELECT of the   *)
(* credentials                                                             *)
Exchanges(c) ==
  /\ callback[c].pc = "exchange" /\ callback[c].code \notin redeemed
  /\ redeemed' = redeemed \cup {callback[c].code}
  /\ callback' = [callback EXCEPT ![c] =
       [pc |-> "save", code |-> callback[c].code, loaded |-> cred]]
  /\ UNCHANGED <<nonces, issued, codes, cred, refresher, expiries, saved, rotated, overlapped,
                 spent>>

(* The exchange fails, or the API dies: the delete is rolled back, and the *)
(* nonce stays for another try                                             *)
CallbackFails(c) ==
  /\ callback[c].pc # "idle"
  /\ callback' = [callback EXCEPT ![c] = NoCallback]
  /\ UNCHANGED <<oauth, cred, refresher, expiries, saved, rotated, overlapped, spent>>

(* The unique key (seller, platform) refuses a second row *)
Conflicts(c) == ~callback[c].loaded.stored /\ cred.stored

(* Mutant: the nonce is left in the table *)
Reusable(c) == nonces

Deleted(c) == nonces \ {callback[c].code.nonce}

(* None is assigned over a None that was read, which writes nothing: the   *)
(* refresh token another callback has stored meanwhile stays               *)
Unwritten(c, token) ==
  token = NoRefresh /\ callback[c].loaded.refresh = NoRefresh /\ cred.refresh # NoRefresh

(* Fresh ciphertexts are assigned and committed.  eBay may leave the       *)
(* refresh token out.  subscribe_messages follows, whatever it answers.    *)
CallbackCommits(c) ==
  /\ callback[c].pc = "save" /\ ~Conflicts(c)
  /\ \E token \in {NoRefresh, <<callback[c].code.consent, 0>>} :
       /\ cred' = [stored |-> TRUE, access |-> callback[c].code.consent,
                   refresh |-> IF Unwritten(c, token) THEN cred.refresh ELSE token,
                   expired |-> FALSE]
       /\ saved' = {callback[c].code.consent} \cup (IF Unwritten(c, token) THEN saved ELSE {})
       /\ rotated' = (rotated /\ Unwritten(c, token))
  /\ nonces' = Deleted(c)
  /\ spent' = [spent EXCEPT ![callback[c].code.nonce] = @ + 1]
  /\ callback' = [callback EXCEPT ![c] = NoCallback]
  /\ UNCHANGED <<issued, codes, redeemed, refresher, expiries, overlapped>>

-----------------------------------------------------------------------------
(* The access token passes its expires_at *)
Expires ==
  /\ cred.stored /\ ~cred.expired /\ expiries < MaxExpiries
  /\ cred' = [cred EXCEPT !.expired = TRUE]
  /\ expiries' = expiries + 1
  /\ UNCHANGED <<oauth, callback, refresher, saved, rotated, overlapped, spent>>

(* get_seller_token: the row is read, and used as it is unless expired; it *)
(* raises without a row, or when there is no refresh token to use          *)
TokenIsRead(r) ==
  /\ refresher[r].pc = "idle" /\ cred.stored /\ cred.expired /\ cred.refresh # NoRefresh
  /\ refresher' = [refresher EXCEPT ![r] = [pc |-> "ask", loaded |-> cred]]
  /\ UNCHANGED <<oauth, cred, callback, expiries, saved, rotated, overlapped, spent>>

(* refresh_access_token; rotations is 1 when the answer brings a new       *)
(* refresh token                                                           *)
AnswerTo(loaded, rotations) ==
  [stored  |-> loaded.stored,
   access  |-> loaded.refresh[1],
   refresh |-> <<loaded.refresh[1], loaded.refresh[2] + rotations>>,
   expired |-> FALSE]

EbayRefreshes(r) ==
  /\ refresher[r].pc = "ask"
  /\ \E rotations \in IF Rotating THEN {0, 1} ELSE {0} :
       refresher' = [refresher EXCEPT ![r] =
         [pc |-> "save", loaded |-> refresher[r].loaded,
          new |-> AnswerTo(refresher[r].loaded, rotations)]]
  /\ UNCHANGED <<oauth, cred, callback, expiries, saved, rotated, overlapped, spent>>

RefreshFails(r) ==
  /\ refresher[r].pc # "idle"
  /\ refresher' = [refresher EXCEPT ![r] = NoCallback]
  /\ UNCHANGED <<oauth, cred, callback, expiries, saved, rotated, overlapped, spent>>

(* The commit writes the access token and its expiry, new ciphertexts      *)
(* always, and the refresh token only when the answer had one              *)
Refreshed(loaded, new) ==
  [stored  |-> cred.stored,
   access  |-> new.access,
   refresh |-> Column(cred.refresh, loaded.refresh, new.refresh),
   expired |-> new.expired]

TokenIsSaved(r) ==
  /\ refresher[r].pc = "save"
  /\ cred' = Refreshed(refresher[r].loaded, refresher[r].new)
  /\ rotated' = (rotated \/ refresher[r].new.refresh # refresher[r].loaded.refresh)
  /\ refresher' = [refresher EXCEPT ![r] = NoCallback]
  /\ UNCHANGED <<oauth, callback, expiries, saved, overlapped, spent>>

-----------------------------------------------------------------------------
CredentialsNext ==
  \/ \E n \in Nonces : Connect(n) \/ NonceExpires(n) \/ Consent(n)
  \/ \E c \in Callbacks :
       \/ \E code \in codes : CallbackReads(c, code)
       \/ CallbackDeletes(c) \/ Exchanges(c) \/ CallbackFails(c) \/ CallbackCommits(c)
  \/ Expires
  \/ \E r \in Refreshers :
       TokenIsRead(r) \/ EbayRefreshes(r) \/ RefreshFails(r) \/ TokenIsSaved(r)

CredentialsSpec == CredentialsInit /\ [][CredentialsNext]_credentialsVars

-----------------------------------------------------------------------------
(* The refresh token on record is the one of the last consent stored, or   *)
(* none: a task that read the row before the seller connected again, and   *)
(* whose refresh comes back after, leaves it alone, unless eBay rotated    *)
(* the old one (sell.get_seller_token takes no lock).  A consent that came *)
(* without one leaves no older one there either, unless its callback had   *)
(* read the row before that was stored.                                    *)
LatestConsentStands ==
  ~rotated => \/ cred.refresh = NoRefresh
              \/ cred.refresh[1] \in saved /\ cred.refresh[2] = 0

(* "prevent CSRF attacks by using a state nonce" (routers/ebay.py): a      *)
(* nonce stores tokens once, unless a second callback read it before the   *)
(* first committed: its delete finds no row, which is only warned about.   *)
NonceIsSpentOnce == \A n \in Nonces : spent[n] > 1 => n \in overlapped
=============================================================================
