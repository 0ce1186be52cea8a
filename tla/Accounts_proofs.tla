--------------------------- MODULE Accounts_proofs ---------------------------
(***************************************************************************)
(* Theorems about the two accounts a seller holds.  Credentials, the eBay  *)
(* one: for any number of nonces, callbacks, tasks, consents and expiries, *)
(* whether eBay rotates refresh tokens or not.  Billing, the Stripe one:   *)
(* for any number of checkouts, subscriptions and webhook requests.        *)
(***************************************************************************)
EXTENDS Credentials, Billing, FiniteSetTheorems, TLAPS

(* What the sessions in progress hold *)
LEMMA CallbackType ==
  ASSUME CredentialsTypeOK, NEW c \in Callbacks, callback[c].pc # "idle"
  PROVE  callback[c].code \in Code /\ callback[c].code.nonce \in Nonces
         /\ callback[c].code.consent \in Consents
  BY DEF CredentialsTypeOK, CallbackState, NoCallback, Code

LEMMA CallbackGoesOn ==
  ASSUME CredentialsTypeOK, NEW c \in Callbacks, NEW s \in CallbackState,
         callback' = [callback EXCEPT ![c] = s]
  PROVE  callback' \in [Callbacks -> CallbackState]
  BY DEF CredentialsTypeOK

LEMMA RefresherType ==
  ASSUME CredentialsTypeOK, NEW r \in Refreshers, refresher[r].pc # "idle"
  PROVE  refresher[r].loaded \in Cred /\ refresher[r].loaded.refresh \in RefreshToken
  BY DEF CredentialsTypeOK, RefresherState, NoCallback, Refreshable, Cred

LEMMA TokenIsRefreshable ==
  ASSUME NEW c \in Cred, c.refresh \in RefreshToken
  PROVE  c \in Refreshable
  <1>1. c.refresh[1] \in 1..MaxConsents
        BY DEF RefreshToken, Consents
  <1>2. c.refresh[1] # 0
        BY <1>1, ConsentsAssumption
  <1>3. NoRefresh[1] = 0
        BY DEF NoRefresh
  <1> QED
      BY <1>2, <1>3 DEF Refreshable

LEMMA RefreshedToken ==
  ASSUME NEW token \in RefreshToken, NEW rotations \in Nat
  PROVE  token[1] \in Consents /\ <<token[1], token[2] + rotations>> \in RefreshToken
  <1>1. token[1] \in Consents /\ token[2] \in Nat
        BY DEF RefreshToken
  <1>2. token[2] + rotations \in Nat
        BY <1>1
  <1> QED
      BY <1>1, <1>2 DEF RefreshToken

-----------------------------------------------------------------------------
(* The codes eBay gives out are counted, so there must be finitely many,   *)
(* each of a nonce that connect has made.                                  *)
CodesCounted == IsFiniteSet(codes) /\ \A code \in codes : code.nonce \in issued

CredTyped == CredentialsTypeOK /\ CodesCounted

LEMMA InitialCredTypes == CredentialsInit => CredTyped
  <1> SUFFICES ASSUME CredentialsInit PROVE CredTyped
      OBVIOUS
  <1>1. IsFiniteSet({})
        BY FS_EmptySet
  <1>2. cred \in Cred
        <2>1. \A stored \in BOOLEAN : Bare(stored) \in Cred
              BY DEF Bare, Cred
        <2> QED
            BY <2>1 DEF CredentialsInit
  <1>3. NoCallback \in CallbackState /\ NoCallback \in RefresherState
        BY DEF CallbackState, RefresherState
  <1> QED
      BY <1>1, <1>2, <1>3 DEF CredentialsInit, CredTyped, CredentialsTypeOK, CodesCounted

LEMMA ConsentTypes ==
  ASSUME CredTyped, NEW n \in Nonces, Consent(n)
  PROVE  CredTyped'
  <1>1. Cardinality(codes) \in Nat
        BY FS_CardinalityType DEF CredTyped, CodesCounted
  <1>2. [consent |-> Cardinality(codes) + 1, nonce |-> n] \in Code
        BY <1>1, ConsentsAssumption DEF Consent, Code, Consents
  <1>3. IsFiniteSet(codes')
        BY FS_AddElement DEF CredTyped, CodesCounted, Consent
  <1> QED
      BY <1>2, <1>3 DEF CredTyped, CodesCounted, CredentialsTypeOK, Consent

LEMMA CallbackTypes ==
  ASSUME CredTyped, NEW c \in Callbacks,
         \/ \E code \in codes : CallbackReads(c, code)
         \/ CallbackDeletes(c) \/ Exchanges(c) \/ CallbackFails(c) \/ CallbackCommits(c)
  PROVE  CredTyped'
  <1> USE DEF CredTyped, CodesCounted
  <1>1. ASSUME NEW code \in codes, CallbackReads(c, code) PROVE CredTyped'
        <2>1. [pc |-> "delete", code |-> code] \in CallbackState
              BY DEF CredentialsTypeOK, CallbackState
        <2>2. callback' \in [Callbacks -> CallbackState]
              BY <1>1, <2>1, CallbackGoesOn DEF CallbackReads
        <2> QED
            BY <1>1, <2>2 DEF CallbackReads, CredentialsTypeOK, oauth, Code
  <1>2. CASE CallbackDeletes(c)
        <2>1. [callback[c] EXCEPT !.pc = "exchange"] \in CallbackState
              BY <1>2, CallbackType DEF CallbackDeletes, CredentialsTypeOK, CallbackState,
                                        NoCallback
        <2>2. callback' \in [Callbacks -> CallbackState]
              BY <1>2, <2>1, CallbackGoesOn DEF CallbackDeletes
        <2> QED
            BY <1>2, <2>2 DEF CallbackDeletes, CredentialsTypeOK, oauth
  <1>3. CASE Exchanges(c)
        <2>1. [pc |-> "save", code |-> callback[c].code, loaded |-> cred] \in CallbackState
              BY <1>3, CallbackType DEF Exchanges, CredentialsTypeOK, CallbackState
        <2>2. callback' \in [Callbacks -> CallbackState]
              BY <1>3, <2>1, CallbackGoesOn DEF Exchanges
        <2>3. redeemed' \subseteq Code
              BY <1>3, CallbackType DEF Exchanges, CredentialsTypeOK
        <2> QED
            BY <1>3, <2>2, <2>3 DEF Exchanges, CredentialsTypeOK
  <1>4. CASE CallbackFails(c)
        <2>1. callback' \in [Callbacks -> CallbackState]
              BY <1>4, CallbackGoesOn DEF CallbackFails, CallbackState
        <2> QED
            BY <1>4, <2>1 DEF CallbackFails, CredentialsTypeOK, oauth
  <1>5. CASE CallbackCommits(c)
        <2>1. callback' \in [Callbacks -> CallbackState]
              BY <1>5, CallbackGoesOn DEF CallbackCommits, CallbackState
        <2>2. callback[c].code.consent \in Consents /\ callback[c].code.nonce \in Nonces
              BY <1>5, CallbackType DEF CallbackCommits
        <2>3. cred' \in Cred
              <3> DEFINE consent == callback[c].code.consent
              <3>1. PICK token \in {NoRefresh, <<consent, 0>>} :
                      cred' = [stored |-> TRUE, access |-> consent,
                               refresh |-> IF Unwritten(c, token) THEN cred.refresh ELSE token,
                               expired |-> FALSE]
                    BY <1>5 DEF CallbackCommits
              <3>2. consent \in Consents
                    BY <2>2
              <3> HIDE DEF consent
              <3>3. <<consent, 0>> \in RefreshToken
                    BY <3>2 DEF RefreshToken
              <3>4. cred.refresh \in RefreshToken \cup {NoRefresh}
                    BY DEF CredentialsTypeOK, Cred
              <3> QED
                  BY <3>1, <3>2, <3>3, <3>4 DEF Cred
        <2>4. nonces' \subseteq nonces
              BY <1>5 DEF CallbackCommits, Deleted
        <2>5. spent' \in [Nonces -> Nat]
              BY <1>5, <2>2 DEF CallbackCommits, CredentialsTypeOK
        <2>6. saved' \subseteq Consents /\ rotated' \in BOOLEAN
              BY <1>5, <2>2 DEF CallbackCommits, CredentialsTypeOK
        <2> QED
            BY <1>5, <2>1, <2>3, <2>4, <2>5, <2>6 DEF CallbackCommits, CredentialsTypeOK
  <1> QED
      BY <1>1, <1>2, <1>3, <1>4, <1>5

LEMMA RefresherTypes ==
  ASSUME CredTyped, NEW r \in Refreshers,
         TokenIsRead(r) \/ EbayRefreshes(r) \/ RefreshFails(r) \/ TokenIsSaved(r)
  PROVE  CredTyped'
  <1> USE DEF CredTyped, CodesCounted
  <1>1. CASE TokenIsRead(r)
        <2>1. [pc |-> "ask", loaded |-> cred] \in RefresherState
              BY <1>1 DEF TokenIsRead, CredentialsTypeOK, RefresherState, Refreshable
        <2> QED
            BY <1>1, <2>1 DEF TokenIsRead, CredentialsTypeOK, oauth
  <1>2. CASE EbayRefreshes(r)
        <2> DEFINE loaded == refresher[r].loaded
        <2>1. loaded \in Cred /\ loaded.refresh \in RefreshToken
              BY <1>2, RefresherType DEF EbayRefreshes
        <2>2. PICK rotations \in {0, 1} :
                refresher' = [refresher EXCEPT ![r] =
                  [pc |-> "save", loaded |-> loaded, new |-> AnswerTo(loaded, rotations)]]
              BY <1>2 DEF EbayRefreshes
        <2>4. loaded.refresh[1] \in Consents
              /\ <<loaded.refresh[1], loaded.refresh[2] + rotations>> \in RefreshToken
              BY <2>1, RefreshedToken
        <2> DEFINE new == AnswerTo(loaded, rotations)
        <2>5. new \in Cred /\ new.refresh \in RefreshToken
              <3> HIDE DEF loaded
              <3> QED
                  BY <2>1, <2>4 DEF AnswerTo, Cred
        <2>6. [pc |-> "save", loaded |-> loaded, new |-> new] \in RefresherState
              <3> HIDE DEF loaded, new
              <3>1. loaded \in Refreshable /\ new \in Refreshable
                    BY <2>1, <2>5, TokenIsRefreshable
              <3> QED
                  BY <3>1 DEF RefresherState
        <2>7. refresher' \in [Refreshers -> RefresherState]
              BY <2>2, <2>6 DEF CredentialsTypeOK
        <2> QED
            BY <1>2, <2>7 DEF EbayRefreshes, CredentialsTypeOK, oauth
  <1>3. CASE RefreshFails(r)
        BY <1>3 DEF RefreshFails, CredentialsTypeOK, RefresherState, oauth
  <1>4. CASE TokenIsSaved(r)
        <2>1. refresher[r].loaded \in Cred /\ refresher[r].new \in Cred
              BY <1>4 DEF TokenIsSaved, CredentialsTypeOK, RefresherState, NoCallback, Refreshable
        <2>2. cred' \in Cred
              BY <1>4, <2>1 DEF TokenIsSaved, Refreshed, Column, Cred, CredentialsTypeOK
        <2>3. rotated' \in BOOLEAN
              BY <1>4 DEF TokenIsSaved, CredentialsTypeOK
        <2> QED
            BY <1>4, <2>2, <2>3 DEF TokenIsSaved, CredentialsTypeOK, RefresherState, oauth
  <1> QED
      BY <1>1, <1>2, <1>3, <1>4

LEMMA CredTypesKept == CredTyped /\ [CredentialsNext]_credentialsVars => CredTyped'
  <1> SUFFICES ASSUME CredTyped, [CredentialsNext]_credentialsVars PROVE CredTyped'
      OBVIOUS
  <1>1. ASSUME NEW n \in Nonces, Connect(n) \/ NonceExpires(n) PROVE CredTyped'
        BY <1>1 DEF CredTyped, CodesCounted, CredentialsTypeOK, Connect, NonceExpires
  <1>2. CASE Expires
        <2>1. [cred EXCEPT !.expired = TRUE] \in Cred
              BY DEF CredTyped, CredentialsTypeOK, Cred
        <2> QED
            BY <1>2, <2>1 DEF CredTyped, CodesCounted, CredentialsTypeOK, Expires, oauth
  <1>3. CASE UNCHANGED credentialsVars
        BY <1>3 DEF CredTyped, CodesCounted, CredentialsTypeOK, credentialsVars, oauth
  <1> QED
      BY <1>1, <1>2, <1>3, ConsentTypes, CallbackTypes, RefresherTypes DEF CredentialsNext

(* Type correctness. *)
THEOREM CredentialsTypes == CredentialsSpec => []CredentialsTypeOK
  <1>1. CredTyped => CredentialsTypeOK
        BY DEF CredTyped
  <1> QED
      BY <1>1, InitialCredTypes, CredTypesKept, PTL DEF CredentialsSpec

-----------------------------------------------------------------------------
LEMMA InitialConsent == CredentialsInit => LatestConsentStands
  BY DEF CredentialsInit, Bare, LatestConsentStands

LEMMA ConsentKept ==
  CredTyped /\ LatestConsentStands /\ [CredentialsNext]_credentialsVars => LatestConsentStands'
  <1> SUFFICES ASSUME CredTyped, LatestConsentStands, [CredentialsNext]_credentialsVars
               PROVE  LatestConsentStands'
      OBVIOUS
  <1>1. CASE UNCHANGED <<cred, saved, rotated>>
        BY <1>1 DEF LatestConsentStands
  <1>2. ASSUME NEW c \in Callbacks, CallbackCommits(c) PROVE LatestConsentStands'
        <2> DEFINE consent == callback[c].code.consent
        <2>1. PICK token \in {NoRefresh, <<consent, 0>>} :
                /\ cred' = [stored |-> TRUE, access |-> consent,
                            refresh |-> IF Unwritten(c, token) THEN cred.refresh ELSE token,
                            expired |-> FALSE]
                /\ saved' = {consent} \cup (IF Unwritten(c, token) THEN saved ELSE {})
                /\ rotated' = (rotated /\ Unwritten(c, token))
              BY <1>2 DEF CallbackCommits
        <2>2. CASE Unwritten(c, token)
              <3>1. cred'.refresh = cred.refresh /\ saved \subseteq saved' /\ rotated' = rotated
                    BY <2>1, <2>2 DEF CredTyped, CredentialsTypeOK
              <3> QED
                  BY <3>1 DEF LatestConsentStands
        <2>3. CASE ~Unwritten(c, token)
              <3>1. cred'.refresh = token /\ consent \in saved'
                    BY <2>1, <2>3
              <3> QED
                  BY <2>1, <3>1 DEF LatestConsentStands
        <2> QED
            BY <2>2, <2>3
  <1>3. CASE Expires
        BY <1>3 DEF Expires, LatestConsentStands, CredTyped, CredentialsTypeOK, Cred
  <1>4. ASSUME NEW r \in Refreshers, TokenIsSaved(r) PROVE LatestConsentStands'
        <2> DEFINE loaded == refresher[r].loaded
                   new == refresher[r].new
        <2>1. cred'.stored = cred.stored /\ saved' = saved
              BY <1>4 DEF TokenIsSaved, Refreshed
        <2>2. CASE new.refresh = loaded.refresh
              <3>1. cred'.refresh = cred.refresh /\ rotated' = rotated
                    BY <1>4, <2>2 DEF TokenIsSaved, Refreshed, Column, CredTyped, CredentialsTypeOK
              <3> QED
                  BY <2>1, <3>1 DEF LatestConsentStands
        <2>3. CASE new.refresh # loaded.refresh
              BY <1>4, <2>3 DEF TokenIsSaved, LatestConsentStands
        <2> QED
            BY <2>2, <2>3
  <1>5. ASSUME NEW n \in Nonces, Connect(n) \/ NonceExpires(n) \/ Consent(n)
        PROVE  UNCHANGED <<cred, saved, rotated>>
        BY <1>5 DEF Connect, NonceExpires, Consent
  <1>6. ASSUME NEW c \in Callbacks,
               \/ \E code \in codes : CallbackReads(c, code)
               \/ CallbackDeletes(c) \/ Exchanges(c) \/ CallbackFails(c)
        PROVE  UNCHANGED <<cred, saved, rotated>>
        BY <1>6 DEF CallbackReads, CallbackDeletes, Exchanges, CallbackFails
  <1>7. ASSUME NEW r \in Refreshers, TokenIsRead(r) \/ EbayRefreshes(r) \/ RefreshFails(r)
        PROVE  UNCHANGED <<cred, saved, rotated>>
        BY <1>7 DEF TokenIsRead, EbayRefreshes, RefreshFails
  <1> QED
      BY <1>1, <1>2, <1>3, <1>4, <1>5, <1>6, <1>7 DEF CredentialsNext, credentialsVars

(* A task that refreshes an access token never brings back the refresh     *)
(* token of an earlier consent, whenever it read the row.                  *)
THEOREM ConsentStands == CredentialsSpec => []LatestConsentStands
  BY InitialCredTypes, CredTypesKept, InitialConsent, ConsentKept, PTL DEF CredentialsSpec

-----------------------------------------------------------------------------
(* A nonce that has led to tokens is gone for good; a callback that still  *)
(* holds one has overlapped with the callback that spent it.               *)
Used == \A n \in Nonces : spent[n] > 0 => n \in issued \ nonces

Active(c) == callback[c].pc # "idle"

NonceOf(c) == callback[c].code.nonce

Held == \A c \in Callbacks : Active(c) => NonceOf(c) \in issued

Shared ==
  \A c, d \in Callbacks :
    c # d /\ Active(c) /\ Active(d) /\ NonceOf(c) = NonceOf(d) => NonceOf(c) \in overlapped

Late ==
  \A c \in Callbacks : Active(c) /\ spent[NonceOf(c)] > 0 => NonceOf(c) \in overlapped

NInv == CredTyped /\ Used /\ Held /\ Shared /\ Late /\ NonceIsSpentOnce

LEMMA InitialNonces == CredentialsInit => NInv
  <1> SUFFICES ASSUME CredentialsInit PROVE NInv
      OBVIOUS
  <1>1. \A n \in Nonces : spent[n] = 0
        BY DEF CredentialsInit
  <1>2. \A c \in Callbacks : ~Active(c)
        BY DEF CredentialsInit, NoCallback, Active
  <1> QED
      BY <1>1, <1>2, InitialCredTypes DEF NInv, Used, Held, Shared, Late, NonceIsSpentOnce

LEMMA SessionsKept ==
  ASSUME NInv, CredTyped', UNCHANGED <<callback, overlapped, spent>>,
         issued \subseteq issued', nonces' \ nonces \subseteq issued' \ issued
  PROVE  NInv'
  <1>1. Used'
        BY DEF NInv, Used
  <1>2. Held' /\ Shared' /\ Late' /\ NonceIsSpentOnce'
        BY DEF NInv, Held, Shared, Late, NonceIsSpentOnce, Active, NonceOf
  <1> QED
      BY <1>1, <1>2 DEF NInv

(* A callback that ends, or goes on with the same code *)
LEMMA CallbackContinues ==
  ASSUME NInv, CredTyped', UNCHANGED <<nonces, issued, overlapped, spent>>,
         \A c \in Callbacks : Active(c)' => Active(c) /\ NonceOf(c)' = NonceOf(c)
  PROVE  NInv'
  <1> USE DEF NInv
  <1>1. Used' /\ NonceIsSpentOnce'
        BY DEF Used, NonceIsSpentOnce
  <1>2. Held'
        BY DEF Held
  <1>3. Shared'
        BY DEF Shared
  <1>4. Late'
        BY DEF Late
  <1> QED
      BY <1>1, <1>2, <1>3, <1>4

LEMMA NoncesKept == NInv /\ [CredentialsNext]_credentialsVars => NInv'
  <1> SUFFICES ASSUME NInv, [CredentialsNext]_credentialsVars PROVE NInv'
      OBVIOUS
  <1> USE DEF NInv
  <1>0. CredTyped'
        BY CredTypesKept
  <1>1. ASSUME NEW n \in Nonces, Connect(n) \/ NonceExpires(n) \/ Consent(n) PROVE NInv'
        BY <1>0, <1>1, SessionsKept DEF Connect, NonceExpires, Consent
  <1>2. ASSUME NEW r \in Refreshers,
               TokenIsRead(r) \/ EbayRefreshes(r) \/ RefreshFails(r) \/ TokenIsSaved(r)
        PROVE  NInv'
        BY <1>0, <1>2, SessionsKept
        DEF TokenIsRead, EbayRefreshes, RefreshFails, TokenIsSaved, oauth
  <1>3. CASE Expires \/ UNCHANGED credentialsVars
        BY <1>0, <1>3, SessionsKept DEF Expires, credentialsVars, oauth
  <1>4. ASSUME NEW c \in Callbacks, CallbackDeletes(c) \/ Exchanges(c) \/ CallbackFails(c)
        PROVE  NInv'
        <2>1. UNCHANGED <<nonces, issued, overlapped, spent>>
              BY <1>4 DEF CallbackDeletes, Exchanges, CallbackFails, oauth
        <2>2. \A d \in Callbacks \ {c} : callback'[d] = callback[d]
              BY <1>4 DEF CallbackDeletes, Exchanges, CallbackFails, CredTyped, CredentialsTypeOK
        <2>3. ASSUME Active(c)' PROVE Active(c) /\ NonceOf(c)' = NonceOf(c)
              <3> USE DEF CredTyped, CredentialsTypeOK, Active, NonceOf, NoCallback
              <3>1. CASE CallbackDeletes(c)
                    <4>1. callback[c] \in [pc : {"delete", "exchange"}, code : Code]
                          BY <3>1 DEF CallbackDeletes, CallbackState
                    <4>2. callback'[c] = [callback[c] EXCEPT !.pc = "exchange"]
                          BY <3>1 DEF CallbackDeletes
                    <4> QED
                        BY <3>1, <4>1, <4>2 DEF CallbackDeletes
              <3>2. CASE Exchanges(c)
                    BY <3>2 DEF Exchanges
              <3>3. CASE CallbackFails(c)
                    BY <2>3, <3>3 DEF CallbackFails
              <3> QED
                  BY <1>4, <3>1, <3>2, <3>3
        <2>4. \A d \in Callbacks : Active(d)' => Active(d) /\ NonceOf(d)' = NonceOf(d)
              BY <2>2, <2>3 DEF Active, NonceOf
        <2> QED
            BY <1>0, <2>1, <2>4, CallbackContinues
  <1>5. ASSUME NEW c \in Callbacks, NEW code \in codes, CallbackReads(c, code) PROVE NInv'
        <2>1. code.nonce \in Nonces /\ code.nonce \in issued
              BY DEF CredTyped, CredentialsTypeOK, Code, CodesCounted
        <2>2. code.nonce \in nonces /\ spent[code.nonce] = 0
              BY <1>5, <2>1 DEF CallbackReads, Used, CredTyped, CredentialsTypeOK
        <2>3. Active(c)' /\ NonceOf(c)' = code.nonce /\ ~Active(c)
              BY <1>5 DEF CallbackReads, Active, NonceOf, CredTyped, CredentialsTypeOK
        <2>4. \A d \in Callbacks \ {c} : Active(d)' = Active(d) /\ NonceOf(d)' = NonceOf(d)
              BY <1>5 DEF CallbackReads, Active, NonceOf, CredTyped, CredentialsTypeOK
        <2>5. overlapped \subseteq overlapped'
              /\ \A d \in Callbacks :
                   Active(d) /\ NonceOf(d) = code.nonce => code.nonce \in overlapped'
              BY <1>5 DEF CallbackReads, Active, NonceOf
        <2>6. UNCHANGED <<nonces, issued, spent>>
              BY <1>5 DEF CallbackReads, oauth
        <2>7. Used' /\ NonceIsSpentOnce'
              BY <2>5, <2>6 DEF Used, NonceIsSpentOnce
        <2>8. Held'
              BY <2>1, <2>3, <2>4, <2>6 DEF Held
        <2>9. Shared'
              BY <2>3, <2>4, <2>5 DEF Shared
        <2>10. Late'
              BY <2>2, <2>3, <2>4, <2>5, <2>6 DEF Late
        <2> QED
            BY <1>0, <2>7, <2>8, <2>9, <2>10
  <1>6. ASSUME NEW c \in Callbacks, CallbackCommits(c) PROVE NInv'
        <2> DEFINE n == NonceOf(c)
        <2>1. Active(c) /\ n \in Nonces /\ n \in issued
              BY <1>6, CallbackType DEF CallbackCommits, Active, NonceOf, Held, CredTyped
        <2>2. ~Active(c)'
              BY <1>6 DEF CallbackCommits, Active, NoCallback, CredTyped, CredentialsTypeOK
        <2>3. \A d \in Callbacks \ {c} : Active(d)' = Active(d) /\ NonceOf(d)' = NonceOf(d)
              BY <1>6 DEF CallbackCommits, Active, NonceOf, CredTyped, CredentialsTypeOK
        <2>4. UNCHANGED <<issued, overlapped>> /\ nonces' = nonces \ {n}
              BY <1>6 DEF CallbackCommits, Deleted, NonceOf
        <2>5. spent' = [spent EXCEPT ![n] = @ + 1] /\ spent \in [Nonces -> Nat]
              BY <1>6 DEF CallbackCommits, NonceOf, CredTyped, CredentialsTypeOK
        <2> HIDE DEF n
        <2>6. \A m \in Nonces \ {n} : spent'[m] = spent[m]
              BY <2>5
        <2>7. spent'[n] = spent[n] + 1 /\ spent[n] \in Nat
              BY <2>1, <2>5
        <2>8. Used'
              BY <2>1, <2>4, <2>6 DEF Used
        <2>9. Held' /\ Shared'
              BY <2>2, <2>3, <2>4 DEF Held, Shared
        <2>10. ASSUME NEW d \in Callbacks, Active(d)', spent'[NonceOf(d)'] > 0
               PROVE  NonceOf(d)' \in overlapped'
              <3>1. d # c /\ Active(d) /\ NonceOf(d)' = NonceOf(d)
                    BY <2>2, <2>3, <2>10
              <3>2. NonceOf(d) \in Nonces
                    BY <3>1, CallbackType DEF Active, NonceOf, CredTyped
              <3>3. CASE NonceOf(d) = n
                    BY <2>1, <2>4, <3>1, <3>3 DEF Shared, n
              <3>4. CASE NonceOf(d) # n
                    BY <2>4, <2>6, <2>10, <3>1, <3>2, <3>4 DEF Late
              <3> QED
                  BY <3>3, <3>4
        <2>11. Late'
              BY <2>10 DEF Late
        <2>12. NonceIsSpentOnce'
              <3>1. ASSUME spent'[n] > 1 PROVE n \in overlapped'
                    BY <2>1, <2>4, <2>7, <3>1 DEF Late, n
              <3> QED
                  BY <2>4, <2>6, <3>1 DEF NonceIsSpentOnce
        <2> QED
            BY <1>0, <2>8, <2>9, <2>11, <2>12
  <1> QED
      BY <1>1, <1>2, <1>3, <1>4, <1>5, <1>6 DEF CredentialsNext

(* A state nonce stores tokens a second time only for a callback that read *)
(* it before the first one committed.                                      *)
THEOREM NonceSpentOnce == CredentialsSpec => []NonceIsSpentOnce
  <1>1. NInv => NonceIsSpentOnce
        BY DEF NInv
  <1> QED
      BY <1>1, InitialNonces, NoncesKept, PTL DEF CredentialsSpec

-----------------------------------------------------------------------------
(* The last event is the state of its subscription, and as long as one    *)
(* subscription runs at a time no other runs than that one                 *)
LastEvent ==
  \E e \in sent :
    /\ e.n = Cardinality(sent) /\ e.status = subscription[e.id].status
    /\ ~doubled => \A s \in Subscriptions \ {e.id} : ~Runs(s)

(* What Stripe has sent: events counted from 1, one of which is of an end  *)
(* just when it says so                                                    *)
Numbered ==
  /\ IsFiniteSet(sent)
  /\ \A e \in sent : e.n \in 1..Cardinality(sent)
  /\ \A e, f \in sent : e.n = f.n => e = f
  /\ \A e \in sent : e.type = "deleted" <=> e.status = "canceled"
  /\ sent = {} => \A s \in Subscriptions : ~Runs(s)
  /\ sent # {} => LastEvent

(* A webhook call holds an event that was sent *)
Genuine == \A h \in Webhooks : webhook[h].pc = "save" => webhook[h].event \in sent

BillTyped == BillingTypeOK /\ Numbered /\ Genuine

LEMMA CheckoutType ==
  ASSUME BillingTypeOK, NEW c \in Checkouts, checkout[c].pc # "idle"
  PROVE  checkout[c].pc \in {"made", "pay"} /\ checkout[c].customer \in Nat
         /\ [checkout[c] EXCEPT !.pc = "pay"] = [pc |-> "pay", customer |-> checkout[c].customer]
  BY DEF BillingTypeOK, CheckoutState, NoRequest

LEMMA WebhookType ==
  ASSUME BillingTypeOK, NEW h \in Webhooks, webhook[h].pc # "idle"
  PROVE  webhook[h].pc = "save" /\ webhook[h].event \in Event /\ webhook[h].loaded \in Account
  BY DEF BillingTypeOK, WebhookState, NoRequest

(* What the handler makes of a row it has loaded *)
LEMMA AppliedType ==
  ASSUME NEW e \in Event, NEW loaded \in Account
  PROVE  /\ Applied(e, loaded) \in Account
         /\ Applied(e, loaded).customer = loaded.customer
         /\ Applied(e, loaded).status = StatusOf(e)
  <1>1. StatusOf(e) \in Statuses
        BY DEF StatusOf, Event, StripeStatuses, Statuses
  <1> HIDE DEF StatusOf
  <1> QED
      BY <1>1 DEF Applied, Account

LEMMA FlushedType ==
  ASSUME BillingTypeOK, NEW loaded \in Account, NEW new \in Account
  PROVE  FlushAccount(loaded, new) \in Account
  BY DEF BillingTypeOK, FlushAccount, Column, Account

LEMMA InitialBillTypes == BillingInit => BillTyped
  <1> SUFFICES ASSUME BillingInit PROVE BillTyped
      OBVIOUS
  <1>1. IsFiniteSet({})
        BY FS_EmptySet
  <1>2. account \in Account
        BY DEF BillingInit, Account, Statuses, NoCustomer
  <1>3. Genuine
        BY DEF BillingInit, Genuine, NoRequest
  <1>4. subscription \in [Subscriptions -> Subscription] /\ \A s \in Subscriptions : ~Runs(s)
        BY DEF BillingInit, Subscription, Runs, NoCustomer
  <1> QED
      BY <1>1, <1>2, <1>3, <1>4 DEF BillingInit, BillTyped, Numbered, BillingTypeOK, CheckoutState,
                                    WebhookState, NoCustomer

(* Stripe sends one more event, of a subscription that is the only one to  *)
(* run unless two have run at a time                                       *)
LEMMA EventSent ==
  ASSUME BillTyped, NEW s \in Subscriptions, NEW type \in {"created", "updated", "deleted"},
         NEW status \in StripeStatuses, NEW customer \in Nat,
         type = "deleted" <=> status = "canceled",
         Sends(s, type, status, customer),
         ~doubled' => ~doubled /\ \A r \in Subscriptions \ {s} : ~Runs(r)
  PROVE  /\ Numbered'
         /\ sent \subseteq sent' /\ sent' \in SUBSET Event /\ pending' \subseteq sent'
         /\ subscription' \in [Subscriptions -> Subscription]
         /\ subscription' = [subscription EXCEPT ![s] = [customer |-> customer,
                                                        status |-> status]]
         /\ Cardinality(sent') = Cardinality(sent) + 1
         /\ \E e \in sent' : /\ e.n = Cardinality(sent) + 1 /\ e.customer = customer
                             /\ sent' = sent \cup {e} /\ pending' = pending \cup {e}
  <1> DEFINE size == Cardinality(sent)
             e == [n |-> size + 1, id |-> s, type |-> type, status |-> status,
                   customer |-> customer]
  <1> USE DEF BillTyped
  <1>1. sent' = sent \cup {e} /\ pending' = pending \cup {e}
        /\ subscription' = [subscription EXCEPT ![s] = [customer |-> customer,
                                                       status |-> status]]
        BY DEF Sends
  <1>2. IsFiniteSet(sent) /\ size \in Nat
        BY FS_CardinalityType DEF Numbered
  <1>3. e \notin sent
        BY <1>2 DEF Numbered
  <1>4. IsFiniteSet(sent') /\ Cardinality(sent') = size + 1
        BY <1>1, <1>2, <1>3, FS_AddElement
  <1>5. e \in Event
        BY <1>2 DEF Event
  <1>6. \A f \in sent : f.n \in 1..size
        BY DEF Numbered
  <1>7. e.n = size + 1 /\ e.id = s /\ e.status = status /\ e.type = type
        /\ e.customer = customer
        OBVIOUS
  <1> HIDE DEF e, size
  <1>8. \A f \in sent' : f.n \in 1..(size + 1)
        BY <1>1, <1>2, <1>6, <1>7
  <1>9. \A f, g \in sent' : f.n = g.n => f = g
        BY <1>1, <1>2, <1>6, <1>7 DEF Numbered
  <1>11. \A f \in sent' : f.type = "deleted" <=> f.status = "canceled"
        BY <1>1, <1>7 DEF Numbered
  <1>12. subscription \in [Subscriptions -> Subscription]
        BY DEF BillingTypeOK
  <1>13. subscription' \in [Subscriptions -> Subscription]
        /\ subscription'[s].status = status
        /\ \A r \in Subscriptions \ {s} : subscription'[r] = subscription[r]
        BY <1>1, <1>12 DEF Subscription
  <1>14. ~doubled' => \A r \in Subscriptions \ {s} : ~Runs(r)'
        BY <1>13 DEF Runs
  <1>15. e \in sent' /\ LastEvent'
        BY <1>1, <1>4, <1>7, <1>13, <1>14 DEF LastEvent
  <1>16. Numbered'
        BY <1>4, <1>8, <1>9, <1>11, <1>15 DEF Numbered
  <1> QED
      BY <1>1, <1>4, <1>5, <1>7, <1>13, <1>15, <1>16 DEF BillingTypeOK, size

(* The steps of the seller and Stripe                                      *)
Subscribing ==
  (\E c \in Checkouts, s \in Subscriptions : Subscribes(c, s))
  \/ (\E s \in Subscriptions : Changes(s)) \/ (\E s \in Subscriptions : Cancels(s))

(* As long as none ran beside another, one runs alone                      *)
LEMMA OnlyOneRuns ==
  ASSUME BillTyped, ~doubled, NEW s \in Subscriptions, Runs(s)
  PROVE  \A r \in Subscriptions \ {s} : ~Runs(r)
  <1>1. LastEvent
        BY DEF BillTyped, Numbered
  <1> QED
      BY <1>1 DEF LastEvent

LEMMA CheckoutTypes ==
  ASSUME BillTyped, NEW c \in Checkouts,
         CheckoutMakes(c) \/ CheckoutCommits(c) \/ CheckoutReuses(c) \/ CheckoutEnds(c)
  PROVE  BillTyped'
  <1> USE DEF BillTyped
  <1>1. UNCHANGED <<webhook, sent, pending, subscription, newest, disordered, parallel, doubled>>
        BY DEF CheckoutMakes, CheckoutCommits, CheckoutReuses, CheckoutEnds, stripe, billingPast
  <1>2. Numbered' /\ Genuine'
        BY <1>1 DEF Numbered, LastEvent, Runs, Genuine
  <1>3. BillingTypeOK'
        <2> USE DEF BillingTypeOK
        <2>1. CASE CheckoutMakes(c)
              <3>1. [pc |-> "made", customer |-> customers + 1] \in CheckoutState
                    BY DEF CheckoutState
              <3> QED
                  BY <1>1, <2>1, <3>1 DEF CheckoutMakes
        <2>2. CASE CheckoutCommits(c)
              <3>1. [pc |-> "pay", customer |-> checkout[c].customer] \in CheckoutState
                    BY <2>2, CheckoutType DEF CheckoutCommits, CheckoutState
              <3>2. checkout' \in [Checkouts -> CheckoutState]
                    BY <2>2, <3>1, CheckoutType DEF CheckoutCommits
              <3>3. account' \in Account
                    BY <2>2, CheckoutType DEF CheckoutCommits, WithCustomer, Account
              <3> QED
                  BY <1>1, <2>2, <3>2, <3>3 DEF CheckoutCommits, stripe, billingPast
        <2>3. CASE CheckoutReuses(c)
              <3>1. [pc |-> "pay", customer |-> account.customer] \in CheckoutState
                    BY DEF CheckoutState, Account
              <3> QED
                  BY <1>1, <2>3, <3>1 DEF CheckoutReuses, stripe, billingPast
        <2>4. CASE CheckoutEnds(c)
              BY <1>1, <2>4 DEF CheckoutEnds, CheckoutState, stripe, billingPast
        <2> QED
            BY <2>1, <2>2, <2>3, <2>4
  <1> QED
      BY <1>2, <1>3

LEMMA SomeEventSent ==
  ASSUME BillTyped, Subscribing
  PROVE  \E s \in Subscriptions, type \in {"created", "updated", "deleted"},
            status \in StripeStatuses, customer \in Nat :
           /\ type = "deleted" <=> status = "canceled"
           /\ Sends(s, type, status, customer)
           /\ ~doubled' => ~doubled /\ \A r \in Subscriptions \ {s} : ~Runs(r)
  <1>1. ASSUME NEW c \in Checkouts, NEW s \in Subscriptions, Subscribes(c, s)
        PROVE  /\ checkout[c].customer \in Nat
               /\ \E status \in {"trialing", "active"} :
                    Sends(s, "created", status, checkout[c].customer)
               /\ ~doubled' => ~doubled /\ \A r \in Subscriptions : ~Runs(r)
        <2>1. checkout[c].customer \in Nat
              BY <1>1, CheckoutType DEF Subscribes, BillTyped
        <2>2. doubled' = (doubled \/ \E r \in Subscriptions : Runs(r))
              BY <1>1 DEF Subscribes
        <2>3. ~doubled' => ~doubled /\ \A r \in Subscriptions : ~Runs(r)
              BY <2>2, Zenon
        <2> QED
            BY <1>1, <2>1, <2>3 DEF Subscribes
  <1>2. ASSUME NEW s \in Subscriptions, Changes(s) \/ Cancels(s)
        PROVE  /\ subscription[s].customer \in Nat
               /\ \/ \E status \in {"active", "past_due", "unpaid"} :
                       Sends(s, "updated", status, subscription[s].customer)
                  \/ Sends(s, "deleted", "canceled", subscription[s].customer)
               /\ ~doubled' => ~doubled /\ \A r \in Subscriptions \ {s} : ~Runs(r)
        <2>1. subscription[s].customer \in Nat
              BY DEF BillTyped, BillingTypeOK, Subscription
        <2>2. Runs(s) /\ doubled' = doubled
              BY <1>2 DEF Changes, Cancels, billingPast
        <2>3. ~doubled' => ~doubled /\ \A r \in Subscriptions \ {s} : ~Runs(r)
              <3> SUFFICES ASSUME ~doubled' PROVE ~doubled /\ \A r \in Subscriptions \ {s} : ~Runs(r)
                  OBVIOUS
              <3>1. ~doubled
                    BY <2>2
              <3> QED
                  BY <2>2, <3>1, OnlyOneRuns
        <2>4. \/ \E status \in {"active", "past_due", "unpaid"} :
                   Sends(s, "updated", status, subscription[s].customer)
              \/ Sends(s, "deleted", "canceled", subscription[s].customer)
              BY <1>2 DEF Changes, Cancels
        <2> QED
            BY <2>1, <2>3, <2>4
  <1>3. {"trialing", "active", "past_due", "unpaid", "canceled"} \subseteq StripeStatuses
        BY DEF StripeStatuses, Statuses
  <1> QED
      BY <1>1, <1>2, <1>3 DEF Subscribing

LEMMA SentOne ==
  ASSUME BillTyped, Subscribing
  PROVE  /\ Cardinality(sent') = Cardinality(sent) + 1
         /\ \E e \in sent' : /\ e.n = Cardinality(sent) + 1
                             /\ sent' = sent \cup {e} /\ pending' = pending \cup {e}
  BY SomeEventSent, EventSent

LEMMA SubscriptionTypes ==
  ASSUME BillTyped, Subscribing
  PROVE  BillTyped'
  <1> USE DEF BillTyped
  <1>1. PICK s \in Subscriptions, type \in {"created", "updated", "deleted"},
             status \in StripeStatuses, customer \in Nat :
          /\ type = "deleted" <=> status = "canceled"
          /\ Sends(s, type, status, customer)
          /\ ~doubled' => ~doubled /\ \A r \in Subscriptions \ {s} : ~Runs(r)
        BY SomeEventSent
  <1>2. /\ Numbered'
        /\ sent \subseteq sent' /\ sent' \in SUBSET Event /\ pending' \subseteq sent'
        /\ subscription' \in [Subscriptions -> Subscription]
        BY <1>1, EventSent
  <1>3. UNCHANGED <<account, customers, webhook, newest, disordered, parallel, rivalry>>
        BY DEF Subscribing, Subscribes, Changes, Cancels, billingPast
  <1>4. doubled' \in BOOLEAN
        BY DEF Subscribing, Subscribes, Changes, Cancels, billingPast, BillingTypeOK
  <1>5. checkout' \in [Checkouts -> CheckoutState]
        BY DEF Subscribing, Subscribes, Changes, Cancels, BillingTypeOK, CheckoutState
  <1>6. Genuine'
        BY <1>2, <1>3 DEF Genuine
  <1> QED
      BY <1>2, <1>3, <1>4, <1>5, <1>6 DEF BillingTypeOK

LEMMA WebhookTypes ==
  ASSUME BillTyped, NEW h \in Webhooks,
         (\E e \in sent : WebhookReadsSeller(h, e)) \/ WebhookCommits(h) \/ WebhookFails(h)
  PROVE  BillTyped'
  <1> USE DEF BillTyped
  <1>1. UNCHANGED <<customers, subscription, sent, checkout, rivalry, doubled>>
        /\ pending' \subseteq pending
        BY DEF WebhookReadsSeller, WebhookCommits, WebhookFails, stripe, billingPast
  <1>2. Numbered'
        BY <1>1 DEF Numbered, LastEvent, Runs
  <1>3. ASSUME NEW e \in sent, WebhookReadsSeller(h, e) PROVE BillTyped'
        <2>1. [pc |-> "save", event |-> e, loaded |-> account] \in WebhookState
              BY DEF BillingTypeOK, WebhookState
        <2>2. webhook' \in [Webhooks -> WebhookState] /\ parallel' \in BOOLEAN
              BY <1>3, <2>1 DEF WebhookReadsSeller, BillingTypeOK
        <2>3. Genuine'
              BY <1>1, <1>3 DEF WebhookReadsSeller, Genuine, BillingTypeOK
        <2> QED
            BY <1>1, <1>2, <1>3, <2>2, <2>3 DEF WebhookReadsSeller, BillingTypeOK, stripe
  <1>4. CASE WebhookCommits(h)
        <2>1. webhook[h].event \in Event /\ webhook[h].loaded \in Account
              BY <1>4, WebhookType DEF WebhookCommits
        <2>2. account' \in Account
              BY <1>4, <2>1, AppliedType, FlushedType DEF WebhookCommits
        <2>3. newest' \in Nat /\ disordered' \in BOOLEAN
              BY <1>4, <2>1 DEF WebhookCommits, BillingTypeOK, Event
        <2>4. webhook' \in [Webhooks -> WebhookState] /\ Genuine'
              BY <1>1, <1>4 DEF WebhookCommits, BillingTypeOK, WebhookState, Genuine, NoRequest
        <2> QED
            BY <1>1, <1>2, <1>4, <2>2, <2>3, <2>4 DEF WebhookCommits, BillingTypeOK
  <1>5. CASE WebhookFails(h)
        BY <1>1, <1>2, <1>5
        DEF WebhookFails, BillingTypeOK, WebhookState, Genuine, NoRequest, stripe, billingPast
  <1> QED
      BY <1>3, <1>4, <1>5

LEMMA BillTypesKept == BillTyped /\ [BillingNext]_billingVars => BillTyped'
  <1> SUFFICES ASSUME BillTyped, [BillingNext]_billingVars PROVE BillTyped'
      OBVIOUS
  <1>1. ASSUME NEW e \in pending, WebhookIgnores(e) PROVE BillTyped'
        BY <1>1 DEF BillTyped, BillingTypeOK, Numbered, LastEvent, Runs, Genuine, WebhookIgnores,
                    billingPast
  <1>2. CASE UNCHANGED billingVars
        BY <1>2 DEF BillTyped, BillingTypeOK, Numbered, LastEvent, Runs, Genuine, billingVars,
                    stripe, billingPast
  <1> QED
      BY <1>1, <1>2, CheckoutTypes, SubscriptionTypes, WebhookTypes
      DEF BillingNext, Subscribing

(* Type correctness. *)
THEOREM BillingTypes == BillingSpec => []BillingTypeOK
  <1>1. BillTyped => BillingTypeOK
        BY DEF BillTyped
  <1> QED
      BY <1>1, InitialBillTypes, BillTypesKept, PTL DEF BillingSpec

-----------------------------------------------------------------------------
(* The handler's copy of a row agrees with it, as long as one runs at a    *)
(* time, but for the customer, which a checkout may set meanwhile.         *)
Saving(h) == webhook[h].pc = "save"

Copied ==
  ~parallel =>
    /\ \A g, h \in Webhooks : Saving(g) /\ Saving(h) => g = h
    /\ \A h \in Webhooks : Saving(h) =>
         /\ webhook[h].loaded.status = account.status
         /\ webhook[h].loaded.plan = account.plan
         /\ webhook[h].loaded.period = account.period

CInv == BillTyped /\ Copied

LEMMA CheckoutTouches ==
  ASSUME BillTyped, NEW c \in Checkouts,
         CheckoutMakes(c) \/ CheckoutCommits(c) \/ CheckoutReuses(c) \/ CheckoutEnds(c)
  PROVE  /\ UNCHANGED <<subscription, sent, pending, webhook, newest, disordered, parallel>>
         /\ account'.status = account.status /\ account'.plan = account.plan
         /\ account'.period = account.period
  BY DEF CheckoutMakes, CheckoutCommits, CheckoutReuses, CheckoutEnds, stripe, billingPast,
         WithCustomer, BillTyped, BillingTypeOK, Account

LEMMA SubscriptionTouches ==
  ASSUME Subscribing
  PROVE  UNCHANGED <<account, customers, webhook, newest, disordered, parallel, rivalry>>
  BY DEF Subscribing, Subscribes, Changes, Cancels, billingPast

(* The commit of a webhook call that runs alone writes what it has made of *)
(* the row                                                                 *)
LEMMA AloneWrites ==
  ASSUME CInv, ~parallel, NEW h \in Webhooks, WebhookCommits(h)
  PROVE  LET new == Applied(webhook[h].event, account)
         IN  /\ account'.status = new.status /\ account'.plan = new.plan
             /\ account'.period = new.period
  <1> DEFINE e == webhook[h].event
             loaded == webhook[h].loaded
  <1>1. Saving(h) /\ e \in Event /\ loaded \in Account
        BY WebhookType DEF WebhookCommits, Saving, CInv, BillTyped
  <1>2. loaded.status = account.status /\ loaded.plan = account.plan
        /\ loaded.period = account.period
        BY <1>1 DEF CInv, Copied
  <1>3. account' = FlushAccount(loaded, Applied(e, loaded))
        BY DEF WebhookCommits
  <1>4. account \in Account
        BY DEF CInv, BillTyped, BillingTypeOK
  <1> HIDE DEF e, loaded
  <1>5. /\ Applied(e, loaded).status = Applied(e, account).status
        /\ Applied(e, loaded).plan = Applied(e, account).plan
        /\ Applied(e, loaded).period = Applied(e, account).period
        BY <1>1, <1>2, <1>4 DEF Applied, Account
  <1>6. /\ account'.status = Applied(e, loaded).status
        /\ account'.plan = Applied(e, loaded).plan
        /\ account'.period = Applied(e, loaded).period
        BY <1>2, <1>3 DEF FlushAccount, Column
  <1> QED
      BY <1>5, <1>6 DEF e

LEMMA InitialCopies == BillingInit => CInv
  <1> SUFFICES ASSUME BillingInit PROVE CInv
      OBVIOUS
  <1>1. \A h \in Webhooks : ~Saving(h)
        BY DEF BillingInit, Saving, NoRequest
  <1> QED
      BY <1>1, InitialBillTypes DEF CInv, Copied

LEMMA CopiesKept == CInv /\ [BillingNext]_billingVars => CInv'
  <1> SUFFICES ASSUME CInv, [BillingNext]_billingVars PROVE CInv'
      OBVIOUS
  <1> USE DEF CInv
  <1>0. BillTyped'
        BY BillTypesKept
  <1>1. CASE /\ UNCHANGED <<webhook, parallel>>
             /\ account'.status = account.status /\ account'.plan = account.plan
             /\ account'.period = account.period
        BY <1>0, <1>1 DEF Copied, Saving
  <1>2. ASSUME NEW h \in Webhooks, NEW e \in sent, WebhookReadsSeller(h, e) PROVE CInv'
        <2>1. CASE parallel'
              BY <1>0, <2>1 DEF Copied
        <2>2. CASE ~parallel'
              <3>1. \A g \in Webhooks : ~Saving(g)
                    BY <1>2, <2>2 DEF WebhookReadsSeller, Saving
              <3>2. \A g \in Webhooks : Saving(g)' => g = h
                    BY <1>2, <3>1 DEF WebhookReadsSeller, Saving, BillTyped, BillingTypeOK
              <3>3. webhook'[h].loaded = account /\ account' = account
                    BY <1>2 DEF WebhookReadsSeller, BillTyped, BillingTypeOK
              <3> QED
                  BY <1>0, <3>2, <3>3 DEF Copied
        <2> QED
            BY <2>1, <2>2
  <1>3. ASSUME NEW h \in Webhooks, WebhookCommits(h) \/ WebhookFails(h) PROVE CInv'
        <2>1. Saving(h) /\ ~Saving(h)' /\ parallel' = parallel
              BY <1>3 DEF WebhookCommits, WebhookFails, Saving, BillTyped, BillingTypeOK, NoRequest,
                          billingPast
        <2>2. \A g \in Webhooks \ {h} : webhook'[g] = webhook[g]
              BY <1>3 DEF WebhookCommits, WebhookFails, BillTyped, BillingTypeOK
        <2>3. ~parallel => \A g \in Webhooks : ~Saving(g)'
              BY <2>1, <2>2 DEF Copied, Saving
        <2> QED
            BY <1>0, <2>1, <2>3 DEF Copied
  <1>4. ASSUME NEW e \in pending, WebhookIgnores(e)
        PROVE  UNCHANGED <<account, webhook, parallel>>
        BY <1>4 DEF WebhookIgnores, billingPast
  <1> QED
      BY <1>1, <1>2, <1>3, <1>4, CheckoutTouches, SubscriptionTouches
      DEF BillingNext, Subscribing, billingVars, billingPast

-----------------------------------------------------------------------------
LEMMA InitialPlan == BillingInit => ActiveIsPro
  BY DEF BillingInit, ActiveIsPro

LEMMA ProKept == CInv /\ ActiveIsPro /\ [BillingNext]_billingVars => ActiveIsPro'
  <1> SUFFICES ASSUME CInv, ActiveIsPro, [BillingNext]_billingVars PROVE ActiveIsPro'
      OBVIOUS
  <1>1. CASE /\ parallel => parallel'
             /\ account'.status = account.status /\ account'.plan = account.plan
        BY <1>1 DEF ActiveIsPro
  <1>2. ASSUME NEW h \in Webhooks, WebhookCommits(h) PROVE ActiveIsPro'
        <2>1. parallel' = parallel
              BY <1>2 DEF WebhookCommits
        <2> DEFINE e == webhook[h].event
        <2>2. e \in Event /\ account \in Account
              BY <1>2, WebhookType DEF WebhookCommits, CInv, BillTyped, BillingTypeOK
        <2>3. ~parallel => account'.status = Applied(e, account).status
                           /\ account'.plan = Applied(e, account).plan
              BY <1>2, AloneWrites
        <2> HIDE DEF e
        <2>4. Applied(e, account).status = StatusOf(e)
              BY <2>2, AppliedType
        <2>5. StatusOf(e) \in {"active", "trialing"} => Applied(e, account).plan = "pro"
              BY <2>2 DEF Applied, Account
        <2> QED
            BY <2>1, <2>3, <2>4, <2>5 DEF ActiveIsPro
  <1>3. ASSUME NEW h \in Webhooks,
               (\E e \in sent : WebhookReadsSeller(h, e)) \/ WebhookFails(h)
        PROVE  account' = account /\ (parallel => parallel')
        <2>1. CASE \E e \in sent : WebhookReadsSeller(h, e)
              BY <2>1, Zenon DEF WebhookReadsSeller
        <2>2. CASE WebhookFails(h)
              BY <2>2 DEF WebhookFails, billingPast
        <2> QED
            BY <1>3, <2>1, <2>2
  <1>4. ASSUME NEW e \in pending, WebhookIgnores(e) PROVE UNCHANGED <<account, parallel>>
        BY <1>4 DEF WebhookIgnores, billingPast
  <1> QED
      BY <1>1, <1>2, <1>3, <1>4, CheckoutTouches, SubscriptionTouches
      DEF BillingNext, Subscribing, billingVars, billingPast, CInv

(* A seller whose subscription runs, as far as the row knows, has the plan *)
(* they pay for, in whatever order events come and however often, as long  *)
(* as no two handlers run at a time.                                       *)
THEOREM PaidIsPro == BillingSpec => []ActiveIsPro
  BY InitialCopies, CopiesKept, InitialPlan, ProKept, PTL DEF BillingSpec

-----------------------------------------------------------------------------
(* Without rivals there is one customer: the checkouts in progress, the    *)
(* row, the subscriptions and all events are of that one.                  *)
OneCustomer ==
  ~rivalry =>
    /\ \A c \in Checkouts : checkout[c].pc # "idle" =>
         checkout[c].customer = customers /\ customers # NoCustomer
    /\ \A c \in Checkouts : checkout[c].pc = "pay" => account.customer = checkout[c].customer
    /\ account.customer \in {NoCustomer, customers}
    /\ \A e \in sent : e.customer = account.customer /\ e.customer # NoCustomer
    /\ \A s \in Subscriptions :
         subscription[s].status # "none" => subscription[s].customer # NoCustomer

KInv == BillTyped /\ OneCustomer /\ PayerIsKnown

LEMMA InitialCustomers == BillingInit => KInv
  <1> SUFFICES ASSUME BillingInit PROVE KInv
      OBVIOUS
  <1>1. \A c \in Checkouts : checkout[c].pc = "idle"
        BY DEF BillingInit, NoRequest
  <1> QED
      BY <1>1, InitialBillTypes DEF BillingInit, KInv, OneCustomer, PayerIsKnown

LEMMA CheckoutKeepsCustomer ==
  ASSUME KInv, BillTyped', NEW c \in Checkouts,
         CheckoutMakes(c) \/ CheckoutCommits(c) \/ CheckoutReuses(c) \/ CheckoutEnds(c)
  PROVE  KInv'
  <1> USE DEF KInv
  <1>0. UNCHANGED <<sent, subscription>>
        BY CheckoutTouches
  <1>1. checkout \in [Checkouts -> CheckoutState] /\ customers \in Nat
        BY DEF BillTyped, BillingTypeOK
  <1>2. CASE CheckoutMakes(c)
        <2>1. CASE rivalry'
              BY <2>1 DEF OneCustomer, PayerIsKnown
        <2>2. CASE ~rivalry'
              <3>0. ~rivalry /\ ~(customers > 0)
                    BY <1>2, <2>2, Zenon DEF CheckoutMakes
              <3>1. ~rivalry /\ customers = 0 /\ customers' = 1 /\ account' = account
                    /\ account.customer = NoCustomer
                    BY <1>1, <1>2, <3>0 DEF CheckoutMakes
              <3>2. \A d \in Checkouts : checkout[d].pc = "idle"
                    BY <3>1 DEF OneCustomer, NoCustomer
              <3>3. sent = {} /\ \A s \in Subscriptions : subscription[s].status = "none"
                    BY <3>1 DEF OneCustomer, PayerIsKnown
              <3>4. \A d \in Checkouts : checkout'[d] =
                      IF d = c THEN [pc |-> "made", customer |-> 1] ELSE checkout[d]
                    BY <1>1, <1>2, <3>1 DEF CheckoutMakes
              <3> QED
                  BY <1>0, <3>1, <3>2, <3>3, <3>4 DEF OneCustomer, PayerIsKnown, NoCustomer
        <2> QED
            BY <2>1, <2>2
  <1>3. CASE CheckoutCommits(c)
        <2>1. checkout[c].pc # "idle" /\ customers' = customers /\ rivalry' = rivalry
              /\ account'.customer = checkout[c].customer
              BY <1>3 DEF CheckoutCommits, stripe, billingPast, WithCustomer, BillTyped, BillingTypeOK,
                          Account
        <2>2. checkout'[c] = [pc |-> "pay", customer |-> checkout[c].customer]
              /\ \A d \in Checkouts \ {c} : checkout'[d] = checkout[d]
              BY <1>1, <1>3, <2>1, CheckoutType DEF CheckoutCommits, BillTyped
        <2>3. ~rivalry => checkout[c].customer = customers /\ customers # NoCustomer
              BY <2>1 DEF OneCustomer
        <2>4. ~rivalry /\ account.customer = NoCustomer =>
                sent = {} /\ \A s \in Subscriptions : subscription[s].status = "none"
              BY DEF OneCustomer, PayerIsKnown
        <2> QED
            BY <1>0, <2>1, <2>2, <2>3, <2>4 DEF OneCustomer, PayerIsKnown
  <1>4. CASE CheckoutReuses(c) \/ CheckoutEnds(c)
        <2>1. UNCHANGED <<account, customers, rivalry>>
              BY <1>4 DEF CheckoutReuses, CheckoutEnds, stripe, billingPast
        <2>2. /\ \A d \in Checkouts \ {c} : checkout'[d] = checkout[d]
              /\ \/ checkout'[c] = NoRequest
                 \/ /\ account.customer # NoCustomer
                    /\ checkout'[c] = [pc |-> "pay", customer |-> account.customer]
              BY <1>1, <1>4 DEF CheckoutReuses, CheckoutEnds
        <2> QED
            BY <1>0, <2>1, <2>2 DEF OneCustomer, PayerIsKnown, NoRequest
  <1> QED
      BY <1>2, <1>3, <1>4

LEMMA SubscriptionKeepsCustomer ==
  ASSUME KInv, BillTyped', Subscribing
  PROVE  KInv'
  <1> USE DEF KInv
  <1>1. UNCHANGED <<account, customers, rivalry>>
        BY SubscriptionTouches
  <1>2. PICK s, status, customer, e :
          /\ s \in Subscriptions
          /\ sent' = sent \cup {e} /\ e.customer = customer
          /\ subscription' = [subscription EXCEPT ![s] = [customer |-> customer,
                                                         status |-> status]]
          /\ ~rivalry => customer = account.customer /\ customer # NoCustomer
        <2>1. ASSUME NEW s \in Subscriptions, NEW type, NEW status, NEW customer,
                     Sends(s, type, status, customer)
              PROVE  /\ \E e : sent' = sent \cup {e} /\ e.customer = customer
                     /\ subscription' = [subscription EXCEPT ![s] = [customer |-> customer,
                                                                    status |-> status]]
              <3> DEFINE e == [n |-> Cardinality(sent) + 1, id |-> s, type |-> type,
                               status |-> status, customer |-> customer]
              <3>1. sent' = sent \cup {e}
                    /\ subscription' = [subscription EXCEPT ![s] = [customer |-> customer,
                                                                   status |-> status]]
                    BY <2>1 DEF Sends
              <3>2. e.customer = customer
                    OBVIOUS
              <3> HIDE DEF e
              <3> QED
                  BY <3>1, <3>2
        <2> DEFINE Sound(customer) == ~rivalry => customer = account.customer
                                                  /\ customer # NoCustomer
        <2>2. ASSUME NEW c \in Checkouts, NEW s \in Subscriptions, Subscribes(c, s)
              PROVE  \E type, status, customer :
                       Sends(s, type, status, customer) /\ Sound(customer)
              <3>1. Sound(checkout[c].customer)
                    BY <2>2 DEF Subscribes, OneCustomer
              <3>2. \E type, status : Sends(s, type, status, checkout[c].customer)
                    BY <2>2 DEF Subscribes
              <3> QED
                  BY <3>1, <3>2
        <2>3. ASSUME NEW s \in Subscriptions, Changes(s) \/ Cancels(s)
              PROVE  \E type, status, customer :
                       Sends(s, type, status, customer) /\ Sound(customer)
              <3>1. Sound(subscription[s].customer)
                    BY <2>3 DEF Changes, Cancels, Runs, OneCustomer, PayerIsKnown
              <3>2. \E type, status : Sends(s, type, status, subscription[s].customer)
                    BY <2>3 DEF Changes, Cancels
              <3> QED
                  BY <3>1, <3>2
        <2> HIDE DEF Sound
        <2>4. PICK s, type, status, customer :
                s \in Subscriptions /\ Sends(s, type, status, customer) /\ Sound(customer)
              BY <2>2, <2>3 DEF Subscribing
        <2>5. PICK e : sent' = sent \cup {e} /\ e.customer = customer
              BY <2>1, <2>4
        <2>6. subscription' = [subscription EXCEPT ![s] = [customer |-> customer,
                                                         status |-> status]]
              BY <2>1, <2>4
        <2> QED
            BY <2>4, <2>5, <2>6, Zenon DEF Sound
  <1>3. \A c \in Checkouts : checkout'[c] \in {checkout[c], NoRequest}
        BY DEF Subscribing, Subscribes, Changes, Cancels, BillTyped, BillingTypeOK
  <1>4. \A r \in Subscriptions :
          subscription'[r] = IF r = s THEN [customer |-> customer, status |-> status]
                             ELSE subscription[r]
        BY <1>2 DEF BillTyped, BillingTypeOK
  <1> QED
      BY <1>1, <1>2, <1>3, <1>4 DEF OneCustomer, PayerIsKnown, NoRequest

LEMMA CustomersKept == KInv /\ [BillingNext]_billingVars => KInv'
  <1> SUFFICES ASSUME KInv, [BillingNext]_billingVars PROVE KInv'
      OBVIOUS
  <1> USE DEF KInv
  <1>0. BillTyped'
        BY BillTypesKept
  <1>1. CASE UNCHANGED <<customers, subscription, sent, checkout, rivalry>>
             /\ account'.customer = account.customer
        BY <1>0, <1>1 DEF OneCustomer, PayerIsKnown
  <1>2. ASSUME NEW h \in Webhooks, WebhookCommits(h)
        PROVE  account'.customer = account.customer
        <2>1. webhook[h].event \in Event /\ webhook[h].loaded \in Account
              BY <1>2, WebhookType DEF WebhookCommits, BillTyped
        <2> QED
            BY <1>2, <2>1, AppliedType DEF WebhookCommits, FlushAccount, Column
  <1>3. ASSUME NEW h \in Webhooks,
               \/ \E e \in sent : WebhookReadsSeller(h, e)
               \/ WebhookCommits(h) \/ WebhookFails(h)
        PROVE  UNCHANGED <<customers, subscription, sent, checkout, rivalry>>
               /\ account'.customer = account.customer
        BY <1>2, <1>3 DEF WebhookReadsSeller, WebhookCommits, WebhookFails, stripe, billingPast
  <1>4. ASSUME NEW e \in pending, WebhookIgnores(e)
        PROVE  UNCHANGED <<account, customers, subscription, sent, checkout, rivalry>>
        BY <1>4 DEF WebhookIgnores, billingPast
  <1> QED
      BY <1>0, <1>1, <1>3, <1>4, CheckoutKeepsCustomer, SubscriptionKeepsCustomer
      DEF BillingNext, Subscribing, billingVars, stripe, billingPast

(* Who pays is the customer on record, so that the webhook finds the       *)
(* seller, unless two checkouts made a customer each.                      *)
THEOREM PayerKnown == BillingSpec => []PayerIsKnown
  <1>1. KInv => PayerIsKnown
        BY DEF KInv
  <1> QED
      BY <1>1, InitialCustomers, CustomersKept, PTL DEF BillingSpec

-----------------------------------------------------------------------------
(* The row shows what the handler makes of an event *)
Shows(e) ==
  /\ account.status = StatusOf(e)
  /\ StatusOf(e) \in {"active", "trialing"} => account.plan = "pro"
  /\ e.type = "deleted" => account.plan = "free" /\ ~account.period

Orderly == ~disordered /\ ~parallel /\ ~rivalry

(* All that was answered is as old as the newest event handled, which the  *)
(* row shows                                                               *)
UpToDate ==
  Orderly =>
    /\ \A e \in sent \ pending : e.n <= newest
    /\ \A e \in sent : e.n = newest => Shows(e)
    /\ newest <= Cardinality(sent)

SyncInv == CInv /\ KInv /\ UpToDate

LEMMA ShowsApplied ==
  ASSUME NEW e \in Event, NEW new, NEW loaded \in Account,
         e.type = "deleted" => e.status = "canceled",
         new.status = Applied(e, loaded).status, new.plan = Applied(e, loaded).plan,
         new.period = Applied(e, loaded).period
  PROVE  /\ new.status = StatusOf(e)
         /\ StatusOf(e) \in {"active", "trialing"} => new.plan = "pro"
         /\ e.type = "deleted" => new.plan = "free" /\ ~new.period
  <1>1. Applied(e, loaded).status = StatusOf(e)
        BY AppliedType
  <1>2. StatusOf(e) \in {"active", "trialing"} => Applied(e, loaded).plan = "pro"
        BY DEF Applied, Account
  <1>3. e.type = "deleted" => StatusOf(e) \notin {"active", "trialing"}
        BY DEF StatusOf
  <1>4. e.type = "deleted" =>
          Applied(e, loaded).plan = "free" /\ Applied(e, loaded).period = FALSE
        BY <1>3 DEF Applied, Account
  <1> QED
      BY <1>1, <1>2, <1>4

LEMMA InitialSync == BillingInit => SyncInv
  <1> SUFFICES ASSUME BillingInit PROVE SyncInv
      OBVIOUS
  <1>1. sent = {} /\ newest = 0 /\ Cardinality(sent) = 0
        BY FS_EmptySet DEF BillingInit
  <1> QED
      BY <1>1, InitialCopies, InitialCustomers DEF SyncInv, UpToDate

(* What the proof asks of a step that handles no event *)
LEMMA NothingHandled ==
  ASSUME SyncInv, CInv', KInv', UNCHANGED <<sent, pending, newest, disordered>>,
         account'.status = account.status, account'.plan = account.plan,
         account'.period = account.period,
         ~parallel' => ~parallel, ~rivalry' => ~rivalry
  PROVE  SyncInv'
  <1>1. UpToDate'
        BY DEF SyncInv, UpToDate, Orderly, Shows
  <1> QED
      BY <1>1 DEF SyncInv

LEMMA SendingKeepsSync ==
  ASSUME SyncInv, CInv', KInv', Subscribing
  PROVE  SyncInv'
  <1> USE DEF SyncInv, CInv
  <1> DEFINE size == Cardinality(sent)
  <1>1. size \in Nat /\ newest \in Nat
        BY FS_CardinalityType DEF BillTyped, Numbered, BillingTypeOK
  <1>2. Cardinality(sent') = size + 1
        /\ \E e \in sent' : /\ e.n = size + 1
                            /\ sent' = sent \cup {e} /\ pending' = pending \cup {e}
        BY SentOne
  <1>3. PICK e \in sent' : /\ e.n = size + 1
                           /\ sent' = sent \cup {e} /\ pending' = pending \cup {e}
        BY <1>2
  <1>4. UNCHANGED <<account, newest, disordered, parallel, rivalry>>
        BY SubscriptionTouches
  <1> HIDE DEF size
  <1>5. UpToDate'
        <2> SUFFICES ASSUME Orderly' PROVE UpToDate'
            BY DEF UpToDate
        <2>1. Orderly
              BY <1>4 DEF Orderly
        <2>2. newest <= size
              BY <2>1 DEF UpToDate, size
        <2>3. \A f \in sent' \ pending' : f.n <= newest'
              BY <1>3, <1>4, <2>1 DEF UpToDate
        <2>4. \A f \in sent' : f.n = newest' => Shows(f)'
              BY <1>1, <1>3, <1>4, <2>1, <2>2 DEF UpToDate, Shows
        <2> QED
            BY <1>1, <1>2, <1>4, <2>2, <2>3, <2>4 DEF UpToDate
  <1> QED
      BY <1>5

LEMMA HandlingKeepsSync ==
  ASSUME SyncInv, CInv', KInv', NEW h \in Webhooks, WebhookCommits(h)
  PROVE  SyncInv'
  <1> USE DEF SyncInv, CInv
  <1> DEFINE size == Cardinality(sent)
  <1>0. PICK e \in sent : e = webhook[h].event
        BY DEF BillTyped, Genuine, WebhookCommits
  <1>1. e \in sent /\ e \in Event /\ account \in Account /\ newest \in Nat
        /\ sent \subseteq Event
        BY DEF BillTyped, BillingTypeOK
  <1>2. size \in Nat /\ e.n \in 1..size
        BY <1>1, FS_CardinalityType DEF BillTyped, Numbered
  <1>3. UNCHANGED <<sent, parallel, rivalry>> /\ pending' = pending \ {e}
        /\ disordered' = (disordered \/ e.n < newest)
        /\ newest' = (IF e.n > newest THEN e.n ELSE newest)
        BY <1>0 DEF WebhookCommits
  <1>4. UpToDate'
        <2> SUFFICES ASSUME Orderly' PROVE UpToDate'
            BY DEF UpToDate
        <2>1. Orderly /\ ~(e.n < newest)
              BY <1>3, Zenon DEF Orderly
        <2>2. newest' = e.n
              BY <1>1, <1>2, <1>3, <2>1
        <2>3. Shows(e)'
              <3> DEFINE new == account'
              <3>1. /\ new.status = Applied(e, account).status
                    /\ new.plan = Applied(e, account).plan
                    /\ new.period = Applied(e, account).period
                    BY <1>0, <2>1, AloneWrites DEF Orderly
              <3>2. e.type = "deleted" => e.status = "canceled"
                    BY <1>1 DEF BillTyped, Numbered
              <3> HIDE DEF new
              <3>3. /\ new.status = StatusOf(e)
                    /\ StatusOf(e) \in {"active", "trialing"} => new.plan = "pro"
                    /\ e.type = "deleted" => new.plan = "free" /\ ~new.period
                    BY <1>1, <3>1, <3>2, ShowsApplied
              <3> QED
                  BY <3>3 DEF Shows, new
        <2> HIDE DEF size
        <2>4. \A f \in sent' : f.n = newest' => f = e
              BY <1>1, <1>3, <2>2 DEF BillTyped, Numbered
        <2>5. \A f \in sent' \ pending' : f.n <= newest'
              <3> SUFFICES ASSUME NEW f \in sent' \ pending' PROVE f.n <= newest'
                  OBVIOUS
              <3>1. f = e \/ f \in sent \ pending
                    BY <1>3
              <3>2. f \in sent \ pending => f.n <= newest
                    BY <2>1 DEF UpToDate
              <3>3. f.n \in Nat /\ e.n \in Nat
                    BY <1>1, <1>3 DEF Event
              <3> QED
                  BY <1>1, <2>1, <2>2, <3>1, <3>2, <3>3
        <2> QED
            BY <1>2, <1>3, <2>2, <2>3, <2>4, <2>5 DEF UpToDate, size
  <1> QED
      BY <1>4

LEMMA SyncKept == SyncInv /\ [BillingNext]_billingVars => SyncInv'
  <1> SUFFICES ASSUME SyncInv, [BillingNext]_billingVars PROVE SyncInv'
      OBVIOUS
  <1>0. CInv' /\ KInv'
        BY CopiesKept, CustomersKept DEF SyncInv
  <1>1. ASSUME NEW c \in Checkouts,
               CheckoutMakes(c) \/ CheckoutCommits(c) \/ CheckoutReuses(c) \/ CheckoutEnds(c)
        PROVE  SyncInv'
        <2>1. ~rivalry' => ~rivalry
              <3>1. CASE CheckoutMakes(c)
                    BY <3>1, Zenon DEF CheckoutMakes
              <3>2. CASE CheckoutCommits(c) \/ CheckoutReuses(c) \/ CheckoutEnds(c)
                    BY <3>2 DEF CheckoutCommits, CheckoutReuses, CheckoutEnds, billingPast
              <3> QED
                  BY <1>1, <3>1, <3>2
        <2>2. BillTyped
              BY DEF SyncInv, KInv
        <2> QED
            BY <1>0, <1>1, <2>1, <2>2, CheckoutTouches, NothingHandled
  <1>2. ASSUME NEW h \in Webhooks, NEW e \in sent, WebhookReadsSeller(h, e) PROVE SyncInv'
        <2>1. ~parallel' => ~parallel
              BY <1>2, Zenon DEF WebhookReadsSeller
        <2>2. UNCHANGED <<account, sent, pending, newest, disordered, rivalry>>
              BY <1>2 DEF WebhookReadsSeller, stripe
        <2> QED
            BY <1>0, <2>1, <2>2, NothingHandled
  <1>3. ASSUME NEW h \in Webhooks, WebhookFails(h) PROVE SyncInv'
        BY <1>0, <1>3, NothingHandled DEF WebhookFails, stripe, billingPast
  <1>4. ASSUME NEW e \in pending, WebhookIgnores(e) PROVE SyncInv'
        <2>1. rivalry /\ UNCHANGED <<account, sent, newest, rivalry>>
              BY <1>4
              DEF WebhookIgnores, billingPast, SyncInv, KInv, OneCustomer, BillTyped, BillingTypeOK
        <2> QED
            BY <1>0, <2>1 DEF SyncInv, UpToDate, Orderly
  <1>5. CASE UNCHANGED billingVars
        BY <1>0, <1>5, NothingHandled DEF billingVars, stripe, billingPast
  <1> QED
      BY <1>0, <1>1, <1>2, <1>3, <1>4, <1>5, SendingKeepsSync, HandlingKeepsSync
      DEF BillingNext, Subscribing

LEMMA InSyncFollows == SyncInv => InSync
  <1> SUFFICES ASSUME SyncInv, Settled, ~doubled, sent # {}
               PROVE  /\ \A s \in Subscriptions : Runs(s) =>
                           /\ account.status = StatusOf(subscription[s])
                           /\ subscription[s].status \in {"active", "trialing"} =>
                                account.plan = "pro"
                      /\ (\A s \in Subscriptions : ~Runs(s)) =>
                           account.status = "canceled" /\ account.plan = "free"
                           /\ ~account.period
      BY DEF InSync
  <1>1. LastEvent
        BY DEF SyncInv, CInv, BillTyped, Numbered
  <1>2. PICK e \in sent :
          /\ e.n = Cardinality(sent) /\ e.status = subscription[e.id].status
          /\ \A s \in Subscriptions \ {e.id} : ~Runs(s)
        BY <1>1 DEF LastEvent
  <1>3. e.type = "deleted" <=> e.status = "canceled"
        BY DEF SyncInv, CInv, BillTyped, Numbered
  <1>4. newest \in Nat /\ e \in Event /\ e.n \in Nat
        BY DEF SyncInv, CInv, BillTyped, BillingTypeOK, Event
  <1>5. Orderly /\ pending = {}
        BY DEF Settled, Orderly
  <1>6. e.n <= newest /\ newest <= e.n
        BY <1>2, <1>5 DEF SyncInv, UpToDate
  <1>7. Shows(e)
        BY <1>4, <1>5, <1>6 DEF SyncInv, UpToDate
  <1>8. StatusOf(e) = StatusOf(subscription[e.id])
        BY <1>2 DEF StatusOf
  <1>9. e.id \in Subscriptions /\ e.status # "none"
        BY <1>4 DEF Event, StripeStatuses, Statuses
  <1>10. ASSUME NEW s \in Subscriptions, Runs(s)
         PROVE  /\ account.status = StatusOf(subscription[s])
                /\ subscription[s].status \in {"active", "trialing"} => account.plan = "pro"
         <2>1. s = e.id
               BY <1>2, <1>10
         <2> QED
             BY <1>2, <1>7, <1>8, <2>1 DEF Shows, StatusOf
  <1>11. ASSUME \A s \in Subscriptions : ~Runs(s)
         PROVE  account.status = "canceled" /\ account.plan = "free" /\ ~account.period
         <2>1. e.status = "canceled"
               BY <1>2, <1>9, <1>11 DEF Runs
         <2> QED
             BY <1>3, <1>7, <2>1 DEF Shows, StatusOf
  <1> QED
      BY <1>10, <1>11

(* Once every event has its answer the row says what Stripe says of the    *)
(* subscription that runs, or that none does, if no older event was        *)
(* handled after a newer one, no two handlers ran at a time, one customer  *)
(* was made and the seller never paid for two subscriptions at a time.     *)
THEOREM StaysInSync == BillingSpec => []InSync
  BY InSyncFollows, InitialSync, SyncKept, PTL DEF BillingSpec
=============================================================================
