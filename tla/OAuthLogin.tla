------------------------------ MODULE OAuthLogin -----------------------------
(***************************************************************************)
(* OAuth logins of application users (core/oauth.go, apis/oauth.go) on top *)
(* of their accounts: a state handed out at the start is consumed by one   *)
(* callback, which exchanges the provider's code, fetches a profile and    *)
(* logs in the user the profile belongs to, creating or linking it.        *)
(*                                                                         *)
(* What the provider answers is any profile; what is checked of it, of the *)
(* endpoints and of the redirect URL before anything is stored is left     *)
(* out.  Everything the login writes is one transaction that holds the     *)
(* lock of the users collection from its start: it finds the user, locks   *)
(* its row and looks for a second factor as other logins do, and commits.  *)
(***************************************************************************)
EXTENDS AppSessions

CONSTANTS
  ProviderUsers,    \* accounts at the provider
  NoAppUser,
  MaxOAuthStates    \* bound

ASSUME OAuthAssumption == NoAppUser \notin AppUsers /\ MaxOAuthStates \in Nat

VARIABLES
  oauthStates,    \* oauthStates[i]: whether state i was used
  oauthAccounts,  \* rows of _dbo.oauth_accounts: the user of a provider's account
  callbacks       \* callbacks past consumeOAuthState: <<state, profile>>

oauthVars == <<oauthStates, oauthAccounts, callbacks>>
accountVars == <<appVars, oauthVars>>

Profiles == [id : ProviderUsers, email : Emails, verified : BOOLEAN]

OAuthTypeOK ==
  /\ oauthStates \in Seq(BOOLEAN) /\ Len(oauthStates) <= MaxOAuthStates
  /\ oauthAccounts \in [ProviderUsers -> AppUsers \cup {NoAppUser}]
  /\ callbacks \subseteq (1 .. MaxOAuthStates) \X Profiles

OAuthInit ==
  /\ oauthStates = <<>>
  /\ oauthAccounts = [p \in ProviderUsers |-> NoAppUser]
  /\ callbacks = {}

StartOAuthLogin ==
  /\ Len(oauthStates) < MaxOAuthStates
  /\ oauthStates' = Append(oauthStates, FALSE)
  /\ UNCHANGED <<oauthAccounts, callbacks, appVars>>

\* Committed before the provider is called: a callback that fails has used up its state.
consumeOAuthState(i, profile) ==
  /\ ~oauthStates[i]
  /\ oauthStates' = [oauthStates EXCEPT ![i] = TRUE]
  /\ callbacks' = callbacks \cup {<<i, profile>>}
  /\ UNCHANGED <<oauthAccounts, appVars>>

CallbackFails(c) ==
  /\ c \in callbacks
  /\ callbacks' = callbacks \ {c}
  /\ UNCHANGED <<oauthStates, oauthAccounts, appVars>>

ByAccount(p) == {oauthAccounts[p.id]} \ {NoAppUser}
ByEmail(p) == {u \in AppUsers : p.verified /\ appUsers[u].email = p.email}

\* The linked account decides; only an unlinked one is looked up by its verified address.
ProfileUser(p) == IF ByAccount(p) # {} THEN ByAccount(p) ELSE ByEmail(p)

\* A user is created within the quota, when the address is free: one that is taken but not
\* verified by the provider makes the login fail.
CreateOAuthUser(u, p) ==
  /\ ProfileUser(p) = {} /\ ~Known(u) /\ EmailFree(p.email)
  /\ QuotaLeft
  /\ appUsers' = [appUsers EXCEPT ![u] = [email |-> p.email, verified |-> p.verified, key |-> 0]]

\* A user that is created with the login is nobody's before it commits, and has no factor.
OAuthRegister(c, u) ==
  /\ c \in callbacks /\ CollectionLockFree
  /\ CreateOAuthUser(u, c[2])
  /\ oauthAccounts' = [oauthAccounts EXCEPT ![c[2].id] = u]
  /\ createAppSession(u, 0, 0, <<"oauth", c[1]>>)
  /\ callbacks' = callbacks \ {c}
  /\ UNCHANGED <<oauthStates, authTokens, mfaChallenges, appRequests, mfaFactors, recoveryCodes,
                 enrolments>>

\* One that is there is read with its key, before its row is locked.
OAuthRead(q, c, u) ==
  /\ c \in callbacks /\ CollectionLockFree
  /\ u \in ProfileUser(c[2])
  /\ Begin(q, [op |-> "oauth", callback |-> c, user |-> u, key |-> appUsers[u].key,
               factor |-> "unread", enrolled |-> 0, locks |-> {<<"advisory", 0>>}])
  /\ callbacks' = callbacks \ {c}
  /\ UNCHANGED <<oauthStates, oauthAccounts, accounts, appSessions, authTokens, mfaChallenges,
                 issuedKeys>>

OAuthCommit(q) ==
  /\ appRequests[q].op = "oauth" /\ appRequests[q].factor # "unread"
  /\ LET c == appRequests[q].callback
     IN /\ oauthAccounts' = [oauthAccounts EXCEPT ![c[2].id] = appRequests[q].user]
        /\ SessionOrChallenge(appRequests[q], <<"oauth", c[1]>>)
  /\ Done(q)
  /\ UNCHANGED <<oauthStates, callbacks, accounts, authTokens>>

OAuthNext ==
  \/ StartOAuthLogin
  \/ \E i \in DOMAIN oauthStates, p \in Profiles : consumeOAuthState(i, p)
  \/ \E c \in callbacks :
       \/ CallbackFails(c)
       \/ \E u \in AppUsers : OAuthRegister(c, u) \/ \E q \in AppRequests : OAuthRead(q, c, u)
  \/ \E q \in AppRequests : OAuthCommit(q)
  \/ AppNext /\ UNCHANGED oauthVars
==============================================================================
