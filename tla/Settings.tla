-------------------------------- MODULE Settings --------------------------------
(***************************************************************************)
(* What the operator configures at run time (core/settings.go,             *)
(* auth_settings.go, cors.go, project_quotas.go, projects.go, config.go):  *)
(* mail, storage, CORS and log retention of the instance, and the          *)
(* authentication settings, quotas and CORS origins of a project.          *)
(*                                                                         *)
(* Each document is one row that an update reads without a lock, changes   *)
(* in memory and writes whole; a section that the request leaves out, and  *)
(* a secret that it leaves blank, keep what was read.  Secrets are stored  *)
(* enciphered under the JWT secret of the server's environment, which also *)
(* supplies what is not configured in the database.                        *)
(***************************************************************************)
EXTENDS Integers, FiniteSets

CONSTANTS
  Editors,         \* requests of administrators that update settings
  Secrets,         \* passwords and keys typed by an administrator
  JwtSecrets, ShortSecret,
  Origins, Wildcard,
  LoginProviders,
  Deployments,     \* environments that the server is started with
  Requests,        \* by document, the update requests made
  Unset, NoCipher, NoSecret, Blank, NoProvider, NoUpdate,
  MaxSaves         \* bound: updates that commit

ASSUME SettingsAssumption ==
  /\ ShortSecret \notin JwtSecrets /\ {NoSecret, Blank} \cap Secrets = {}
  /\ Wildcard \notin Origins /\ MaxSaves \in Nat
  /\ DOMAIN Requests \subseteq {"instance", "auth", "quotas"}

VARIABLES
  environment,     \* variables of the running server
  configured,      \* by section, what its document holds of it
  updates,         \* by editor: its request and the document as it will write it
  (* history *)
  asked,           \* by section, the last request saved
  given,           \* by slot, the secret last typed and not dropped since, with its key
  lost,            \* sections that an update wrote from before another update of them
  saves

settingVars == <<environment, configured, updates, asked, given, lost, saves>>

SectionsOf == [instance |-> {"smtp", "storage", "cors", "logs"},
               auth |-> {"lifetimes", "templates", "providers"},
               quotas |-> {"enforced", "limits"}]
Sections == {"projectCors"} \cup UNION {SectionsOf[d] : d \in DOMAIN SectionsOf}
Slots == {"smtp", "storage"} \cup LoginProviders

Ciphers == [text : Secrets, key : JwtSecrets]

(***************************************************************************)
(* The environment                                                         *)
(***************************************************************************)
Environments == [jwtSecret : JwtSecrets \cup {ShortSecret}, mailHost : BOOLEAN, mailUser : BOOLEAN,
                 mailPassword : BOOLEAN, storage : {"local", "s3"}, s3Secret : BOOLEAN]

Validate(e) ==
  /\ e.jwtSecret # ShortSecret
  /\ e.storage = "s3" => e.s3Secret
  /\ e.mailHost => (e.mailUser <=> e.mailPassword)

(***************************************************************************)
(* Requests: the sections they name, each with its input.  An update of    *)
(* the instance names one section; one of a project's authentication       *)
(* always carries the templates, and one of its quotas the limits.         *)
(***************************************************************************)
SecretInputs == [secret : Secrets \cup {Blank}, clear : BOOLEAN]
SmtpInputs == [enabled : BOOLEAN, host : BOOLEAN, user : BOOLEAN, secret : Secrets \cup {Blank},
               clear : BOOLEAN]
StorageInputs == [type : {"local", "s3"}, bucket : BOOLEAN, secret : Secrets \cup {Blank},
                  clear : BOOLEAN]
CorsInputs == [origins : SUBSET (Origins \cup {Wildcard}), allowWildcard : BOOLEAN]
ProviderInputs == [LoginProviders -> SecretInputs \cup {NoProvider}]
Numbers == {"valid", "other", "outOfRange"} \* a number of days, minutes or requests

MailSettings == [enabled : BOOLEAN, host : BOOLEAN, user : BOOLEAN, cipher : Ciphers \cup {NoCipher}]
StorageSettings == [type : {"local", "s3"}, bucket : BOOLEAN, cipher : Ciphers \cup {NoCipher}]
ProviderSettings == [cipher : Ciphers \cup {NoCipher}]

\* What stands for nothing is none of the things it is told apart from.
ASSUME MarkersAssumption ==
  /\ Unset \notin SmtpInputs /\ Unset \notin StorageInputs /\ Unset \notin CorsInputs
  /\ Unset \notin ProviderInputs /\ Unset \notin Numbers /\ Unset \notin BOOLEAN
  /\ Unset \notin {Blank, "custom"}
  /\ {Unset, NoProvider} \cap MailSettings = {} /\ {Unset, NoProvider} \cap StorageSettings = {}
  /\ {Unset, NoProvider} \cap ProviderSettings = {}
  /\ {"smtp", "storage"} \cap LoginProviders = {}

One(section, inputs) == {[s \in {section} |-> i] : i \in inputs}
InstanceRequests == One("smtp", SmtpInputs) \cup One("storage", StorageInputs)
                    \cup One("cors", CorsInputs) \cup One("logs", Numbers)
AuthRequest(named, n, p, t) ==
  [s \in named \cup {"templates"} |-> IF s = "lifetimes" THEN n ELSE IF s = "providers" THEN p ELSE t]
AuthRequests ==
  {AuthRequest(named, n, p, t) :
   named \in SUBSET {"lifetimes", "providers"}, n \in Numbers, p \in ProviderInputs, t \in {Blank, "custom"}}
QuotaRequests ==
  {[s \in named \cup {"limits"} |-> IF s = "limits" THEN n ELSE b] :
   named \in SUBSET {"enforced"}, n \in Numbers, b \in BOOLEAN}
RequestsOf == [instance |-> InstanceRequests, auth |-> AuthRequests, quotas |-> QuotaRequests]

ASSUME RequestsAssumption ==
  /\ Deployments \subseteq Environments
  /\ \A d \in DOMAIN Requests : Requests[d] \subseteq RequestsOf[d]

(***************************************************************************)
(* What an input becomes, from what the section held when it was read      *)
(***************************************************************************)
CipherAfter_BlankDrops(current, secret, clear) ==
  IF clear \/ secret = Blank THEN NoCipher ELSE [text |-> secret, key |-> environment.jwtSecret]

CipherAfter(current, secret, clear) ==
  IF clear THEN NoCipher
  ELSE IF secret # Blank THEN [text |-> secret, key |-> environment.jwtSecret]
  ELSE current

CipherOf(section) == IF section \in {Unset, NoProvider} THEN NoCipher ELSE section.cipher

normalizeSMTPInput(current, input) ==
  IF ~input.enabled THEN [enabled |-> FALSE, host |-> FALSE, user |-> FALSE, cipher |-> NoCipher]
  ELSE [enabled |-> TRUE, host |-> input.host, user |-> input.user,
        cipher |-> CipherAfter(CipherOf(current), input.secret, input.clear)]

normalizeStorageInput(current, input) ==
  IF input.type = "local" THEN [type |-> "local", bucket |-> FALSE, cipher |-> NoCipher]
  ELSE [type |-> "s3", bucket |-> input.bucket,
        cipher |-> CipherAfter(CipherOf(current), input.secret, input.clear)]

normalizeCORSOrigins(input) == IF input.origins = {} THEN Unset ELSE input.origins
CorsAccepted(input) ==
  Wildcard \in input.origins => input.allowWildcard /\ input.origins = {Wildcard}

\* A provider that the request leaves out is dropped; one it names with no new
\* secret keeps its own, unless it asks to clear it.
normalizeAuthProviders(current, input) ==
  [p \in LoginProviders |->
     IF input[p] = NoProvider THEN NoProvider
     ELSE [cipher |-> CipherAfter(CipherOf(current[p]), input[p].secret,
                                  input[p].clear /\ input[p].secret = Blank)]]

Normalized(section, current, input) ==
  CASE section = "smtp" -> normalizeSMTPInput(current, input)
    [] section = "storage" -> normalizeStorageInput(current, input)
    [] section \in {"cors", "projectCors"} -> normalizeCORSOrigins(input)
    [] section = "providers" -> normalizeAuthProviders(current, input)
    [] section = "templates" -> IF input = Blank THEN "default" ELSE input
    [] OTHER -> input

Accepted(section, value, input) ==
  CASE section = "smtp" -> value.enabled => value.host /\ (value.user <=> value.cipher # NoCipher)
    [] section = "storage" -> value.type = "s3" => value.bucket /\ value.cipher # NoCipher
    [] section = "cors" -> CorsAccepted(input)
    [] section \in {"logs", "lifetimes", "limits"} -> value # "outOfRange"
    [] OTHER -> TRUE

\* The document as the update will write it
Rewritten(document, request) ==
  [s \in SectionsOf[document] |->
     IF s \in DOMAIN request THEN Normalized(s, configured[s], request[s]) ELSE configured[s]]

(***************************************************************************)
(* What the server uses                                                    *)
(***************************************************************************)
decryptSecret(cipher) ==
  IF cipher = NoCipher THEN NoSecret
  ELSE IF cipher.key = environment.jwtSecret THEN cipher.text ELSE "undecipherable"

EffectiveSMTPConfig ==
  IF configured["smtp"] = Unset THEN IF environment.mailHost THEN "environment" ELSE "off"
  ELSE IF configured["smtp"].enabled THEN decryptSecret(configured["smtp"].cipher) ELSE "off"

EffectiveStorageConfig ==
  IF configured["storage"] = Unset THEN environment.storage
  ELSE IF configured["storage"].type = "s3" THEN decryptSecret(configured["storage"].cipher) ELSE "local"

EffectiveProvider(p) ==
  IF configured["providers"][p] = NoProvider THEN "off" ELSE decryptSecret(configured["providers"][p].cipher)

\* EffectiveAdminCORSOrigins, EffectiveProjectCORSOrigins, EffectiveLogSettings and the like
Effective(section) ==
  CASE section = "smtp" -> EffectiveSMTPConfig
    [] section = "storage" -> EffectiveStorageConfig
    [] section = "providers" -> [p \in LoginProviders |-> EffectiveProvider(p)]
    [] OTHER -> configured[section]

(***************************************************************************)
(* Types and initial state                                                 *)
(***************************************************************************)
SettingsTypeOK ==
  /\ environment \in Environments /\ Validate(environment)
  /\ DOMAIN configured = Sections
  /\ configured["smtp"] = Unset \/ configured["smtp"] \in MailSettings
  /\ configured["storage"] = Unset \/ configured["storage"] \in StorageSettings
  /\ \A p \in LoginProviders : CipherOf(configured["providers"][p]) \in Ciphers \cup {NoCipher}
  /\ given \in [Slots -> Ciphers \cup {NoCipher}]
  /\ lost \subseteq Sections /\ saves \in 0 .. MaxSaves

Fresh(section) ==
  CASE section \in {"smtp", "storage", "cors", "logs", "projectCors"} -> Unset
    [] section = "lifetimes" -> "valid"
    [] section = "templates" -> "default"
    [] section = "providers" -> [p \in LoginProviders |-> NoProvider]
    [] section = "enforced" -> FALSE
    [] section = "limits" -> "valid"

SettingsInit ==
  /\ environment \in {e \in Deployments : Validate(e)}
  /\ configured = [s \in Sections |-> Fresh(s)]
  /\ updates = [a \in Editors |-> NoUpdate]
  /\ asked = [s \in Sections |-> Unset] /\ given = [k \in Slots |-> NoCipher]
  /\ lost = {} /\ saves = 0

(***************************************************************************)
(* Steps                                                                   *)
(***************************************************************************)
\* An update reads its document and works out the new one.
BeginUpdate(a, document, request) ==
  /\ updates[a] = NoUpdate /\ saves < MaxSaves
  /\ \A s \in DOMAIN request : Accepted(s, Rewritten(document, request)[s], request[s])
  /\ updates' = [updates EXCEPT ![a] = [document |-> document, request |-> request,
                                        next |-> Rewritten(document, request), since |-> {}]]
  /\ UNCHANGED <<environment, configured, asked, given, lost, saves>>

Typed(current, input) == \* the reference for a secret: typed last, unless dropped
  IF input.secret # Blank THEN [text |-> input.secret, key |-> environment.jwtSecret]
  ELSE IF input.clear THEN NoCipher ELSE current

GivenAfter(slot, request) ==
  IF slot = "smtp" /\ "smtp" \in DOMAIN request
  THEN IF request["smtp"].enabled /\ ~request["smtp"].clear
       THEN Typed(given[slot], request["smtp"]) ELSE NoCipher
  ELSE IF slot = "storage" /\ "storage" \in DOMAIN request
  THEN IF request["storage"].type = "s3" /\ ~request["storage"].clear
       THEN Typed(given[slot], request["storage"]) ELSE NoCipher
  ELSE IF slot \in LoginProviders /\ "providers" \in DOMAIN request
  THEN IF request["providers"][slot] = NoProvider THEN NoCipher
       ELSE Typed(given[slot], request["providers"][slot])
  ELSE given[slot]

\* The sections that a request takes over from what it read: those it leaves
\* out, and the secret of those that have one
Carried == {"smtp", "storage", "providers"}
KeptSections(document, request) == (SectionsOf[document] \ DOMAIN request) \cup (Carried \cap DOMAIN request)

SaveUpdate(a) ==
  LET u == updates[a]
      stale == u.since \cap KeptSections(u.document, u.request)
  IN
  /\ u # NoUpdate /\ saves < MaxSaves
  /\ configured' = [s \in Sections |-> IF s \in SectionsOf[u.document] THEN u.next[s] ELSE configured[s]]
  /\ updates' = [b \in Editors |->
       IF b = a THEN NoUpdate
       ELSE IF updates[b] # NoUpdate /\ updates[b].document = u.document
       THEN [updates[b] EXCEPT !.since = @ \cup DOMAIN u.request \cup stale] ELSE updates[b]]
  /\ asked' = [s \in Sections |-> IF s \in DOMAIN u.request THEN u.request[s] ELSE asked[s]]
  /\ given' = [k \in Slots |-> GivenAfter(k, u.request)]
  /\ lost' = (lost \ (DOMAIN u.request \ Carried)) \cup stale
  /\ saves' = saves + 1
  /\ UNCHANGED environment

AbandonUpdate(a) ==
  /\ updates[a] # NoUpdate /\ updates' = [updates EXCEPT ![a] = NoUpdate]
  /\ UNCHANGED <<environment, configured, asked, given, lost, saves>>

\* One statement, which reads nothing
UpdateProjectCORS(input) ==
  /\ saves < MaxSaves /\ CorsAccepted(input)
  /\ configured' = [configured EXCEPT !["projectCors"] = normalizeCORSOrigins(input)]
  /\ asked' = [asked EXCEPT !["projectCors"] = input] /\ saves' = saves + 1
  /\ UNCHANGED <<environment, updates, given, lost>>

\* The operator starts the server again, with the same environment or another.
ConfigureServer(e) ==
  /\ Validate(e) /\ environment' = e
  /\ updates' = [a \in Editors |-> NoUpdate]
  /\ UNCHANGED <<configured, asked, given, lost, saves>>

SettingsNext ==
  \/ \E a \in Editors, d \in DOMAIN Requests : \E r \in Requests[d] : BeginUpdate(a, d, r)
  \/ \E a \in Editors : SaveUpdate(a) \/ AbandonUpdate(a)
  \/ \E i \in CorsInputs : UpdateProjectCORS(i)
  \/ \E e \in Deployments : ConfigureServer(e)

SettingsSpec == SettingsInit /\ [][SettingsNext]_settingVars

(***************************************************************************)
(* Properties                                                              *)
(***************************************************************************)
SecretIn(slot) == decryptSecret(given[slot])

Wanted(section) ==
  LET i == asked[section] IN
  CASE section = "smtp" -> IF i = Unset THEN IF environment.mailHost THEN "environment" ELSE "off"
                           ELSE IF i.enabled THEN SecretIn("smtp") ELSE "off"
    [] section = "storage" -> IF i = Unset THEN environment.storage
                              ELSE IF i.type = "s3" THEN SecretIn("storage") ELSE "local"
    [] section = "providers" -> [p \in LoginProviders |->
                                   IF i = Unset \/ i[p] = NoProvider THEN "off" ELSE SecretIn(p)]
    [] section \in {"cors", "projectCors"} -> IF i = Unset \/ i.origins = {} THEN Unset ELSE i.origins
    [] section = "templates" -> IF i \in {Unset, Blank} THEN "default" ELSE i
    [] OTHER -> IF i = Unset THEN Fresh(section) ELSE i

\* Apart from the sections that two overlapping updates of one document touched
\* (each writes the whole row from its own unlocked read, so the later one takes
\* the earlier one back: loadStoredInstanceSettingsTx has no lock), the server
\* uses every section as the last update of it asked, and the secret that was
\* last typed for it: no update of another section, no blank password field, no
\* switch to the environment's values and back, and no restart changes it.  A
\* restart with another JWT secret leaves the secret undecipherable, and says so.
SettingsHold == \A s \in Sections \ lost : Effective(s) = Wanted(s)
=============================================================================
