----------------------------- MODULE Merchants ------------------------------
(***************************************************************************)
(* The records of a merchant (apps/merchant): the profile, which is        *)
(* created when a request first needs it, the API keys and their use, the  *)
(* webhook secret and the webhook configurations.                          *)
(*                                                                         *)
(* No row is locked.  A request is a sequence of statements that commit    *)
(* one by one; it holds the rows it has read until it ends.                *)
(***************************************************************************)
EXTENDS Integers, Sequences

CONSTANTS MerchantCalls,   \* the requests under way
          Users,           \* users that log in,
          MerchantUsers,   \* those whose role is MERCHANT
          MaxApiKeys, MaxHooks, MaxSecrets,   \* rows that are made
          NoProfile

ASSUME MerchantsAssumption ==
    /\ MerchantUsers \subseteq Users
    /\ MaxApiKeys \in Nat /\ MaxHooks \in Nat /\ MaxSecrets \in Nat

VARIABLES profile,        \* profile[u]: the MerchantProfile row of u, or NoProfile
          apiKey,         \* the MerchantAPIKey rows
          webhookSecret,  \* webhookSecret[u]: the number of the secret that is stored
          hook,           \* the merchant's WebhookEndpoint rows
          request,        \* request[c]: where request c is
          asked,          \* history: asked[u], what u has asked the profile to be
          handed,         \* history: handed[u], the secret last handed to u
          crossed         \* history: two requests have been under way at a time

merchantVars == <<profile, apiKey, webhookSecret, hook, request, asked, handed, crossed>>

\* Two of the fields of a profile, each as first set or as changed.
ProfileFields == {"business_name", "website"}
ProfileRow == [ProfileFields -> {"first", "changed"}]
NewProfile == [field \in ProfileFields |-> "first"]

ASSUME NoProfileAssumption == NoProfile \notin ProfileRow

ApiKeyRow == [owner : Users, active : BOOLEAN, used : BOOLEAN]
NewApiKey(u) == [owner |-> u, active |-> TRUE, used |-> FALSE]

\* deleted: the row is gone.
HookRow == [owner : Users, edited : BOOLEAN, deleted : BOOLEAN]
NewHook(u) == [owner |-> u, edited |-> FALSE, deleted |-> FALSE]

ProfileRequests == [do : {"read"}] \cup [do : {"patch"}, field : ProfileFields]
KeyRequests == {[do |-> "newKey"]}
RevokeRequests == [do : {"revoke"}, key : DOMAIN apiKey]
SecretRequests == {[do |-> "rotate"]}
NewHookRequests == {[do |-> "newHook"]}
HookRequests == [do : {"editHook", "dropHook"}, hook : DOMAIN hook]
MerchantRequests == ProfileRequests \cup KeyRequests \cup RevokeRequests \cup SecretRequests
                    \cup NewHookRequests \cup HookRequests

NoRequest == [step |-> "idle"]

MerchantInit ==
    /\ profile = [u \in Users |-> NoProfile]
    /\ apiKey = <<>> /\ hook = <<>>
    /\ webhookSecret = [u \in Users |-> 0]
    /\ request = [c \in MerchantCalls |-> NoRequest]
    /\ asked = [u \in Users |-> NewProfile]
    /\ handed = [u \in Users |-> 0]
    /\ crossed = FALSE

-----------------------------------------------------------------------------
(* Authentication and the profile.                                          *)
RequestAt(c, from, to) ==
    /\ request[c].step = from
    /\ request' = [request EXCEPT ![c] = to]

Arrives(c, call) ==
    /\ RequestAt(c, "idle", call)
    /\ crossed' = (crossed \/ \E d \in MerchantCalls : request[d].step # "idle")
    /\ UNCHANGED <<profile, apiKey, webhookSecret, hook, asked, handed>>

\* IsMerchantPermission.
IsMerchant(u) == u \in MerchantUsers

\* A request with a JWT.
RequestByUser(c, u, op) ==
    /\ IsMerchant(u)
    /\ Arrives(c, [step |-> "profile", user |-> u, op |-> op])

\* MerchantAPIKeyAuthentication finds the key active; it stands for its merchant.
RequestByKey(c, k, op) ==
    /\ apiKey[k].active
    /\ Arrives(c, [step |-> "touch", user |-> apiKey[k].owner, op |-> op, key |-> apiKey[k],
                   id |-> k])

\* Variant: save() writes every column.
TouchWholeKey(c) ==
    /\ RequestAt(c, "touch", [step |-> "profile", user |-> request[c].user, op |-> request[c].op])
    /\ apiKey' = [apiKey EXCEPT ![request[c].id] = [request[c].key EXCEPT !.used = TRUE]]
    /\ UNCHANGED <<profile, webhookSecret, hook, asked, handed, crossed>>

\* save(update_fields=["last_used_at"]).
TouchKey(c) ==
    /\ RequestAt(c, "touch", [step |-> "profile", user |-> request[c].user, op |-> request[c].op])
    /\ apiKey' = [apiKey EXCEPT ![request[c].id].used = TRUE]
    /\ UNCHANGED <<profile, webhookSecret, hook, asked, handed, crossed>>

U(c) == request[c].user
Op(c) == request[c].op
WithProfile(c, row) == [step |-> "act", user |-> U(c), op |-> Op(c), row |-> row]

GetProfile(c) ==
    /\ RequestAt(c, "profile", IF profile[U(c)] = NoProfile
                               THEN [step |-> "insert", user |-> U(c), op |-> Op(c)]
                               ELSE WithProfile(c, profile[U(c)]))
    /\ UNCHANGED <<profile, apiKey, webhookSecret, hook, asked, handed, crossed>>

\* A user has one profile: the second of two inserts fails, and the request with it.
CreateProfile(c) ==
    /\ RequestAt(c, "insert", IF profile[U(c)] = NoProfile THEN WithProfile(c, NewProfile)
                                                           ELSE NoRequest)
    /\ profile' = [profile EXCEPT ![U(c)] = IF @ = NoProfile THEN NewProfile ELSE @]
    /\ UNCHANGED <<apiKey, webhookSecret, hook, asked, handed, crossed>>

-----------------------------------------------------------------------------
(* What the request is about.                                               *)
Acts(c, do) ==
    /\ request[c].step = "act" /\ Op(c).do = do
    /\ UNCHANGED crossed

ReadProfile(c) ==
    /\ Acts(c, "read")
    /\ RequestAt(c, "act", NoRequest)
    /\ UNCHANGED <<profile, apiKey, webhookSecret, hook, asked, handed>>

\* Variant: the field is not set before the row is saved.
SaveOldProfile(c) ==
    /\ Acts(c, "patch")
    /\ RequestAt(c, "act", NoRequest)
    /\ profile' = [profile EXCEPT ![U(c)] = request[c].row]
    /\ asked' = [asked EXCEPT ![U(c)][Op(c).field] = "changed"]
    /\ UNCHANGED <<apiKey, webhookSecret, hook, handed>>

\* update_merchant_profile saves the whole row that was read.
UpdateProfile(c) ==
    /\ Acts(c, "patch")
    /\ RequestAt(c, "act", NoRequest)
    /\ profile' = [profile EXCEPT ![U(c)] = [request[c].row EXCEPT ![Op(c).field] = "changed"]]
    /\ asked' = [asked EXCEPT ![U(c)][Op(c).field] = "changed"]
    /\ UNCHANGED <<apiKey, webhookSecret, hook, handed>>

GenerateKey(c) ==
    /\ Acts(c, "newKey") /\ Len(apiKey) < MaxApiKeys
    /\ RequestAt(c, "act", NoRequest)
    /\ apiKey' = Append(apiKey, NewApiKey(U(c)))
    /\ UNCHANGED <<profile, webhookSecret, hook, asked, handed>>

\* Variant: a key is found by its number alone.
OwnAnyKey(u) == DOMAIN apiKey

OwnKeys(u) == {k \in DOMAIN apiKey : apiKey[k].owner = u}

\* One UPDATE; a key that is not the merchant's is not found.
RevokeKey(c) ==
    /\ Acts(c, "revoke")
    /\ RequestAt(c, "act", NoRequest)
    /\ apiKey' = [k \in DOMAIN apiKey |->
                     IF k = Op(c).key /\ k \in OwnKeys(U(c))
                     THEN [apiKey[k] EXCEPT !.active = FALSE] ELSE apiKey[k]]
    /\ UNCHANGED <<profile, webhookSecret, hook, asked, handed>>

\* update_or_create locks the row, and the secret of a merchant is unique; the
\* new secret is stored before it is handed out.
RotateWebhookSecret(c) ==
    /\ Acts(c, "rotate")
    /\ \E s \in 1 .. MaxSecrets :
          /\ \A u \in Users : webhookSecret[u] < s
          /\ RequestAt(c, "act", [step |-> "hand", user |-> U(c), secret |-> s])
          /\ webhookSecret' = [webhookSecret EXCEPT ![U(c)] = s]
    /\ UNCHANGED <<profile, apiKey, hook, asked, handed>>

HandSecret(c) ==
    /\ RequestAt(c, "hand", NoRequest)
    /\ handed' = [handed EXCEPT ![U(c)] = request[c].secret]
    /\ UNCHANGED <<profile, apiKey, webhookSecret, hook, asked, crossed>>

CreateHook(c) ==
    /\ Acts(c, "newHook") /\ Len(hook) < MaxHooks
    /\ RequestAt(c, "act", NoRequest)
    /\ hook' = Append(hook, NewHook(U(c)))
    /\ UNCHANGED <<profile, apiKey, webhookSecret, asked, handed>>

OwnHooks(u) == {h \in DOMAIN hook : hook[h].owner = u /\ ~hook[h].deleted}

\* Not found, or the row is read,
ReadHook(c) ==
    /\ Acts(c, "editHook")
    /\ RequestAt(c, "act", IF Op(c).hook \in OwnHooks(U(c))
                           THEN [step |-> "saveHook", op |-> Op(c), user |-> U(c),
                                 row |-> hook[Op(c).hook]]
                           ELSE NoRequest)
    /\ UNCHANGED <<profile, apiKey, webhookSecret, hook, asked, handed>>

\* and saved: if it has been deleted meanwhile, the UPDATE finds no row and
\* save() inserts it again.
SaveHook(c) ==
    /\ RequestAt(c, "saveHook", NoRequest)
    /\ hook' = [hook EXCEPT ![Op(c).hook] = [request[c].row EXCEPT !.edited = TRUE]]
    /\ UNCHANGED <<profile, apiKey, webhookSecret, asked, handed, crossed>>

DeleteHook(c) ==
    /\ Acts(c, "dropHook")
    /\ RequestAt(c, "act", NoRequest)
    /\ hook' = [h \in DOMAIN hook |->
                   IF h = Op(c).hook /\ h \in OwnHooks(U(c))
                   THEN [hook[h] EXCEPT !.deleted = TRUE] ELSE hook[h]]
    /\ UNCHANGED <<profile, apiKey, webhookSecret, asked, handed>>

\* The worker dies.
RequestDies(c) ==
    /\ request[c].step # "idle"
    /\ RequestAt(c, request[c].step, NoRequest)
    /\ crossed' = TRUE
    /\ UNCHANGED <<profile, apiKey, webhookSecret, hook, asked, handed>>

MerchantNext ==
    \E c \in MerchantCalls :
       \/ \E op \in MerchantRequests :
             \/ \E u \in Users : RequestByUser(c, u, op)
             \/ \E k \in DOMAIN apiKey : RequestByKey(c, k, op)
       \/ TouchKey(c) \/ GetProfile(c) \/ CreateProfile(c) \/ ReadProfile(c) \/ UpdateProfile(c)
       \/ GenerateKey(c) \/ RevokeKey(c) \/ RotateWebhookSecret(c) \/ HandSecret(c)
       \/ CreateHook(c) \/ ReadHook(c) \/ SaveHook(c) \/ DeleteHook(c) \/ RequestDies(c)

MerchantSpec == MerchantInit /\ [][MerchantNext]_merchantVars

-----------------------------------------------------------------------------
(* Properties.                                                              *)

\* Every variable has its type.
MerchantTypeOK ==
    /\ profile \in [Users -> ProfileRow \cup {NoProfile}]
    /\ apiKey \in Seq(ApiKeyRow) /\ hook \in Seq(HookRow)
    /\ webhookSecret \in [Users -> 0 .. MaxSecrets] /\ handed \in [Users -> 0 .. MaxSecrets]
    /\ \A c \in MerchantCalls :
          request[c].step \in {"idle", "touch", "profile", "insert", "act", "hand", "saveHook"}
    /\ asked \in [Users -> ProfileRow] /\ crossed \in BOOLEAN

\* In every step: a request that a key stands for, or that races another one,
\* neither brings a revoked key back nor revokes the key of another merchant;
\* only a merchant has a profile or a key.
KeysAreKept ==
    /\ \A k \in DOMAIN apiKey :
          /\ ~apiKey[k].active => ~apiKey'[k].active
          /\ apiKey[k].active /\ ~apiKey'[k].active
                => \E c \in MerchantCalls : request[c].step = "act" /\ U(c) = apiKey[k].owner
    /\ \A u \in Users \ MerchantUsers : profile'[u] = NoProfile

\* In every step: as long as no two requests have been under way at a time,
\* and none has died, the profile holds every change asked for, the secret that
\* is stored is the one handed out, and a deleted webhook configuration stays
\* deleted.
MerchantIsServed ==
    ~crossed' =>
        /\ \A u \in Users : asked[u] = IF profile[u] = NoProfile THEN NewProfile ELSE profile[u]
        /\ (\A c \in MerchantCalls : request[c].step # "hand") => webhookSecret = handed
        /\ \A h \in DOMAIN hook : hook[h].deleted => hook'[h].deleted
=============================================================================
