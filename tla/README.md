# TLA+ verification of cognito-local

cognito-local is a single Node process that emulates Amazon Cognito: an SDK endpoint
(`POST /` with an `X-Amz-Target` header) and an OIDC endpoint, both working on stores kept as
JSON files.  This directory holds TLA+ modules for the parts whose state matters over time,
TLC configurations that check them on small instances, and proofs checked by TLAPS.

Contents: [how the code runs](#how-the-code-runs) · [inventory](#inventory) ·
[modules](#modules) · [runs](#runs-and-what-they-show) · [proofs](#proofs) ·
[divergences](#divergences-between-the-code-and-its-documents) ·
[not modelled](#what-is-not-modelled) · [plan](#plan)

Paths below are relative to `src/src/` unless they start with `src/`.

## How the code runs

The server has one thread.  An Express handler runs from its first line to its last without
interruption unless it awaits something, and the only thing handlers await is a Lambda trigger
(`triggers/index.ts`).  This gives the granularity of every model:

* a handler without a trigger is **one action**;
* a handler with triggers is **cut at each `await`**: the part before is one action, the part
  after another, and any other handler may run in between.  What was read before the cut is
  kept in the record of the call, as the code keeps it in local variables;
* a store (`data/store.ts`) is a `Map` that is written to its file, whole and synchronously, at
  every change.  Seen by other handlers a write is atomic.  Seen by a **crash** it is not: the
  process may die between two writes of one handler, or in the middle of `writeFileSync`, and
  `load()` starts with an empty store when a file does not parse.  Modules about crashes cut
  handlers at their writes, the others at their awaits;
* a restart reads the files back, applies the configuration (`initFromConfig`), and drops the
  calls in flight.

The one timer is the sweep of `TokenStore` (every 60 s).

## Inventory

| Component | State | Operations | Hard behaviour |
|---|---|---|---|
| Data store (`data/store.ts`) | one `Map` and one file per store | `get`, `set`, `delete`, `load`, `persist` | torn files, crashes between writes to several files |
| Refresh tokens and sign-in (`data/token-store.ts`; `initiate-auth`, `admin-initiate-auth`, `respond-to-auth-challenge`, `revoke-token`, `global-sign-out`, `admin-user-global-sign-out`, `admin-disable-user`, `admin-delete-user`, `delete-user`; `oidc/token.ts`, `oidc/revoke.ts`) | `refresh-tokens.json`, `revoked-tokens.json`, the list in each user, calls in flight | issue, refresh, revoke, sign out, disable, delete | awaits of four triggers, two records of a token and two of a revocation, usernames that are taken again |
| Sessions and MFA (`respond-to-auth-challenge`, `associate-` and `verify-software-token`, `set-user-mfa-preference`) | `sessions.json`, MFA settings of a user | challenge, answer, set up, sweep | sessions that outlive changes of their user, chains of challenges |
| Registration, confirmation, passwords (`sign-up`, `confirm-sign-up`, `resend-confirmation-code`, `admin-create-user`, `forgot-password`, ...) | `users.json` | create, confirm, reset, change, delete | check before and write after the await of `preSignUp` or `userMigration`; one code field for several flows |
| User attributes (`*-user-attributes`, `verify-user-attribute`) | attributes and e-mail of a user | set, delete, verify | an e-mail address is also an alias, and nothing keeps it unique |
| Authorization codes and OIDC (`oidc/*`) | `auth-codes.json` | authorize, exchange, sweep | single use, expiry by the timer only, restarts |
| Groups (`data/group-store.ts`, ten handlers) | `groups.json` and a list in each user | create, delete, add, remove | two copies of each membership |
| Pools, clients, startup (`data/user-pool-store.ts`, `data/client-store.ts`, `config.ts`, `index.ts`) | `pools.json`, `clients.json` | create, update, delete with cascade, initialise | cascades cut by a crash, configuration against API |
| Triggers (`triggers/index.ts`, `services/lambda.ts`) | none | `fire` | the only await |
| Tokens and claims (`tokens/*`, `sdk/access-token.ts`, `oidc/userinfo.ts`) | none: the claims are all there is | build JWTs, resolve them to an account | claim overrides; accounts and clients that change under a token |
| Listings (`list-*.ts`, `admin-list-groups-for-user.ts`) | none: the token is an offset | page, filter | stores that change between two pages |
| Keys, validators, JSON revival, configuration | the key file | pure functions, start | |
| Routers, error mapping, discovery, userinfo, logout, login page | none | dispatch and formatting | |
| Niche stores (devices, identity providers, resource servers, domains, UI, tags, imports) | a `Map` and a file each | create, read, update, delete | a variable per module, bound to the first data directory |
| Shutdown (`index.ts`) | none | close, or exit after 5 s | |

Components meet in the stores.  Sign-in reads accounts and writes tokens and the list in the
account; deleting, disabling or signing out a user writes both the other way round; the OIDC
grants write tokens and no list; groups live in their own store and, a second time, in the
account, from which `tokens/generate.ts` builds the claim; a pool's deletion runs through
clients and users; a start runs through pools, users and clients.

What makes each correct: a token is usable only between its issue and its revocation, whoever has
the username by then, unless its pool was deleted; no account is replaced except where a trigger
names or delays it, and no address handed over; a confirmation code is honoured once; an
authorization code is good for one client that authenticates itself and does not live for ever; a
membership that was answered is in both places; no client is without its pool, and no user but a
seed user of a pool nobody configured; a password check pays for one sign-in; an access token
speaks for the account it was made for; a listing ends, and misses only what moved; and what a
client was told survives a crash.  `PROJECT.json` lists, under `hazards`, where in the code each
of these could fail, and which property would notice.

## Modules

| Module | Models |
|---|---|
| `DataStore` | `Empty`, `Set`, `Delete` on a store, a function on its keys |
| `TokenStore` | the refresh-token methods of `data/token-store.ts`, on two stores |
| `RefreshTokens` | every handler that issues, uses or invalidates a refresh token |
| `TokenLedger` | the abstract specification that `RefreshTokens` implements |
| `RefreshTokensProofs` | its theorems |
| `CrashRecovery`, `CrashRecoveryProofs` | the files behind tokens, users and groups, handlers cut at every write |
| `Accounts`, `AccountsProofs` | registration, confirmation, reset, aliases |
| `AuthorizationCodes`, `AuthorizationCodesProofs` | codes, the timer, restarts |
| `Challenges`, `ChallengesProofs` | sessions, MFA methods, SMS codes, the software token |
| `AccessTokens`, `AccessTokensProofs` | claims, trigger overrides, and whom a token is resolved to |
| `Pools`, `PoolsProofs` | pools, clients and users under cascades and starts |
| `Listings`, `ListingsProofs` | a caller who pages through a store that changes |
| `MC...` | instances and symmetry sets for TLC |

A definition preceded by `Mutant:` is not part of a model: it is a plausible bug, and
`PROJECT.json` names the property that finds it.

**RefreshTokens.**  State: the pools there are; the accounts with their status, `enabled` and list
of tokens; the two token stores; sessions; the calls that wait for a trigger.  History: `issued`
(who got which token), `created`, `minted`, and `leftBehind`, the tokens that were usable when
their pool was deleted.  `InitiateAuth` is cut at `userMigration`, `preAuthentication`,
`preTokenGeneration` and `postAuthentication`; its refresh branch at `preTokenGeneration`.  Each
action is a call that presents good credentials: a bad password, code or verifier changes nothing
here.  A user is one key `poolId:username`, a pool and a name; a token never repeats (64 random
bytes), and expiry is the step `Expire`, at any time.  `GetUser` has the fallback of
`UserPoolStore.getUser` to a name that differs in letter case alone.  It matters where a user is
looked up again: when the token of a sign-in that waited is recorded, when a refresh call or a
revocation looks for the account of an entry, and when a challenge is answered.  The code takes the
first such account of the `Map`, the model any; and because `UpdateUserPool` may switch
`usernameCaseSensitive`, an update through the fallback may also find nobody.  `PassChallenge`
signs in the account of the session's name in the pool of the client that answers, as the handler
does, which need not be the session's pool.  The trigger `userMigration` creates the
account under the name that was asked for, or, where the server draws the names, under a drawn
`sub` or one the trigger answers (`MigrationNamesSub`), taken or not.

`DeleteUserPool` removes the accounts of a pool and touches no token, session or waiting call;
`Restart` makes the configured pools again and puts the seed users.  A client is there whenever its
pool is: a client that is deleted by itself, or that no start makes again, takes calls away and
adds none.  `mfaConfiguration` is a constant here: under `OPTIONAL` a sign-in may open a session or
not, which is what changing it to and fro allows.  Of MFA only whether
a session is created is kept (the methods are in `Challenges`); a pool with MFA `ON` still signs in
a user who has no method, as the code does.  `UsernamesReusable` tells pools where callers choose
usernames from those where the server draws UUIDs.

`TokenLedger` says the same with no store or handler in sight: a token is issued once to one
user, is usable until it is invalidated alone or with all of its user's, and an access token is
minted only from a usable token or by a refresh call that was accepted while it was.  The
refinement mapping takes `issued`, the usable tokens and the accepted refresh calls.  A sign-out
may take tokens of a user of the same pool whose name differs in letter case alone (`Alike`), since
the list it walks may hold some.

**CrashRecovery.**  A handler is the series of its writes, each to one key of one of four files;
`mem` is the stores, `disk` what a start would read.  `todo` is what the running handler has still
to write: the write that comes now, the two loops of a sign-out or deletion (over the user's list,
then over what the store has, in any order, the entry of a token before its record), and the last
write.  Between two writes the process may die (`Crash`), and in the middle of one it may leave the
file torn (`CrashTearing`), which empties that store at the next start.  The writes of the start
itself are one step: cut, it does the rest the next time.  A membership is written into the
members of the group (`Listed`) and into the account (`Carried`); the handlers look at each copy
and write the one that is to change.  History: what clients were told (`answered`, `dead`, `added`,
`removed`), against which tokens a call was started (`threatened`), and which files were ever torn
(`lost`).  A promise ends when a later call takes it back, or when the file that kept it is torn:
without `users.json` the seed file gives its memberships anew.  An expired entry is dropped where it
is found and the list of its user left as it is (`Expire`; `expired` is history).  `DeleteUserPool`
deletes the accounts of one of `UserPools` key by key and no token; what was usable then is in
`abandoned`, and what was said about the members of its groups ends with the accounts.
`CreateUser` does not look whether the name is taken, because after `preSignUp` or `userMigration`
nobody does: it writes over the account, its groups and its list.  Triggers and sessions are not
repeated here.  The files of pools and clients are not there either, so no handler fails because its
pool is gone, and `enabled` is not, so a disabled user can sign in: both only add behaviours.

**Accounts.**  One pool.  State: its configuration (`pool`: whether e-mail addresses are the
usernames, whether letter case matters, which triggers it has, its seed users), chosen by `Init`
from `Configurations`; accounts by internal username with address, status and code; the insertion
order of the `Map`, because `getUserByEmail` takes the first account with the address; calls
waiting for `preSignUp` or `userMigration`.  Names and addresses are model values; `Twin` maps a
name to its lower-case form, which may be one of the UUIDs.  Where addresses are the usernames a
migration trigger may answer the `sub` itself (`namesSubs`): it becomes the username, in any
spelling and whether it is taken or not, and the account is marked `named`.  `made` tells an
account from the one it was written over, whatever the two have in common.  Passwords, `enabled`,
`email_verified`, the `postConfirmation` trigger and the calls that change a password alone are
left out.  Codes never repeat: the code draws six digits, and two equal draws are not considered.

**Challenges.**  State: what the challenges look at in an account (status, MFA methods, whether
there is a secret, the SMS code) and the sessions with their challenge, user and age.
`ConsumeSession` deletes the session before the answer is looked at, as the handler does; the
account is found again by the session's username in the pool of the request's client, which need
not be the session's pool (`AccountIn`).  Usernames are read modulo letter case here: where case
does not matter `getUser` falls back to another spelling, and a name of this module stands for all
spellings, so `OneSignInPerCheck` does not tell them apart.  `SELECT_MFA_TYPE` and `MFA_SETUP`
replace a session by another.  The software-token calls take any user, because an access token or
any session will do.  History: `checks`, a password check with its age and the sign-ins it led to;
sign-ins that go back to none; SMS codes that were used up.

**AccessTokens.**  State: accounts with `sub` and `enabled`, clients, and the tokens in the hands
of clients, each a record of three claims.  `GenerateTokens` fills the claims and applies
whatever a trigger answers (`ApplyOverrides`): `sub` is reserved, `username` and `client_id` are
not.  `ResolveUser` and `UserInfo` are the two lookups of the code, with their order: by
username, by the attribute `sub`, and over the SDK by the claim `username`.  The claim `sub` is
the username.  So is the attribute `sub` of an account whose username is a UUID the server drew;
where callers choose usernames the attribute is a UUID of its own, until an update of attributes
changes it.  History: the owner of each token, and whether that account was deleted since.  The
tokens of the grant `client_credentials` are left out: they have no user, and their `sub` is the
id of the client (`oidc/token.ts:72`).  Names are compared as they are, without the fallback of
`getUser`.

**Listings.**  One store seen through the filter of a listing: each entry has a `place` in
the order of the `Map` (a new or returning key goes to the end, a replaced one stays) and a flag
that says whether the filter shows it.  A page is a `Slice` of what is shown, and `NextToken` the
offset of the next.  History: what the caller was given, what was shown throughout, and how many
entries left or joined before the offset.  The eight listings with a token are all of this form.

**AuthorizationCodes.**  Time is counted in ticks; `Lifetime` and `SweepPeriod` stand for 120 s
and 60 s.  The timer is punctual.  The token endpoint first refuses a client it does not know, or
one with a wrong secret (`Authenticated`; `oidc/token.ts:37`), and then the code stays.  From any
other client an exchange deletes the code before it compares anything (`consumeAuthCode`), whether
client, redirect URI and verifier then match or not.  Clients may be deleted, and a start puts the
configured ones back.  `createdAt` is in the file, so codes age while the server is down.

**Pools.**  `Start` is a series of writes (pools, seed users, clients) and `DeleteUserPool` a
cascade (clients, users, the pool), each of which a `Restart` may cut anywhere.  Of settings a
version is kept.  A seed user is put whether its pool is there or not, as the code does, which never
looks for it.  Torn files, and what a deletion does not touch (groups, tokens, sessions),
are left out.

## Runs and what they show

`tlc -config <run>.cfg <module>`; every run finishes within three minutes.

| Run | Instance | Properties | Shows |
|---|---|---|---|
| `RefreshTokens_sync` | 2 configured pools with a user of one name each, who are in the seed file; 2 tokens, 1 session, `userMigration`, MFA optional, names that can be taken again | `TypeOK` `RevocationRecorded` `TokenListSound` `NoOrphanTokens` `GuardedTokensStayGuarded` | where no trigger comes between the look at the account and the token, tokens follow their users through any order of calls, and only the deletion of a pool leaves any behind |
| `RefreshTokens_triggers` | 1 user, 2 tokens, 2 calls, 4 triggers, names that are drawn | `TokenListComplete` `ImplementsLedger` `RevocationTakesEffect` | two sign-ins or refreshes cut at each trigger, everything else in between, the deletion of the pool included |
| `CrashRecovery_writes` | 2 users, 1 seed user, one pool of all, 1 token, 1 group, any file may tear | `TypeOK` `DeadTokensStayDead` `AnsweredTokensSurvive` `NoOrphanTokens` `ListsNameTokens` `HistoryOfTheDead` `AddedAreIn` `RemovedAreOut` `NoRevival` | what was answered survives a crash at any write, of a pool's deletion too; changes of memberships hold in both stores |
| `Accounts_registration` | an e-mail pool with both triggers, or a pool of names without; 3 subs, 3 names, two of them spellings of one, a seed user of either kind of name, 2 addresses, 2 codes, 1 waiting call | `TypeOK` `SpentCodesDead` `NoTwins` `AliasKept` | codes are spent once; an address is not handed over even when several accounts have it; names stay apart, but for a seed user put beside another spelling |
| `Accounts_migrations` | an e-mail pool with both triggers and migrations that choose the username: 2 subs, a seed user whose name is a spelling of one | `AccountsNotReplaced` | only a name that a migration chose is written over |
| `Challenges_sessions` | 2 pools with one username, 2 checks, 2 sessions, 2 codes, sessions of one tick | `TypeOK` `OneSignInPerCheck` `NoUncheckedSignIn` `SpentCodesGone` | no chain of challenges multiplies or renews a password check |
| `AccessTokens_owners` | a pool of chosen and one of drawn names, 2 names, a client each, 1 token with any claims a trigger leaves | `TypeOK` `OwnerAnswers` | a token speaks for its owner while the account is there |
| `Listings_pages` | 3 keys that come into the store 5 times, pages of 1 and 2 | `TypeOK` `OffsetsShift` `ListingEnds` | what a page can miss or repeat, and that a listing ends |
| `AuthorizationCodes_lifetime` | 2 codes, 2 clients, lifetime 4, period 2 | `TypeOK` `PresentedCodesGone` `SweptInTime` `CodesEnd` | single use by authenticated clients and bounded life across restarts |
| `Pools_cascade` | 2 pools, one configured and both in the seed file, 3 clients, 2 names, 2 versions | `TypeOK` `NothingDangles` `ClientSettingsSurvive` | cascades and starts cut anywhere leave nothing dangling but seed users of a pool nobody configured |
| `RefreshTokens_orphan` | violation | `NoOrphanTokens` | a sign-in outlives its user |
| `Accounts_overwritten` | violation | `AccountsKept` | a waiting sign-up overwrites an account |

**Why the bounds are enough.**  A race over a token needs its user, a second actor (another call
or another user) and at most a second token to tell `one of them' from `all of them'; two users
and two tokens, or one user, two tokens and two waiting calls, have every such case; of the two
users one is in a pool of its own, so that deleting a pool takes one and leaves the other.  Two
spellings of a name, of which one user's token may land on the other's list, are in the proofs
alone: `ListsSound` is about any of them.  An alias needs two accounts with one address and a
third that may take or lose it.  Twins need two spellings; a name that a trigger chose, one that
is drawn and one that is spelled alike.  A session that is answered as somebody else needs a
second account of the same name, so two pools; a chain needs a session and the one that replaces
it; two checks tell `this one' from `another', and a life of one tick lets each session age and
end.  A token is compared with accounts, not with other tokens, so one token and two names per
pool reach every lookup.  A listing of three keys has a page with a next one, a full last page and
a short one, and five places let keys leave and return; `MaxPlaces` bounds how often an entry is
put, and with it how many changes a listing meets, while `left` and `joined` stop counting at the
number of keys.  The sweep needs a lifetime longer than a period, so that a code outlives one
sweep and is caught by a later one, and `MaxAge` one beyond their sum, where ages saturate: no age
above the bound is distinguished.  In `CrashRecovery` one handler runs at a time, and what it does
to one token or group never looks at another; a token and a group meet in the account, which every
write replaces as a whole.  One of each is checked, and the proofs take any number.  Tokens,
`sub`s, authorization codes and confirmation codes are issued at most once each, so their number
also bounds the behaviours; accounts, groups, pools and crashes are unbounded.

**Fairness.**  `RefreshTokens` assumes weak fairness of each waiting call's answer: `fetch`
gives up on an endpoint that is silent, a synchronous Lambda invocation ends with its function,
and an error counts as an answer.  The code sets no timeout of its own, so this is an
assumption on the invoker.  `AuthorizationCodes` assumes that time passes and that the
interval timer fires, which `setInterval` in a live process does.  `Listings` assumes of the
caller alone that one who holds a token asks for the next page: `ListingEnds` is about such a
caller, and what others do to the store is unconstrained.  Nobody else is assumed to call,
to stop or to start the server: `CodesEnd` is about servers that in the end stay up.

**Deadlock** is checked in every run; some step (a restart, a tick, a call) is always possible.

## Proofs

TLAPS checks the theorems below for every value of the constants that satisfies the named
assumption of the module (`RefreshTokensAssumption` and so on).  The assumptions only say what
kind of thing a constant is, except that `MaxAge` lies above every age that matters, that a
configured client names a configured pool (in the configuration file clients are listed under
their pool), and that a store of `Listings` has finitely many keys.  Nothing is assumed of the
seed file: its users may name any pool.  Nothing else is assumed finite.

| Theorem | Says |
|---|---|
| `RefreshTokensProofs!TypeCorrect` | the state keeps its type under every handler |
| `RefreshTokensProofs!RevocationsRecorded` | an entry names the user its token was issued to; the two stores of revocations agree |
| `RefreshTokensProofs!ListsSound` | a user's list names only tokens of that user, or of one in the same pool spelled alike |
| `RefreshTokensProofs!HandlersImplementLedger` | the handlers, cut at their triggers, implement `TokenLedger` |
| `RefreshTokensProofs!TokensHaveUsers` | any triggers: what is known of the accounts of waiting calls and usable tokens; the three below follow from it |
| `RefreshTokensProofs!NobodyOrphaned`, `GuardsHold` | without `preAuthentication` and `preTokenGeneration`: a usable token that no deleted pool left behind has an account, and one that passes the checks of its flow |
| `RefreshTokensProofs!OrphansAwaitedTriggers` | with any triggers: a token without an account was left behind by its pool or came from an `InitiateAuth` call |
| `RefreshTokensProofs!ListsComplete` | where no new account takes a name that may have left a token: a user's list misses no usable token of the SDK but those a deleted pool left behind |
| `CrashRecoveryProofs!RevocationsLast`, `HistoryIsOfTheDead` | no crash and no torn file revives a token that was answered to be dead, or that is on record as revoked |
| `CrashRecoveryProofs!DeadNeverReturn` | no step makes a token usable again that a call was started against, answered or cut |
| `CrashRecoveryProofs!AnswersLast`, `ListsAreBacked` | a token that was answered survives, and lists name tokens there are or that expired, while their file is whole |
| `CrashRecoveryProofs!NobodyOrphaned` | a usable token has an account at every write of a user's deletion, while the users are whole, unless its user went with a pool |
| `CrashRecoveryProofs!AdditionsHold`, `RemovalsHold` | an answered change of a membership holds in both stores |
| `AuthorizationCodesProofs!CodesUsedOnce` | a code an authenticated client presented is never stored again |
| `AuthorizationCodesProofs!SweepKeepsBound` | no stored code is older than the lifetime and the time since the last sweep |
| `AccountsProofs!CodesHonouredOnce` | a confirmation code is honoured once |
| `AccountsProofs!NamesApart` | registration makes no two names that differ in letter case alone, unless a migration trigger chose one |
| `AccountsProofs!AccountsStand` | nothing is written over an account where no handler waits or names are drawn, but for names a migration trigger chose |
| `AccountsProofs!AliasesStay` | an address is not handed over |
| `ChallengesProofs!ChecksPayOnce` | a password check leads to one sign-in at most, of its username, in two lives of a session |
| `ChallengesProofs!SignInsAreChecked` | no session of the software-token calls leads to a sign-in |
| `ChallengesProofs!CodesSpentOnce` | a code by SMS completes one sign-in |
| `AccessTokensProofs!OwnersAnswer` | a token whose client stands speaks for its owner alone |
| `ListingsProofs!ShiftsAreBounded` | a listing misses and repeats no more than what moved before its offset |
| `PoolsProofs!PoolsStand` | every client has its pool, and every user but seed users of pools that are not configured, wherever a cascade or a start is cut |
| `PoolsProofs!SettingsSurvive` | a client's settings are those of the last call, after any starts |

Every module of proofs has a `TypeCorrect` too.

**Refresh tokens.**  The proof of the type is one step per handler, with one lemma per store
operation and per stage of a sign-in.  `RevocationRecorded` alone is not inductive: a token drawn
for a new entry might be among the revoked ones.  `EntriesIssued`, that an entry names the user
its token was issued to, excludes it, because a token is drawn outside `issued` and revoking
needs an entry.  `StoreSteps` shows that every action changes the token stores in one of four
ways (issue, revoke, present an expired token, expire) or not at all, and the revocation
invariant follows from that lemma instead of from the handlers.  `TokenListSound` is about the
accounts and needs the handlers again (`ListStep`).  Two cases matter: the new account of a deleted
username, which starts with an empty list, and the token that is recorded for a user looked up
again, whom `GetUser` finds in the same pool and spelled alike (`Alike`).

For the refinement a step must map to an operation of the ledger or to a stutter.  A sign-out
maps to the ledger's only because a user's list names tokens of users `Alike` (`SignOutStep`, from
`TokenListSound`), a revocation to one of tokens that were issued only by `EntriesIssued`, and
an exchange that waits for its trigger to the acceptance of a usable token, from which the
ledger allows one access token even if the token dies meanwhile.  Invariants and
step lemmas are combined in `LedgerStep`.

The theorems on orphans rest on `UsersKnown`: a usable token that no deleted pool left behind
(`leftBehind`, which `DeleteUserPool` fills) names an account that was there once,
and, unless a sign-in waited for a trigger before it issued the token, one that is there and passes
the checks.  `CallsKnown` gives the waiting calls what the step after a trigger needs.  Two lemmas
say what any action does, to an account (`AccountFates`: kept, cleared of its tokens, new, or
overwritten) and to the usable tokens (`TokenFates`: it leaves some or issues one), and the
invariants are proved from the two.  The conditions are those of the code.  `TokensAtOnce` leaves
out the two triggers after which `InitiateAuth` goes on with the account it read before; with one
of them `NoOrphanTokens` is violated (`RefreshTokens_orphan`).  `NamesLeaveNothing` is weaker where
names are drawn: there an orphan stays, but nobody takes up its name.  It asks that no seed user
exist in that case, because a seed user who is deleted while a sign-in waits, and brought back by
the next start, is the one account that meets an orphan which its list misses; and where names are
chosen, or answered by the trigger, that `userMigration` be unset, after which `createUser`
overwrites an account and its list.

**Files.**  What clients were told holds between two writes only because of what the running
handler has still to write, so the invariant is about both.  `WritesKeep` says of each pending
write that it keeps the promises: the entry of a token is new and recorded nowhere, a record is of
a token whose entry is revoked already, an account is written with its own tokens, which are there
or about to be, and with the groups that are promised, and an account is dropped when those of its
tokens that still live are among the ones that the loops come to (`Left`).  Of the two deletions
without a revocation `EntryGone` says that the entry has expired and is all there is to write, and
`PoolLeaves` that the tokens of an account that goes with its pool are in `abandoned`.
`TokensKept` says that a token that a call kills is dead or is in `Left`, or its entry is deleted
now, and `MembershipsKept` that either copy of a membership that the call changes is as it should
be or is marked to be written.  A crash leaves the stores and drops the pending writes, a torn
file empties one store, and what is left of the invariant then is enough, since everything about
pending writes is about none.  `Answer` needs that no write is left.  Each kind of write and each
kind of handler has a lemma; `RestartStep` is about both crashes.  That a removal from a seed
user's account is remembered needs the account itself: were it gone, the next start would give the
membership back.  `DeadNeverReturn` adds to the invariant that the token a call issues is not one
that a call was started against.

**Authorization codes.**  `PresentedCodesGone` is inductive with the type: a code that a client
presents once it has authenticated itself is deleted in the same step whatever the outcome, and
codes are drawn fresh.  For `SweptInTime`
the arithmetic is in `Tick`, where code and timer age together, and in the sweep, which leaves
nothing older than the lifetime; ages are capped, so the step that reaches the cap needs
`MaxAge > Lifetime + SweepPeriod`.

**Accounts.**  Every action updates, registers or removes an account, starts the server or leaves
the accounts alone (`AccountsStep`), and each invariant is proved for these five.  The codes need
that no two accounts hold one (`CodesNotShared`).  In a pool that draws usernames the name a
waiting sign-up drew stays free in every spelling, but for accounts whose name a migration chose
(`NamesReserved`, `Drawn`), so that `createUser` writes over nothing else; without triggers nobody
waits (`NobodyWaits`), so the check that a name is free still holds.  `AliasesStay` rests on the
order of the `Map`: accounts keep their order and new ones come last (`OrderKept`).  The type says
of that order that any accounts there are have a first, which makes `Array.find` find one.

**Challenges.**  That a check pays once is not inductive: it must be known that a check for which
a session is still open has not been paid (`SessionsUnpaid`), that no two sessions go back to the
same check (`ChecksNotShared`), and how old the check is by then: at most as old as its session,
and one life more if the session came out of `SELECT_MFA_TYPE`.  Each action opens, answers,
replaces or drops a session (`SessionStep`), and the invariant is proved once for each of these
four.  The codes need that no two accounts hold the same one (`CodesNotShared`), which is where
codes are taken never to repeat.

**Access tokens.**  `SubNamesOwner` says that the claim `sub` is the username of the owner, as it
was when the token was made: no trigger touches it, and the lookup by username comes first, so the
attribute `sub` of another account is never asked.  `OwnersKnown` says that the owner of a live
token has its account.

**Listings.**  Cardinalities are the difficulty.  The proof counts, for each key shown, the keys
before it (its index), and follows what an arrival or a departure does to that index: it moves by
one, in step with `joined` or `left`, exactly for the keys behind the place of the change.
`Missed` and `Repeated` are the keys whose index has come to lie on the wrong side of the offset,
and `ShiftsCounted` bounds them while the listing is under way.

**Pools.**  The pool of a client, or of a user who is no stray of the seed file (`Strays`), might be
missing for two reasons: a start that is cut before it
writes the pool but after the client or user, and a cascade that deletes the pool first.
`ConfiguredPoolsThere` excludes the first: while a start is under way past the pools, the pools of
the configuration are there and no call runs that could delete one.  The guard of the last write
of the cascade excludes the second: clients and users of the pool are gone, and while the cascade
runs no call creates others.

**Only model-checked.**  All liveness (`RevocationTakesEffect`, `CodesEnd`, `ListingEnds`),
because fairness is defined by `ENABLED`, which the prover does not support.  Every invariant,
action property and refinement that a passing run checks has a theorem; those on tokens without
accounts, on complete lists and on replaced accounts hold under the conditions they name, which
their runs meet.  No module declares a recursive operator.

## Divergences between the code and its documents

Two are shown by a run that violates what the document says; `PROJECT.json` quotes both sides.

- *Tokens without a user* (`RefreshTokens_orphan`).  `InitiateAuth` uses the account it read
  before an awaited trigger.  A user deleted meanwhile still gets a refresh token that no
  deletion revokes, and that works for the next account of that name.  Without
  `preAuthentication` and `preTokenGeneration` no deletion of a user leaves a token behind
  (`RefreshTokensProofs!NobodyOrphaned`); the deletion of a pool does with any triggers.
- *Overwritten accounts* (`Accounts_overwritten`).  `SignUp` checks the name before
  `preSignUp` and writes after it (`AccountsKept`).

These were met while modelling and have no run of their own.

- `deletePool` drops the accounts and revokes none of their tokens (`data/user-pool-store.ts:123`).
  A configured pool and its seed users are there again after the next start, and the old tokens
  with them.  `src/docs/src/content/docs/auth-flows/refresh-token-auth.md:87` says of a user deleted
  since the token was issued that "the refresh will fail".  The invariants on orphans speak of all
  other tokens.
- Two sign-ups with one address may both wait in `preSignUp` and both succeed
  (`sdk/handlers/sign-up.ts:87`); `src/docs/src/content/docs/sdk/registration.md:39` says
  "Duplicate emails return `UsernameExistsException`."  `Accounts_registration` covers what the
  alias does then.
- `ForgotPassword` takes an unconfirmed account to `RESET_REQUIRED`
  (`sdk/handlers/forgot-password.ts:43`), and `InitiateAuth` refuses `UNCONFIRMED` only
  (`initiate-auth.ts:155`), so the account signs in without being confirmed; `registration.md:8`
  says it "must confirm via `ConfirmSignUp`".
- `DeleteGroup` leaves the group in the accounts of its members (`delete-group.ts:16`), so
  `cognito:groups`, "User's group memberships" in `architecture/tokens.md:21`, still lists it.
- A start writes the configuration's settings over an existing pool (`data/user-pool-store.ts:42`);
  `architecture/data-layer.md:43` says "restarting the server does not overwrite existing data".
- `SELECT_MFA_TYPE` with the answer `SMS_MFA` opens a session without drawing a code
  (`respond-to-auth-challenge.ts:206`); only `initiate-auth.ts:202` draws one.  The challenge cannot
  be met by a user who was asked to select, although `src/README.md:16` lists the full `SMS_MFA`
  flow.
- `oidc/token.ts` looks at `enabled` neither in the password grant nor in the refresh grant (line 160);
  `src/CHANGELOG.md:107` says "the refresh-token grant now rejects disabled users", which holds for
  `InitiateAuth` alone.
- `consumeAuthCode` does not look at the age of a code (`data/token-store.ts:66`), so a code past its two
  minutes is exchanged until the sweep comes; `architecture/data-layer.md:80` says
  that it returns `undefined` for a code that "has expired".
- `SetUserMFAPreference` lists `SOFTWARE_TOKEN_MFA` for a user without a secret
  (`set-user-mfa-preference.ts:27`), who then cannot meet the challenge; a new secret replaces the
  verified one before it is verified (`associate-software-token.ts:34`).
- `RespondToAuthChallenge` looks the account up in the pool of the request's client and does not
  compare it with the session's (`respond-to-auth-challenge.ts:101`): an account of the same name
  in another pool signs in.  `OneSignInPerCheck` therefore speaks of the username.
- Sign-outs revoke refresh tokens only, and `isRevoked` (`sdk/access-token.ts:32`) never finds an access
  token; `scope.md:49` says "Invalidate all tokens for a user."
- A token whose client was deleted is resolved in the first pool of the configuration
  (`sdk/access-token.ts:38`), and where usernames are chosen, the token of a deleted account speaks for the
  next one of that name (line 51).
- The niche stores are variables of their modules (`sdk/handlers/devices.ts:8`);
  `architecture/overview.md:18` says "No singletons or global state exist anywhere in the codebase."
- `ListDevices` cuts its list at `Limit` and gives no token (`devices.ts:107`); `CreateUserPoolDomain`
  replaces the domain of another pool (`pool-domains.ts:26`); the code that verifies an attribute does
  not say which (`verify-user-attribute.ts:20`).
- The deletion of a user revokes by the exact key (`revokeUserTokens`), while
  a sign-in that waited records its token through the fallback of `getUser`
  (`data/user-pool-store.ts:253`): the token may come on the list of an account spelled alike, whose
  sign-out then revokes it.  `TokenListSound` and `Alike` in the ledger allow that.
- A migration trigger may answer the `sub` of an existing account of a pool of e-mail usernames, and
  `createUser` then writes over it (`initiate-auth.ts:150`); `AccountsNotReplaced` exempts those
  names, and `NoTwins` another spelling of one.
- The entry of an expired token is dropped and the list of its user left as it is
  (`data/token-store.ts:99`), so the list names a token that is not there (`ListsNameTokens`).
- Nobody looks whether the pool of a seed user exists (`data/user-pool-store.ts:58`); `UsersHavePools`
  exempts seed users of pools that are not configured.
- A start looks for a seed user by its very name (`data/user-pool-store.ts:64`), so it puts it beside
  an account whose name differs in letter case alone, also where case does not matter; `NoTwins` is
  therefore about all later accounts but seed users.

## What is not modelled

- In `RefreshTokens`: passwords, claims, ID tokens; the spelling a caller gives at a sign-in (it is
  that of an account; `Accounts` has the others); access tokens and MFA methods have modules of
  their own.
- In `Challenges`: the window of a TOTP code; `enabled`, which no answer looks at; letter case, a
  name stands for its spellings.
- In `AccessTokens`: the claims nothing looks up (groups, roles, scopes), ID tokens, signatures and
  expiry dates: a token may expire at any time; tokens of `client_credentials`; letter case.
- In `Listings`: what an entry holds, and tokens or limits that no answer gave out, such as a negative
  `Limit`.
- In `Accounts`: passwords, phone numbers, the schema of attributes, verification codes of
  attributes.
- In `Pools`: torn files, which `CrashRecovery` has for tokens, users and groups; the groups and
  sessions that outlive a deleted pool (its tokens are in `RefreshTokens` and `CrashRecovery`);
  registrations that wait while their pool is deleted.
- In `CrashRecovery`: what a group is apart from its members, so `UpdateGroup`.  That a new account
  of an old username finds itself in the members of a group is there (`DeleteUser` leaves
  them), but no property forbids it.
- In `Accounts`, `Challenges` and `AccessTokens`: a change of `usernameCaseSensitive` when accounts
  exist that differ only in case.  `RefreshTokens` allows it at any time.
- The invokers of Lambda functions: an invocation is an await that ends in an answer or an error.
- Routers, error mapping, discovery, JWKS, userinfo, logout and the login page, which keep no
  state; the generation of keys; loading and checking the configuration; the five-second
  backstop of a shutdown; of the niche stores, all but their listings, since each is a map with create,
  read, update and delete, which no other handler reads; the checks of passwords and of
  attributes against the schema, which look at one request and its pool.

## Plan

1. A composition of `Pools` and `Accounts`: a sign-up that waits while its pool is deleted, and
   what a deleted pool leaves to a pool of the same id.
2. The checks of passwords and attributes as pure functions, against reference definitions.
3. The shutdown with its backstop, on top of `CrashRecovery`.

Proofs: the composition of item 1 with its invariants; that `RefreshTokens` without crashes and
`CrashRecovery` without them make the same promises, as a second refinement of `TokenLedger`.
