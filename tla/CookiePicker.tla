---------------------------- MODULE CookiePicker ----------------------------
(* Cookies of the user's own browsers: the picker page with its one-time codes *)
(* and sessions (cookie-picker-routes.ts), the import itself, over the cookie  *)
(* database or a headless Chrome (cookie-import-browser.ts), and the commands  *)
(* cookie-import-browser and cookie-import (write-commands.ts).  Calls to the  *)
(* context travel to the browser and their answers back in order, as           *)
(* Playwright's connection delivers them; every other await ends at any time.  *)
EXTENDS Naturals, Sequences, FiniteSets

CONSTANTS CookieDomains,
          CookieRequests, \* requests and commands in progress at once
          MaxCodes        \* bound: one-time codes

ASSUME CookieAssumption == MaxCodes \in Nat /\ IsFiniteSet(CookieRequests)

VARIABLES
  codes,    \* pendingCodes: code -> "unborn", "pending", "late" (past its TTL) or "gone"
  sessions, \* validSessions, by the code they were got for: "none", "live", "late", "gone"
  importing,\* request -> what it awaits, for which domains
  chromes,  \* requests whose headless Chrome is alive
  wire, answers, \* calls to the context, and their answers, under way
  jar,      \* domains with imported cookies in the context
  counts,   \* importedDomains and importedCounts: 0 not imported, 2 counted more than once
  direct    \* domains the commands have tracked

cookieVars == <<codes, sessions, importing, chromes, wire, answers, jar, counts, direct>>

NoImport == [does |-> "rests", by |-> "nobody", of |-> {}]
Codes == 1..MaxCodes

CookieTypeOK ==
  /\ codes \in [Codes -> {"unborn", "pending", "late", "gone"}]
  /\ sessions \in [Codes -> {"none", "live", "late", "gone"}]
  /\ \A r \in CookieRequests :
       /\ importing[r].does \in {"rests", "keys", "tasklist", "polls", "extracts", "adds", "removes"}
       /\ importing[r].by \in {"nobody", "picker", "command"} /\ importing[r].of \subseteq CookieDomains
  /\ chromes \subseteq CookieRequests
  /\ Len(wire) + Len(answers) <= Cardinality(CookieRequests)
  /\ jar \subseteq CookieDomains /\ direct \subseteq CookieDomains
  /\ counts \in [CookieDomains -> 0..2]

CookieInit ==
  /\ codes = [k \in Codes |-> "unborn"] /\ sessions = [k \in Codes |-> "none"]
  /\ importing = [r \in CookieRequests |-> NoImport] /\ chromes = {}
  /\ wire = <<>> /\ answers = <<>> /\ jar = {} /\ counts = [d \in CookieDomains |-> 0] /\ direct = {}

-----------------------------------------------------------------------------
(* Codes and sessions                                                        *)

Auth == <<codes, sessions>>
Work == <<importing, chromes, wire, answers, jar, counts, direct>>

\* cookie-import-browser without a domain makes a code and opens the picker.
GeneratePickerCode(k) ==
  /\ codes[k] = "unborn" /\ codes' = [codes EXCEPT ![k] = "pending"]
  /\ UNCHANGED sessions /\ UNCHANGED Work

\* GET /cookie-picker?code=: the code is spent, and worth a session in its time.
ExchangeCode(k) ==
  /\ codes[k] \in {"pending", "late"}
  /\ codes' = [codes EXCEPT ![k] = "gone"]
  /\ sessions' = IF codes[k] = "pending" THEN [sessions EXCEPT ![k] = "live"] ELSE sessions
  /\ UNCHANGED Work

TtlPasses(k) ==
  /\ \/ codes[k] = "pending" /\ codes' = [codes EXCEPT ![k] = "late"] /\ UNCHANGED sessions
     \/ sessions[k] = "live" /\ sessions' = [sessions EXCEPT ![k] = "late"] /\ UNCHANGED codes
  /\ UNCHANGED Work

\* hasActivePicker (the idle check) and isValidSession drop what is past its TTL.
DropLate(k) ==
  /\ \/ codes[k] = "late" /\ codes' = [codes EXCEPT ![k] = "gone"] /\ UNCHANGED sessions
     \/ sessions[k] = "late" /\ sessions' = [sessions EXCEPT ![k] = "gone"] /\ UNCHANGED codes
  /\ UNCHANGED Work

\* The routes behind the gate take a live session or the root's Bearer token.
Gate(by) == by = "session" => \E k \in Codes : sessions[k] = "live"

-----------------------------------------------------------------------------
(* The import                                                                *)

Rests(r) == importing' = [importing EXCEPT ![r] = NoImport]
Goes(r, does) == importing' = [importing EXCEPT ![r].does = does]
Jarred == <<wire, answers, jar, counts, direct>>

\* importCookies awaits the key of the database -- from the keychain, the secret service or
\* DPAPI, each with a timeout.
AsksForKey(r, by, ds) ==
  /\ importing[r] = NoImport /\ ds # {}
  /\ importing' = [importing EXCEPT ![r] = [does |-> "keys", by |-> by, of |-> ds]]
  /\ UNCHANGED Auth /\ UNCHANGED chromes /\ UNCHANGED Jarred

\* POST /import.
Import(r, by, ds) == Gate(by) /\ AsksForKey(r, "picker", ds)

\* `cookie-import-browser --domain`, of the page's own domain, or `--all`.
DirectImport(r, ds) == AsksForKey(r, "command", ds)

\* No key: the dialog is denied, the process fails, or its time is up.
KeyFails(r) ==
  /\ importing[r].does = "keys" /\ Rests(r)
  /\ UNCHANGED Auth /\ UNCHANGED chromes /\ UNCHANGED Jarred

\* Cookies have been decrypted for some of the domains: addCookies is called.
Adds(r, ds) ==
  /\ ds # {} /\ ds \subseteq importing[r].of
  /\ importing' = [importing EXCEPT ![r].does = "adds", ![r].of = ds]
  /\ wire' = Append(wire, [from |-> r, op |-> "add", of |-> ds])
  /\ UNCHANGED <<answers, jar, counts, direct>>

\* `cookie-import <file>` has nothing to wait for: its cookies are of the page's domain.
ImportFile(r, ds) ==
  /\ importing[r] = NoImport /\ ds # {}
  /\ importing' = [importing EXCEPT ![r] = [does |-> "adds", by |-> "command", of |-> ds]]
  /\ wire' = Append(wire, [from |-> r, op |-> "add", of |-> ds])
  /\ UNCHANGED Auth /\ UNCHANGED <<chromes, answers, jar, counts, direct>>

\* The database is read and decrypted at once.
Decrypts(r) ==
  /\ importing[r].does = "keys" /\ \E ds \in SUBSET importing[r].of : Adds(r, ds)
  /\ UNCHANGED Auth /\ UNCHANGED chromes

\* No readable database, no cookies, or none that decrypts; or no tab to add to.
FindsNoCookies(r) ==
  /\ importing[r].does = "keys" /\ Rests(r)
  /\ UNCHANGED Auth /\ UNCHANGED chromes /\ UNCHANGED Jarred

\* All failed, and they are of v20: importCookiesViaCdp asks whether the browser runs.
TriesCdp(r) ==
  /\ importing[r].does = "keys" /\ Goes(r, "tasklist")
  /\ UNCHANGED Auth /\ UNCHANGED chromes /\ UNCHANGED Jarred

BrowserRuns(r) ==
  /\ importing[r].does = "tasklist" /\ Rests(r)
  /\ UNCHANGED Auth /\ UNCHANGED chromes /\ UNCHANGED Jarred

LaunchesChrome(r) ==
  /\ importing[r].does = "tasklist" /\ chromes = {}
  /\ chromes' = chromes \cup {r} /\ Goes(r, "polls")
  /\ UNCHANGED Auth /\ UNCHANGED Jarred

FindsPage(r) ==
  /\ importing[r].does = "polls" /\ r \in chromes /\ Goes(r, "extracts")
  /\ UNCHANGED Auth /\ UNCHANGED chromes /\ UNCHANGED Jarred

\* No page within 15 s.
PollingTimesOut(r) ==
  /\ importing[r].does = "polls"
  /\ chromes' = chromes \ {r} /\ Rests(r)
  /\ UNCHANGED Auth /\ UNCHANGED Jarred

\* The finally of importCookiesViaCdp, after an answer, an error, a closed socket's timeout.
Extracts(r) ==
  /\ importing[r].does = "extracts"
  /\ chromes' = chromes \ {r}
  /\ \/ r \in chromes /\ \E ds \in SUBSET importing[r].of : Adds(r, ds)
     \/ Rests(r) /\ UNCHANGED Jarred
  /\ UNCHANGED Auth

\* Chrome exits by itself.
ChromeExits(r) ==
  /\ r \in chromes /\ chromes' = chromes \ {r}
  /\ UNCHANGED Auth /\ UNCHANGED importing /\ UNCHANGED Jarred

\* Mutant: what could not be added is counted.
MutAdded(r, ok) ==
  LET ds == importing[r].of
  IN IF importing[r].by # "command"
     THEN counts' = [d \in CookieDomains |-> IF d \in ds /\ counts[d] < 2 THEN counts[d] + 1 ELSE counts[d]]
          /\ UNCHANGED direct
     ELSE direct' = direct \cup ds /\ UNCHANGED counts

\* The answer to addCookies: what was imported is counted, or tracked by the command.
Added(r, ok) ==
  LET ds == importing[r].of
  IN IF ok /\ importing[r].by # "command"
     THEN counts' = [d \in CookieDomains |-> IF d \in ds /\ counts[d] < 2 THEN counts[d] + 1 ELSE counts[d]]
          /\ UNCHANGED direct
     ELSE direct' = (IF ok THEN direct \cup ds ELSE direct) /\ UNCHANGED counts

-----------------------------------------------------------------------------
(* Removing, and the context                                                 *)

ClearCall(r, d) == [from |-> r, op |-> "clear", of |-> {d}]

\* POST /remove: one clearCookies after the other.
RemoveDomains(r, by, ds) ==
  /\ importing[r] = NoImport /\ ds # {} /\ Gate(by)
  /\ \E d \in ds :
       /\ importing' = [importing EXCEPT ![r] = [does |-> "removes", by |-> "picker", of |-> ds \ {d}]]
       /\ wire' = Append(wire, ClearCall(r, d))
  /\ UNCHANGED Auth /\ UNCHANGED <<chromes, answers, jar, counts, direct>>

\* The browser carries out a call, or refuses it.
ContextDoes ==
  /\ wire # <<>>
  /\ \E ok \in BOOLEAN :
       /\ answers' = Append(answers, [call |-> Head(wire), ok |-> ok])
       /\ jar' = CASE ok /\ Head(wire).op = "add" -> jar \cup Head(wire).of
                   [] ok /\ Head(wire).op = "clear" -> jar \ Head(wire).of
                   [] OTHER -> jar
  /\ wire' = Tail(wire)
  /\ UNCHANGED Auth /\ UNCHANGED <<importing, chromes, counts, direct>>

\* The answer is handled: an import ends; a removal forgets the domain and goes on to the
\* next, or throws.
Answered ==
  LET a == Head(answers)
      r == a.call.from
      left == importing[r].of
  IN /\ answers # <<>> /\ answers' = Tail(answers)
     /\ IF a.call.op = "add" THEN Added(r, a.ok) /\ Rests(r) /\ UNCHANGED wire
        ELSE /\ counts' = [d \in CookieDomains |-> IF a.ok /\ d \in a.call.of THEN 0 ELSE counts[d]]
             /\ UNCHANGED direct
             /\ IF a.ok /\ left # {}
                THEN \E d \in left : /\ importing' = [importing EXCEPT ![r].of = left \ {d}]
                                     /\ wire' = Append(wire, ClearCall(r, d))
                ELSE Rests(r) /\ UNCHANGED wire
     /\ UNCHANGED Auth /\ UNCHANGED <<chromes, jar>>

CookieNext ==
  \/ ContextDoes \/ Answered
  \/ \E k \in Codes : GeneratePickerCode(k) \/ ExchangeCode(k) \/ TtlPasses(k) \/ DropLate(k)
  \/ \E r \in CookieRequests :
       \/ Decrypts(r) \/ KeyFails(r) \/ FindsNoCookies(r) \/ TriesCdp(r) \/ BrowserRuns(r) \/ LaunchesChrome(r)
       \/ FindsPage(r) \/ PollingTimesOut(r) \/ Extracts(r) \/ ChromeExits(r)
       \/ \E ds \in SUBSET CookieDomains :
            \/ DirectImport(r, ds) \/ ImportFile(r, ds)
            \/ \E by \in {"session", "bearer"} : Import(r, by, ds) \/ RemoveDomains(r, by, ds)

CookieSpec == CookieInit /\ [][CookieNext]_cookieVars

-----------------------------------------------------------------------------
(* Properties.                                                               *)

\* However imports and removals overlap and fail, once they are over /imported lists what
\* they have left in the browser -- no domain whose cookies were cleared or never added,
\* and every domain that has some, but for those of the command -- and no headless Chrome
\* is left on the user's profile.
ListingIsTrue ==
  (\A r \in CookieRequests : importing[r] = NoImport) =>
    /\ \A d \in CookieDomains : counts[d] > 0 => d \in jar
    /\ \A d \in jar : counts[d] > 0 \/ d \in direct
    /\ chromes = {}
=============================================================================
