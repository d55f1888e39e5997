----------------------------- MODULE Downloads -----------------------------
(* `download` and `scrape` on one page: fetches, navigations that turn into a    *)
(* download, and the files they leave.  Files without a given path are named     *)
(* after the millisecond; the content of a file is the URL it came from.         *)
EXTENDS Naturals, Sequences, FiniteSets, SequencesExt, Functions

CONSTANTS DownloadOps, Sources,  \* commands under way at once; URLs
          Unasked,    \* a download that the page starts of itself
          OutPaths,   \* paths and directories a caller may name
          NoPath,     \* no path given, or no file
          Limit,      \* scrape --limit
          MaxMillis, MaxDownloads  \* bounds of a behaviour

ASSUME DownloadAssumption == {Limit, MaxMillis, MaxDownloads} \subseteq Nat /\ NoPath \notin OutPaths

VARIABLES
  transfer,  \* command -> where it is, what it was asked and what it has
  result,    \* command -> the answer it gave last
  disk,      \* path -> content
  millis,    \* Date.now()
  downloads, \* commands started
  met        \* history: commands one of whose paths another one took as well, or whose wait
             \* for a download was not the only one that could end it

downloadVars == <<transfer, result, disk, millis, downloads, met>>

At(at) == [at |-> at, source |-> Unasked, out |-> NoPath, inline |-> FALSE, got |-> Unasked,
           temp |-> NoPath, list |-> <<>>, files |-> <<>>]
NoAnswer == [file |-> NoPath, inline |-> Unasked, asked |-> Unasked, manifest |-> <<>>, list |-> <<>>]

\* Names formed from the time, and the files of a scrape's directory.
Temp == <<"browse-nav-download", millis>>
Final == <<"browse-download", millis>>
ScrapeDir == <<"browse-scrape", millis>>
ItemFile(dir, i) == <<"item", dir, i>>
Manifest(dir) == <<"manifest.json", dir, 0>>

\* A caller names none of them.
Stamped(prefixes) == prefixes \X (0..MaxMillis)
ScrapeDirs == OutPaths \cup Stamped({"browse-scrape"})
ASSUME PathAssumption ==
  \A path \in OutPaths \cup {NoPath} :
    /\ path \notin Stamped({"browse-nav-download", "browse-download", "browse-scrape"})
    /\ path \notin {"item", "manifest.json"} \X ScrapeDirs \X (0..Limit)

DownloadTypeOK ==
  /\ \A o \in DownloadOps : /\ transfer[o].at \in {"idle", "fetch", "await", "failure", "save", "saved", "media", "item"}
                            /\ Len(transfer[o].files) <= Len(transfer[o].list)
                            /\ Len(transfer[o].list) <= Limit
  /\ millis \in 0..MaxMillis /\ downloads \in 0..MaxDownloads /\ met \subseteq DownloadOps

DownloadInit ==
  /\ transfer = [o \in DownloadOps |-> At("idle")] /\ result = [o \in DownloadOps |-> NoAnswer]
  /\ disk = <<>> /\ millis = 0 /\ downloads = 0 /\ met = {}

Put1(d, path, content) == [p \in DOMAIN d \cup {path} |-> IF p = path THEN content ELSE d[p]]
Unlink(d, path) == Restrict(d, DOMAIN d \ {path})

DownloadBegins(o) == transfer[o].at = "idle" /\ downloads < MaxDownloads /\ downloads' = downloads + 1
Becomes(o, how) == transfer' = [transfer EXCEPT ![o] = how]
Answer(o, r) == Becomes(o, At("idle")) /\ result' = [result EXCEPT ![o] = r]
\* Any error: the command answers it and what it had is lost.
Errs(o) == Answer(o, NoAnswer) /\ UNCHANGED <<millis, downloads, met>>

\* Those whose path it is already: they hold it, or told it to a caller.
Takers(path) == {o \in DownloadOps : transfer[o].temp = path \/ transfer[o].out = path \/ result[o].file = path}
Take(o, path) == met' = met \cup (IF Takers(path) \subseteq {o} THEN {} ELSE {o} \cup Takers(path))

-----------------------------------------------------------------------------
(* download.                                                                 *)

\* A direct fetch, or one in the page for a blob: URL.
Download(o, u, out, inline) ==
  /\ DownloadBegins(o)
  /\ Becomes(o, [At("fetch") EXCEPT !.source = u, !.out = out, !.inline = inline])
  /\ IF out = NoPath THEN met' = met \ {o}
     ELSE met' = (met \ {o}) \cup (IF Takers(out) \subseteq {o} THEN {} ELSE {o} \cup Takers(out))
  /\ result' = [result EXCEPT ![o] = NoAnswer]
  /\ UNCHANGED <<disk, millis>>

\* The end of every strategy: inline, or to the path given or made up now.
Deliver(o, content, files) ==
  LET path == IF transfer[o].out = NoPath THEN Final ELSE transfer[o].out
  IN IF transfer[o].inline
     THEN /\ Answer(o, [NoAnswer EXCEPT !.inline = content, !.asked = transfer[o].source]) /\ disk' = files /\ met' = met
     ELSE /\ Answer(o, [NoAnswer EXCEPT !.file = path, !.asked = transfer[o].source])
          /\ disk' = Put1(files, path, content) /\ Take(o, path)

Fetched(o) ==
  /\ transfer[o].at = "fetch" /\ Deliver(o, transfer[o].source, disk)
  /\ UNCHANGED <<millis, downloads>>

\* HTTP errors, time-outs, expired blobs, bodies that are too large, no download in a minute.
TransferFails(o) == transfer[o].at \in {"fetch", "await", "failure", "save", "media"} /\ Errs(o) /\ disk' = disk

\* --navigate: the wait for a download event begins before the navigation does.
DownloadByNavigation(o, u, out, inline) ==
  /\ DownloadBegins(o)
  /\ Becomes(o, [At("await") EXCEPT !.source = u, !.out = out, !.inline = inline])
  /\ LET others == {q \in DownloadOps \ {o} : transfer[q].at = "await"}
         takers == IF out = NoPath THEN {} ELSE Takers(out) \ {o}
     IN met' = (met \ {o}) \cup others \cup takers \cup (IF others \cup takers = {} THEN {} ELSE {o})
  /\ result' = [result EXCEPT ![o] = NoAnswer]
  /\ UNCHANGED <<disk, millis>>

\* The page emits `download`, for a navigation under way or of itself: every wait ends.
DownloadEvent(u) ==
  LET waiting == {o \in DownloadOps : transfer[o].at = "await"}
  IN /\ waiting # {} /\ u \in {transfer[o].source : o \in waiting} \cup {Unasked}
     /\ transfer' = [o \in DownloadOps |-> IF o \in waiting THEN [transfer[o] EXCEPT !.at = "failure", !.got = u]
                                           ELSE transfer[o]]
     /\ met' = met \cup (IF u = Unasked THEN waiting ELSE {})
     /\ UNCHANGED <<result, disk, millis, downloads>>

\* download.failure() is null: it is saved to a path of this millisecond, then read.
Completes(o) ==
  /\ transfer[o].at = "failure"
  /\ Becomes(o, [transfer[o] EXCEPT !.at = "save", !.temp = Temp]) /\ Take(o, Temp)
  /\ UNCHANGED <<result, disk, millis, downloads>>
Saves(o) ==
  /\ transfer[o].at = "save"
  /\ Becomes(o, [transfer[o] EXCEPT !.at = "saved"])
  /\ disk' = Put1(disk, transfer[o].temp, transfer[o].got)
  /\ UNCHANGED <<result, millis, downloads, met>>

\* Mutant: the file is renamed and the answer names it as it was.
MutMovesFile(o, path) ==
  /\ Answer(o, [NoAnswer EXCEPT !.file = transfer[o].temp, !.asked = transfer[o].source])
  /\ disk' = Put1(Unlink(disk, transfer[o].temp), path, disk[transfer[o].temp]) /\ Take(o, path)

\* Without a path of the caller's the temporary file gets its final name.
MovesFile(o, path) ==
  /\ Answer(o, [NoAnswer EXCEPT !.file = path, !.asked = transfer[o].source])
  /\ disk' = Put1(Unlink(disk, transfer[o].temp), path, disk[transfer[o].temp]) /\ Take(o, path)

SavedIsRead(o) ==
  LET t == transfer[o]
  IN /\ t.at = "saved"
     /\ CASE t.temp \notin DOMAIN disk -> Errs(o) /\ disk' = disk
          [] t.temp \in DOMAIN disk /\ (t.inline \/ t.out # NoPath) ->
               Deliver(o, disk[t.temp], Unlink(disk, t.temp))
          [] OTHER -> MovesFile(o, Final)
     /\ UNCHANGED <<millis, downloads>>

-----------------------------------------------------------------------------
(* scrape.                                                                   *)

Scrape(o, dir) ==
  LET d == IF dir = NoPath THEN ScrapeDir ELSE dir
  IN /\ DownloadBegins(o) /\ Becomes(o, [At("media") EXCEPT !.out = d])
     /\ met' = (met \ {o}) \cup (IF Takers(d) \subseteq {o} THEN {} ELSE {o} \cup Takers(d))
     /\ result' = [result EXCEPT ![o] = NoAnswer]
     /\ UNCHANGED <<disk, millis>>

\* Each URL once, in the order it was met, up to the limit.
Seen(urls, u) == IF u \in ToSet(urls) THEN urls ELSE Append(urls, u)
Firsts(found) ==
  LET upto[n \in 0..Len(found)] == IF n = 0 THEN <<>> ELSE Seen(upto[n - 1], found[n])
  IN upto
ToDownload(found) ==
  LET once == Firsts(found)[Len(found)]
  IN SubSeq(once, 1, IF Len(once) < Limit THEN Len(once) ELSE Limit)

\* The manifest is written after the last item; the answer repeats it.
ScrapeGoesOn(o, list, files, d) ==
  LET dir == transfer[o].out
  IN IF Len(files) = Len(list)
     THEN /\ disk' = Put1(d, Manifest(dir), files)
          /\ Answer(o, [NoAnswer EXCEPT !.file = dir, !.manifest = files, !.list = list])
     ELSE /\ disk' = d /\ result' = result
          /\ Becomes(o, [transfer[o] EXCEPT !.at = "item", !.list = list, !.files = files])

MediaFound(o, found) ==
  /\ transfer[o].at = "media" /\ ScrapeGoesOn(o, ToDownload(found), <<>>, disk)
  /\ UNCHANGED <<millis, downloads, met>>

\* One item: its file and its entry, numbered by its place among all; or an entry without a file.
ScrapeItem(o, succeeds) ==
  LET t == transfer[o]
      i == Len(t.files) + 1
      entry == [file |-> IF succeeds THEN ItemFile(t.out, i) ELSE NoPath, src |-> t.list[i]]
  IN /\ t.at = "item"
     /\ ScrapeGoesOn(o, t.list, Append(t.files, entry),
                     IF succeeds THEN Put1(disk, ItemFile(t.out, i), t.list[i]) ELSE disk)
     /\ UNCHANGED <<millis, downloads, met>>

Millisecond ==
  /\ millis < MaxMillis /\ millis' = millis + 1
  /\ UNCHANGED <<transfer, result, disk, downloads, met>>

DownloadNext ==
  \/ \E o \in DownloadOps :
       \/ \E u \in Sources, out \in OutPaths \cup {NoPath}, inline \in BOOLEAN :
            Download(o, u, out, inline) \/ DownloadByNavigation(o, u, out, inline)
       \/ Fetched(o) \/ TransferFails(o) \/ Completes(o) \/ Saves(o) \/ SavedIsRead(o)
       \/ \E dir \in OutPaths \cup {NoPath} : Scrape(o, dir)
       \/ \E found \in BoundedSeq(Sources, Limit + 1) : MediaFound(o, found)
       \/ \E succeeds \in BOOLEAN : ScrapeItem(o, succeeds)
  \/ \E u \in Sources \cup {Unasked} : DownloadEvent(u)
  \/ Millisecond

DownloadSpec == DownloadInit /\ [][DownloadNext]_downloadVars

-----------------------------------------------------------------------------
(* Property.                                                                 *)

\* What a command answered is what it left: the file that a download named, or
\* its inline data, is what it was asked for, and the directory of a scrape holds one file for every entry that has one,
\* with the content of the entry's source, every source once.  Only a command that met
\* another one -- on a path or within a millisecond, or while both waited for a download --
\* or a download of the page's own may find something else.  And no temporary file of a
\* navigation outlives its command.
DownloadsAreOwn ==
  /\ \A o \in DownloadOps \ met :
       LET r == result[o]
       IN /\ r.asked # Unasked =>
               IF r.file = NoPath THEN r.inline = r.asked
               ELSE r.file \in DOMAIN disk /\ disk[r.file] = r.asked
          /\ r.list # <<>> =>
               /\ disk[Manifest(r.file)] = r.manifest
               /\ [i \in DOMAIN r.manifest |-> r.manifest[i].src] = r.list /\ IsInjective(r.list)
               /\ \A e \in ToSet(r.manifest) : e.file # NoPath => disk[e.file] = e.src
  /\ \A m \in 0..millis :
       LET temp == <<"browse-nav-download", m>>
       IN temp \in DOMAIN disk => \E o \in DownloadOps : transfer[o].temp = temp
=============================================================================
