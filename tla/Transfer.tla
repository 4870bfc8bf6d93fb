------------------------------ MODULE Transfer ------------------------------
(***************************************************************************)
(* The resolution of share links in one worker: refresh the tokens, list   *)
(* the share, open a share session, list the account's files, copy what is *)
(* missing into the account and ask for the links of the copies.           *)
(*                                                                         *)
(* The resolves of a worker share one HTTP session and the global tokens.  *)
(* A request to the upstream service is sent by one action, which records  *)
(* in `via' what the session and the tokens were, and answered by another; *)
(* what it does to the account happens with the answer.  At phase "item" a *)
(* coroutine is between two awaits and nobody else runs (Turn).            *)
(***************************************************************************)
EXTENDS Naturals, Sequences, FiniteSets

CONSTANTS Accounts,    \* accounts that update_credentials may load
          Bare,        \* those whose record holds a cookie and no tokens
          Resolves,    \* calls of _resolve_link
          Action,      \* "l", "d" or "s" for each call
          Wait,        \* wait_for_transcoding for each call
          ShareOf,     \* the share each call asks for
          FilesOf,     \* the files of a share: records of name, size, kind
          Inside,      \* pairs of names, the first a substring of the second
          Old,         \* what the account may hold at the start
          ListPage,    \* files of an account the first listing shows
          SearchPage,  \* files the search for a copy shows
          StreamTypes, \* number of stream qualities that are tried
          Polls,       \* answers of taskquery that are waited for
          Rounds,      \* rounds of the wait for transcoding
          Profiles,    \* client profiles a transfer is tried with
          MaxFaults,   \* bound: failing answers and credential loads
          None

Kinds == {"video", "plain", "folder"}

\* Files of an account are told apart by their ids, and by name and copy.
Apart(files) ==
  \A f, g \in files : f.id = g.id \/ (f.name = g.name /\ f.copy = g.copy) => f = g

ASSUME TransferAssumption ==
  /\ None \notin Accounts /\ None \notin DOMAIN FilesOf /\ None \notin Resolves
  /\ Bare \subseteq Accounts
  /\ Action \in [Resolves -> {"l", "d", "s"}]
  /\ Wait \in [Resolves -> BOOLEAN]
  /\ ShareOf \in [Resolves -> DOMAIN FilesOf]
  /\ \A s \in DOMAIN FilesOf : \A i, j \in DOMAIN FilesOf[s] :
       i # j => FilesOf[s][i].name # FilesOf[s][j].name
  /\ \A s \in DOMAIN FilesOf : FilesOf[s] \in Seq({FilesOf[s][i] : i \in DOMAIN FilesOf[s]})
  /\ IsFiniteSet(UNION Old)
  /\ \A old \in Old :
       /\ Apart(old)
       /\ \A f \in old : f.id \in 1..Cardinality(UNION Old) /\ f.by \notin Resolves
  /\ {ListPage, SearchPage, StreamTypes, Polls, Rounds, Profiles} \subseteq Nat \ {0}
  /\ MaxFaults \in Nat

VARIABLES
  session,  \* the account whose cookies the shared client carries
  tsid,     \* its TSID cookie: the share it was set for
  js, bds,  \* the accounts the global JSTOKEN and BDSTOKEN are of
  dir,      \* the files below ROOT_PATH of each account
  root,     \* the accounts that have the directory ROOT_PATH
  tasks,    \* copies that are still under way upstream
  next,     \* the next fs_id
  res,      \* the calls of _resolve_link
  trouble,  \* history: what happened during each call that may spoil it
  faults    \* how much of the bound is used

globals == <<session, tsid, js, bds>>
drive == <<dir, root, tasks, next>>
vars == <<globals, drive, res, trouble, faults>>

NoVia == [acct |-> None, tsid |-> None, js |-> None]

New == [at |-> "new", via |-> NoVia, bds |-> None, tb |-> None, sess |-> None,
        known |-> {}, seen |-> [acct |-> None, upto |-> 0, how |-> "none"],
        i |-> 1, k |-> 1, made |-> FALSE, left |-> 0, own |-> None, out |-> <<>>]

Init ==
  /\ session \in Accounts \ Bare   \* loaded with its tokens
  /\ tsid = None
  /\ js = session
  /\ bds = session
  /\ \E old \in Old, has \in BOOLEAN :
       /\ has \/ old = {}
       /\ root = IF has THEN Accounts ELSE Accounts \ {session}
       /\ dir = [a \in Accounts |-> IF a = session THEN old ELSE {}]
  /\ tasks = {}
  /\ next = Cardinality(UNION Old) + 1
  /\ res = [r \in Resolves |-> New]
  /\ trouble = [r \in Resolves |-> {}]
  /\ faults = 0

-----------------------------------------------------------------------------
(* Requests, answers and what can go wrong *)

\* What a transfer that is sent now carries, and what matters of any other
\* request.
Via == [acct |-> session, tsid |-> tsid, js |-> js]
Cookies == [NoVia EXCEPT !.acct = session]

\* Between two awaits: at the next file, or about to return.
Chain == {"item", "over", "failed"}
Turn(r) == \A q \in Resolves \ {r} : res[q].at \notin Chain
At(r, phase) == res[r].at = phase /\ Turn(r)
Become(r, m) == res' = [res EXCEPT ![r] = m]
Active == {q \in Resolves : res[q].at \notin {"new", "gone"}}

Item(r) == FilesOf[ShareOf[r]][res[r].i]
More(r) == res[r].i <= Len(FilesOf[ShareOf[r]])

\* Trouble of r itself, and of the others that are on their way.
Note(r, mine, theirs) ==
  trouble' = [q \in Resolves |->
                trouble[q] \union (IF q = r THEN mine
                                   ELSE IF q \in Active THEN theirs ELSE {})]

Fault(free) == /\ free \/ faults < MaxFaults
               /\ faults' = IF free THEN faults ELSE faults + 1

\* An answer to r fails: by a fault, or because its session is another one.
Spoilt(r) == trouble[r] \intersect {"switch", "stomped"} # {}
Fails(r, free) == /\ Fault(free)
                  /\ Note(r, IF free THEN {} ELSE {"fault"}, {})
Answers == UNCHANGED <<faults, trouble>>
Calm == Answers /\ UNCHANGED <<globals, drive>>

\* The newest n files of a directory.
Newest(files, n) == {f \in files : Cardinality({g \in files : g.id > f.id}) < n}

\* The names of a copy and of a share's file contain one another.
Alike(f, name) == /\ f.copy = 0
                  /\ f.name = name \/ {<<f.name, name>>, <<name, f.name>>}
                                        \intersect Inside # {}

\* The file that a copy into account a becomes (ondup = newcopy).
CopyOf(a, item, r) ==
  [id |-> next, name |-> item.name, size |-> item.size, by |-> r,
   copy |-> CHOOSE n \in 0..Cardinality(dir[a]) :
              /\ \A f \in dir[a] : f.name = item.name => f.copy # n
              /\ \A m \in 0..(n - 1) : \E f \in dir[a] : f.name = item.name /\ f.copy = m]

Store(a, f) == /\ dir' = [dir EXCEPT ![a] = @ \union {f}]
               /\ next' = next + 1

-----------------------------------------------------------------------------
(* refresh_account_tokens and the requests before the loop over the files *)

Start(r) ==
  /\ At(r, "new")
  /\ Become(r, [New EXCEPT !.at = "refresh", !.via = Cookies])
  /\ IF Active = {} THEN UNCHANGED trouble ELSE Note(r, {"overlap"}, {"overlap"})
  /\ UNCHANGED <<globals, drive, faults>>

\* Mutant: the jsToken stays what it was.
RefreshKeeping(r) ==
  /\ bds' = res[r].via.acct
  /\ Answers
  /\ UNCHANGED <<session, tsid, js>>

\* The page of the account that was asked arrives, with or without a jsToken:
\* the globals become those of that account, whatever the session is by now.
Refresh(r) ==
  \E whole \in BOOLEAN :
    LET a == res[r].via.acct
    IN /\ bds' = a
       /\ js' = IF whole THEN a ELSE js
       /\ Fault(whole)
       /\ Note(r, IF whole THEN {} ELSE {"fault"},
               IF a = session THEN {} ELSE {"stomped"})
       /\ UNCHANGED <<session, tsid>>

\* The call ends; only what it saw and answered is kept.
Ended(m, phase, out) == [New EXCEPT !.at = phase, !.seen = m.seen, !.out = out]

GiveUp(r) ==
  /\ Fails(r, FALSE)
  /\ Become(r, Ended(res[r], "failed", <<>>))
  /\ UNCHANGED globals

Refreshed(r) ==
  /\ At(r, "refresh")
  /\ \/ /\ Refresh(r)
        /\ Become(r, [res[r] EXCEPT !.at = "session", !.via = NoVia, !.bds = res[r].via.acct])
     \/ GiveUp(r)
  /\ UNCHANGED drive

\* What the call reports of one file: of what it found in the account, the
\* error, whether a stream is ready, and the file its link leads to.
Result(item, own, error) ==
  [item |-> item, own |-> own, error |-> error, ready |-> FALSE, link |-> None]
NoOwn == [id |-> 0, name |-> None, copy |-> 0, how |-> "none"]

Listing(r) ==
  LET files == FilesOf[ShareOf[r]]
  IN [i \in DOMAIN files |->
       Result(files[i], NoOwn, IF files[i].kind = "folder" THEN "folder" ELSE "none")]

\* Mutant: randsk is used as sekey and not set as the TSID cookie.
SessionOpenedBare(r) ==
  /\ At(r, "session")
  /\ Become(r, [res[r] EXCEPT !.at = "prelist", !.sess = ShareOf[r], !.via = Cookies])
  /\ Calm

\* The share is listed, which ends the call when it fails, and its session is
\* opened: randsk becomes the TSID cookie of the shared session and this call's
\* sekey; without one the call goes on all the same.
SessionOpened(r) ==
  /\ At(r, "session")
  /\ \/ GiveUp(r)
     \/ \E got \in BOOLEAN :
          /\ Fails(r, got)
          /\ tsid' = IF got THEN ShareOf[r] ELSE tsid
          /\ UNCHANGED <<session, js, bds>>
          /\ Become(r, IF Action[r] = "l" THEN Ended(res[r], "over", Listing(r))
                       ELSE [res[r] EXCEPT !.at = "prelist", !.via = Cookies,
                                           !.sess = IF got THEN ShareOf[r] ELSE None])
  /\ UNCHANGED drive

\* The listing of the account "to prevent duplication".
PreListed(r) ==
  /\ At(r, "prelist")
  /\ LET a    == res[r].via.acct
         page == Newest(dir[a], ListPage)
         Seen(how) == [acct |-> a, upto |-> next, how |-> how]
     IN \/ /\ Become(r, [res[r] EXCEPT !.at = "item", !.known = page,
                           !.seen = Seen(IF page = dir[a] THEN "whole" ELSE "cut")])
           /\ Answers
        \/ /\ Become(r, [res[r] EXCEPT !.at = "item", !.seen = Seen("failed")])
           /\ Fails(r, Spoilt(r))
  /\ UNCHANGED <<globals, drive>>

-----------------------------------------------------------------------------
(* _process_single_file_metadata: the loop over the files of the share *)

\* The file is done: on to the next one.
Done(m, result) ==
  [m EXCEPT !.at = "item", !.i = @ + 1, !.k = 1, !.made = FALSE, !.left = 0,
            !.own = None, !.via = NoVia, !.tb = None, !.out = Append(@, result)]

FileFails(r, error) == Become(r, Done(res[r], Result(Item(r), NoOwn, error)))

\* The file is in the account, as f.  Videos of a stream call are probed.
Have(r, f, how) ==
  LET own == [id |-> f.id, name |-> f.name, copy |-> f.copy, how |-> how]
  IN Become(r, IF Action[r] = "s" /\ Item(r).kind = "video"
               THEN [res[r] EXCEPT !.at = "stream", !.own = own, !.k = 1, !.tb = None,
                                            !.made = FALSE, !.via = NoVia]
               ELSE Done(res[r], Result(Item(r), own, "none")))

\* Mutant: a file of the same name is taken for the share's file.
KnownByName(r) == {f \in res[r].known : f.copy = 0 /\ f.name = Item(r).name}

\* The file of that name and size that the listing showed.
Known(r) == {f \in res[r].known :
               f.copy = 0 /\ f.name = Item(r).name /\ f.size = Item(r).size}

TakeFolder(r) ==
  /\ At(r, "item") /\ More(r)
  /\ Item(r).kind = "folder"
  /\ FileFails(r, "folder")
  /\ Calm

TakeKnown(r) ==
  /\ At(r, "item") /\ More(r)
  /\ Item(r).kind # "folder"
  /\ \E f \in Known(r) : Have(r, f, "known")
  /\ Calm

TakeNew(r) ==
  /\ At(r, "item") /\ More(r)
  /\ Item(r).kind # "folder"
  /\ Known(r) = {}
  /\ Become(r, [res[r] EXCEPT !.at = "transfer", !.tb = res[r].bds, !.via = Via])
  /\ Calm

-----------------------------------------------------------------------------
(* transfer_shared_file and wait_for_transfer *)

\* The service copies only for tokens of the session's account and a sekey
\* that is the session's TSID.
Tokened(r) == /\ res[r].via.js = res[r].via.acct
              /\ res[r].tb = res[r].via.acct
Accepted(r) == /\ Tokened(r)
               /\ res[r].sess # None
               /\ res[r].via.tsid = res[r].sess
Rooted(r) == res[r].via.acct \in root

Search(r) ==
  Become(r, [res[r] EXCEPT !.at = "search", !.k = 1, !.left = 0, !.tb = None, !.made = FALSE,
                           !.via = Cookies])

\* A copy that cannot keep its name will not be found by that name.
Clash(f) == IF f.copy = 0 THEN {} ELSE {"clash"}

\* errno 0, with or without the copy in extra.list.
Copied(r) ==
  /\ At(r, "transfer")
  /\ Accepted(r) /\ Rooted(r)
  /\ LET a == res[r].via.acct
         f == CopyOf(a, Item(r), r)
     IN /\ Store(a, f)
        /\ \/ Have(r, f, "named") /\ UNCHANGED trouble
           \/ Search(r) /\ Note(r, Clash(f), {})
  /\ UNCHANGED <<globals, root, tasks, faults>>

\* errno 0 with a task id.
Queued(r) ==
  /\ At(r, "transfer")
  /\ Accepted(r) /\ Rooted(r)
  /\ tasks' = tasks \union {[acct |-> res[r].via.acct, item |-> Item(r), by |-> r]}
  /\ Become(r, [res[r] EXCEPT !.at = "task", !.left = Polls, !.k = 1, !.tb = None,
                              !.made = FALSE, !.via = NoVia])
  /\ Answers
  /\ UNCHANGED <<globals, dir, root, next>>

\* errno 4, which counts as success: nothing was copied.
Claimed(r) ==
  /\ At(r, "transfer")
  /\ Accepted(r)
  /\ Fails(r, FALSE)
  /\ Search(r)
  /\ UNCHANGED <<globals, drive>>

\* errno 2: the directory is made and the copy tried once more.
NoRoot(r) ==
  /\ At(r, "transfer")
  /\ Accepted(r) /\ ~Rooted(r)
  /\ IF res[r].made THEN FileFails(r, "transfer")
     ELSE Become(r, [res[r] EXCEPT !.at = "mkdir", !.via = Cookies])
  /\ Calm

\* errno 400810, 400141 or -6: a pause and a refresh, whether there is another
\* profile or not.  The service may ask for verification in any case.
Refused(r) ==
  /\ At(r, "transfer")
  /\ Become(r, [res[r] EXCEPT !.at = "pause", !.via = NoVia])
  /\ Note(r, IF res[r].k = Profiles /\ Accepted(r) THEN {"refused"} ELSE {}, {})
  /\ UNCHANGED <<globals, drive, faults>>

\* Mutant: an answer that does not come is taken for a refusal.
DisruptedRetried(r) ==
  /\ At(r, "transfer")
  /\ Accepted(r) /\ Rooted(r)
  /\ res[r].k < Profiles
  /\ Store(res[r].via.acct, CopyOf(res[r].via.acct, Item(r), r))
  /\ Fails(r, FALSE)
  /\ Become(r, [res[r] EXCEPT !.at = "pause", !.via = NoVia])
  /\ UNCHANGED <<globals, root, tasks>>

\* No answer (errno -1), 12 or another one: the file fails, copied or not.
Disrupted(r) ==
  /\ At(r, "transfer")
  /\ \/ Accepted(r) /\ Rooted(r) /\ Store(res[r].via.acct, CopyOf(res[r].via.acct, Item(r), r))
     \/ UNCHANGED <<dir, next>>
  /\ Fails(r, ~Accepted(r))
  /\ FileFails(r, "transfer")
  /\ UNCHANGED <<globals, root, tasks>>

\* The pause after a refusal is over.
Resume(r) ==
  /\ At(r, "pause")
  /\ Become(r, [res[r] EXCEPT !.at = "again", !.via = Cookies])
  /\ Calm

\* Mutant: a profile that is refused is followed by another without end.
AgainWithoutEnd(r) ==
  /\ At(r, "again")
  /\ Refresh(r)
  /\ Become(r, [res[r] EXCEPT !.at = "transfer", !.k = @ + 1, !.tb = bds', !.via = Via'])
  /\ UNCHANGED drive

\* The refresh after a refusal, which reads the global BDSTOKEN back and raises
\* when it fails: then comes the next profile, and after the last one the file
\* fails.
Again(r) ==
  /\ At(r, "again")
  /\ \/ /\ Refresh(r)
        /\ IF res[r].k < Profiles
           THEN Become(r, [res[r] EXCEPT !.at = "transfer", !.k = @ + 1, !.tb = bds', !.via = Via'])
           ELSE FileFails(r, "refused")
     \/ /\ Fails(r, FALSE)
        /\ FileFails(r, "transfer")
        /\ UNCHANGED globals
  /\ UNCHANGED drive

\* The service finishes a copy.
TaskDone(t) ==
  /\ tasks' = tasks \ {t}
  /\ LET f == CopyOf(t.acct, t.item, t.by)
     IN Store(t.acct, f) /\ Note(t.by, IF t.by \in Active THEN Clash(f) ELSE {}, {"overlap"})
  /\ UNCHANGED <<globals, root, res, faults>>

Running(r) == \E t \in tasks : t.by = r /\ t.item = Item(r)

\* Mutant: the answers of taskquery are not counted.
PollForEver(r) ==
  /\ At(r, "task")
  /\ IF Running(r) THEN UNCHANGED res ELSE Search(r)
  /\ Calm

\* An answer of taskquery: done, still running, failed or none at all.  A task
\* that failed with errno 0 passes for a copy that was made.
Poll(r) ==
  /\ At(r, "task")
  /\ \/ /\ ~Running(r)
        /\ Search(r)
        /\ Answers
        /\ UNCHANGED tasks
     \/ /\ Running(r)
        /\ UNCHANGED tasks
        /\ IF res[r].left > 1
           THEN Become(r, [res[r] EXCEPT !.left = @ - 1]) /\ Answers
           ELSE FileFails(r, "transfer") /\ Note(r, {"fault"}, {}) /\ UNCHANGED faults
     \/ /\ Fails(r, Spoilt(r))
        /\ FileFails(r, "transfer")
        /\ tasks' \in {tasks, {t \in tasks : t.by # r}}
     \/ /\ Running(r)
        /\ Fails(r, FALSE)
        /\ Search(r)
        /\ tasks' = {t \in tasks : t.by # r}
  /\ UNCHANGED <<globals, dir, root, next>>

\* The directory is there: a second transfer, with the global BDSTOKEN.
RootMade(r) ==
  /\ At(r, "mkdir")
  /\ \/ /\ root' = root \union {res[r].via.acct}
        /\ Become(r, [res[r] EXCEPT !.at = "transfer", !.k = 1, !.made = TRUE,
                                    !.tb = bds, !.via = Via])
        /\ Answers
     \/ /\ Fails(r, Spoilt(r))
        /\ FileFails(r, "transfer")
        /\ UNCHANGED root
  /\ UNCHANGED <<globals, dir, tasks, next>>

\* The copy is looked for by name among the newest files.
Searched(r) ==
  /\ At(r, "search")
  /\ LET like == {f \in Newest(dir[res[r].via.acct], SearchPage) :
                    Alike(f, Item(r).name)}
     IN \/ /\ \E f \in like : (\A g \in like : g.id <= f.id) /\ Have(r, f, "search")
           /\ Answers
        \/ /\ like = {}
           /\ FileFails(r, "lost")
           /\ Answers
        \/ /\ FileFails(r, "lost")
           /\ Fails(r, Spoilt(r))
  /\ UNCHANGED <<globals, drive>>

-----------------------------------------------------------------------------
(* The streams of a video: a pass over the qualities, and the wait *)

\* What a pass over the qualities comes to: the first ready stream or fatal
\* error ends it, and the last unknown error stays when nothing follows.
Pass(answers) ==
  LET decisive == {i \in DOMAIN answers : answers[i] \in {"ready", "fatal"}}
  IN IF decisive # {}
     THEN answers[CHOOSE i \in decisive : \A j \in decisive : i <= j]
     ELSE IF \A i \in DOMAIN answers : answers[i] = "coding" THEN "coding" ELSE "unknown"

Stream(r, error) ==
  Become(r, Done(res[r], [Result(Item(r), res[r].own, error) EXCEPT !.ready = error = "none"]))

Scan(r) ==
  /\ At(r, "stream")
  /\ \E answers \in [1..StreamTypes -> {"ready", "coding", "fatal", "unknown"}] :
       LET outcome == Pass(answers)
       IN IF outcome = "coding" /\ Wait[r]
          THEN Become(r, [res[r] EXCEPT !.at = "recode", !.left = Rounds])
          ELSE Stream(r, CASE outcome = "ready" -> "none" [] outcome = "coding" -> "coding"
                         [] OTHER -> "stream")
  /\ Calm

\* A round of the wait: some quality is ready, or there is another round.
Rescan(r) ==
  /\ At(r, "recode")
  /\ \/ Stream(r, "none")
     \/ res[r].left > 1 /\ Become(r, [res[r] EXCEPT !.left = @ - 1])
     \/ res[r].left = 1 /\ Stream(r, "coding")
  /\ Calm

-----------------------------------------------------------------------------
(* The links: filemetas by id, then locatedownload by path *)

\* The results that still count.
Good(out) == {i \in DOMAIN out : out[i].error = "none"}
Content(f) == [name |-> f.name, size |-> f.size]

Finish(r) ==
  /\ At(r, "item") /\ ~More(r)
  /\ Become(r, IF Good(res[r].out) = {} THEN Ended(res[r], "over", res[r].out)
               ELSE [res[r] EXCEPT !.at = "metas", !.via = Cookies, !.known = {},
                                        !.sess = None, !.bds = None])
  /\ Calm

\* The dlinks that come are those of files of the account that was asked.
Metas(r) ==
  /\ At(r, "metas")
  /\ LET out  == res[r].out
         File(i) == {f \in dir[res[r].via.acct] : f.id = out[i].own.id}
         there == {i \in Good(out) : File(i) # {}}
     IN \E got \in SUBSET there :
          LET linked == [i \in DOMAIN out |->
                          IF i \in got
                          THEN [out[i] EXCEPT !.link = Content(CHOOSE f \in File(i) : TRUE)]
                          ELSE IF i \in Good(out) /\ Action[r] = "d"
                          THEN [out[i] EXCEPT !.error = "nolink"] ELSE out[i]]
          IN /\ Fails(r, got = there \/ Spoilt(r))
             /\ Become(r, IF Good(linked) = {} THEN Ended(res[r], "over", linked)
                          ELSE [res[r] EXCEPT !.at = "locate", !.out = linked, !.via = Cookies])
  /\ UNCHANGED <<globals, drive>>

\* All files at once; a mirror replaces the link, by what is at the path.
Locate(r) ==
  /\ At(r, "locate")
  /\ LET out  == res[r].out
         File(i) == {f \in dir[res[r].via.acct] :
                       f.name = out[i].own.name /\ f.copy = out[i].own.copy}
     IN \E got \in SUBSET {i \in Good(out) : File(i) # {}} :
          Become(r, Ended(res[r], "over",
            [i \in DOMAIN out |->
               IF i \in got THEN [out[i] EXCEPT !.link = Content(CHOOSE f \in File(i) : TRUE)]
               ELSE out[i]]))
  /\ Calm

\* The call returns its answer, which is kept until here.
Return(r) ==
  /\ res[r].at \in {"over", "failed"}
  /\ Become(r, [New EXCEPT !.at = "gone", !.seen = res[r].seen])
  /\ trouble' = [trouble EXCEPT ![r] = {}]
  /\ UNCHANGED <<globals, drive, faults>>

-----------------------------------------------------------------------------
(* What happens to the worker meanwhile *)

\* update_credentials, by a reload of the same account or by another one: the
\* cookies are replaced, tokens only by tokens.
Load(a) ==
  /\ \A q \in Resolves : res[q].at \notin Chain
  /\ Fault(FALSE)
  /\ trouble' = [q \in Resolves |->
                   trouble[q] \union (IF q \in Active THEN {"switch"} ELSE {})]
  /\ session' = a
  /\ tsid' = None
  /\ js' = IF a \in Bare THEN js ELSE a
  /\ bds' = IF a \in Bare THEN bds ELSE a
  /\ UNCHANGED <<drive, res>>

-----------------------------------------------------------------------------

Step(r) ==
  \/ Refreshed(r) \/ SessionOpened(r) \/ PreListed(r)
  \/ TakeFolder(r) \/ TakeKnown(r) \/ TakeNew(r)
  \/ Copied(r) \/ Queued(r) \/ Claimed(r) \/ NoRoot(r) \/ Refused(r) \/ Disrupted(r)
  \/ Resume(r) \/ Again(r) \/ Poll(r) \/ RootMade(r) \/ Searched(r)
  \/ Scan(r) \/ Rescan(r) \/ Finish(r) \/ Metas(r) \/ Locate(r) \/ Return(r)

Next ==
  \/ \E r \in Resolves : Start(r) \/ Step(r)
  \/ \E t \in tasks : TaskDone(t)
  \/ \E a \in Accounts : Load(a)

Spec == Init /\ [][Next]_vars

\* Answers come, or a request times out, and coroutines go on.
FairSpec == Spec /\ \A r \in Resolves : WF_vars(Step(r))

-----------------------------------------------------------------------------
(* Properties *)

Phases == {"new", "refresh", "session", "prelist", "item", "transfer", "task",
           "pause", "again", "mkdir", "search", "stream", "recode", "metas", "locate",
           "over", "failed", "gone"}

\* The state is well formed: every call is in a phase of the code, has tried at
\* most the three profiles, and has a result for each file it is done with.
TypeOK ==
  /\ session \in Accounts /\ {js, bds} \subseteq Accounts
  /\ tsid \in DOMAIN FilesOf \union {None}
  /\ root \subseteq Accounts
  /\ \A a \in Accounts : \A f \in dir[a] : f.id \in 1..(next - 1)
  /\ \A r \in Resolves :
       /\ res[r].at \in Phases
       /\ res[r].k \in 1..Profiles
       /\ res[r].at \notin {"over", "failed", "gone"} => Len(res[r].out) = res[r].i - 1
       /\ res[r].at = "over" => Len(res[r].out) = Len(FilesOf[ShareOf[r]])
  /\ faults \in 0..MaxFaults

Copies(f, g) == f.name = g.name /\ f.size = g.size /\ f.id < g.id

\* The account does not fill up with copies of one file: when a call put a
\* second copy there, its listing was cut, failed or was another account's, or
\* the first copy came from somebody else after that listing, or the first one
\* is not under its own name, where the listing cannot recognise it.
DuplicateExplained ==
  \A a \in Accounts : \A f, g \in dir[a] :
    Copies(f, g) /\ g.by \in Resolves =>
      LET seen == res[g.by].seen
      IN \/ seen.acct # a \/ seen.how # "whole"
         \/ f.id >= seen.upto /\ f.by # g.by
         \/ f.copy # 0

\* A call that is alone, whose session nobody touches and to which no answer
\* fails ends with the right link for every file, whatever the share and the
\* account's files are: but for a file whose transfer the service refuses with
\* every profile, to ask for verification, and unless a copy that could not keep
\* its name was left to the search or a task outlasted the wait.
AloneSucceeds ==
  \A r \in Resolves :
    res[r].at \in {"over", "failed"} /\ trouble[r] \subseteq {"refused"} /\ Action[r] = "d" =>
      /\ res[r].at = "over"
      /\ \A i \in DOMAIN res[r].out :
           LET x == res[r].out[i]
           IN x.item.kind # "folder" =>
                \/ x.error = "none" /\ x.link = Content(x.item)
                \/ x.error = "refused" /\ "refused" \in trouble[r]

\* A link never leads to another file than the share's, except through the
\* search by name, when the name was taken, others copied too, or an answer
\* failed, that of a copy which did not succeed and passed for one included; or
\* when the session moved to another account on the way.
ServedIsAsked ==
  \A r \in Resolves : \A i \in DOMAIN res[r].out :
    LET x == res[r].out[i]
    IN x.link \notin {None, Content(x.item)} =>
         \/ "switch" \in trouble[r]
         \/ x.own.how = "search" /\ trouble[r] \intersect {"clash", "overlap", "fault"} # {}

\* A transfer carries the tokens of the session it is sent in, unless the
\* account was switched during the call, another call's refresh answered for
\* the account before, or its own refresh brought no jsToken.
TokensOfTheSession ==
  \A r \in Resolves :
    res[r].at = "transfer" /\ ~Tokened(r) =>
      trouble[r] \intersect {"switch", "stomped", "fault"} # {}

\* Every call comes to an end.
ResolveEnds ==
  \A r \in Resolves : res[r].at = "refresh" ~> res[r].at = "gone"
=============================================================================
