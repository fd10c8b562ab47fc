----------------------------- MODULE Workspaces -----------------------------
(***************************************************************************)
(* The catalogue of the desktop application: workspaces (where a run        *)
(* executes), projects (what the sidebar shows) and the folders and         *)
(* repositories behind them; workspace-service.ts, project-service.ts and    *)
(* the handlers of ipc-router.ts that join them.                            *)
(*                                                                         *)
(* Every handler is one action up to its first await.  Cloning and       *)
(* associating wait for git with what they read before: their rest is an    *)
(* action of its own over a record of `calls'.  Between the two anything    *)
(* may happen to the rows, and the application may stop.                    *)
(*                                                                         *)
(* Rows carry numbers in the order they were made, so that the oldest is    *)
(* the smallest; 0 stands for no row.  Names, timestamps, archiving, default    *)
(* branches and everything read only to be shown are left out, and whether  *)
(* a loop is running, for which a workspace may refuse to be removed.       *)
(***************************************************************************)
EXTENDS Naturals, FiniteSets, FiniteSetsExt

CONSTANTS
    Path,           \* spellings of folders
    RealPath,       \* what the file system resolves each spelling to
    NoPath,
    Repo, NoRepo,
    Remote,         \* environments of workspaces whose code is elsewhere
    Call,           \* handlers that may be waiting at the same time
    MaxWorkspaces,  \* workspaces ever made, those of the initial state included
    MaxProjects,    \* projects ever made
    Old,            \* workspaces an earlier version may have left, without identity
    Removable       \* folders on a drive that may be taken away

ASSUME WorkspacesAssumption ==
    /\ NoPath \notin Path /\ NoRepo \notin Repo
    /\ RealPath \in [Path -> Path]
    /\ \A p \in Path : RealPath[RealPath[p]] = RealPath[p]
    /\ MaxWorkspaces \in Nat /\ MaxProjects \in Nat
    /\ Remote \subseteq {"github", "cloud"}
    /\ Old \in 0..MaxWorkspaces /\ Removable \subseteq Path

VARIABLES
    disk,           \* what each folder is: nothing, a plain folder, a checkout
    away,           \* folders on a drive that is not there
    workspaces, madeWorkspaces,
    projects, madeProjects,
    calls,          \* the handlers that are waiting, with what they have read
    unreconciled,   \* workspaces the start has still to look at
    up              \* the application runs

rows == <<workspaces, madeWorkspaces, projects, madeProjects>>
catalogueVars == <<disk, away, rows, calls, unreconciled, up>>

Folder == {RealPath[p] : p \in Path}
Absent == "absent"
Plain == "plain"
Gone == [gone |-> TRUE]

\* A folder without a checkout shows no repository.
ASSUME ContentAssumption == {Absent, Plain} \cap Repo = {}

Environment == {"local", "conversation"} \cup Remote
WorkspaceRow == [env : Environment, path : Path \cup {NoPath}, key : Path \cup {NoPath},
                 repo : Repo \cup {NoRepo}]
ProjectRow == [ws : 0..MaxWorkspaces, repo : Repo \cup {NoRepo}]

Idle == [op |-> "idle", project |-> 0, path |-> NoPath, repo |-> NoRepo]
CallRecord == [op : {"idle", "cloning", "cloned", "checking"}, project : 0..MaxProjects,
               path : Path \cup {NoPath}, repo : Repo \cup {NoRepo}]

CatalogueTypeOK ==
    /\ disk \in [Folder -> {Absent, Plain} \cup Repo]
    /\ away \subseteq Folder
    /\ workspaces \in [1..MaxWorkspaces -> WorkspaceRow \cup {Gone}]
    /\ madeWorkspaces \in 0..MaxWorkspaces
    /\ projects \in [1..MaxProjects -> ProjectRow \cup {Gone}]
    /\ madeProjects \in 0..MaxProjects
    /\ calls \in [Call -> CallRecord]
    /\ unreconciled \subseteq 1..MaxWorkspaces
    /\ up \in BOOLEAN

-----------------------------------------------------------------------------
(* Reading the rows                                                        *)

Workspace == {w \in 1..MaxWorkspaces : workspaces[w] # Gone}
Project == {p \in 1..MaxProjects : projects[p] # Gone}

Oldest(ids) == IF ids = {} THEN 0 ELSE Min(ids)

Exists(path) == RealPath[path] \notin away /\ disk[RealPath[path]] # Absent

\* folderKey: the real path when the file system can say it, the spelling when not.
Key(path) == IF Exists(path) THEN RealPath[path] ELSE path

ByKey(key) == Oldest({w \in Workspace : workspaces[w].key = key})
ByRepository(repo) ==
    IF repo = NoRepo THEN 0 ELSE Oldest({p \in Project : projects[p].repo = repo})
ByWorkspace(w) == Oldest({p \in Project : projects[p].ws = w})

\* assessPreflight: a declared repository against what git says of the folder.
Blocks(path, repo) == ~Exists(path) \/ (repo # NoRepo /\ disk[RealPath[path]] # repo)

-----------------------------------------------------------------------------
(* Writing them                                                            *)

AddWorkspace(row) ==
    /\ madeWorkspaces < MaxWorkspaces
    /\ madeWorkspaces' = madeWorkspaces + 1
    /\ workspaces' = [workspaces EXCEPT ![madeWorkspaces + 1] = row]

AddProject(row) ==
    /\ madeProjects < MaxProjects
    /\ madeProjects' = madeProjects + 1
    /\ projects' = [projects EXCEPT ![madeProjects + 1] = row]

LocalRow(path, repo) == [env |-> "local", path |-> path, key |-> Key(path), repo |-> repo]
RemoteRow(env, repo) == [env |-> env, path |-> NoPath, key |-> NoPath, repo |-> repo]
FolderProject(w) == [ws |-> w, repo |-> NoRepo]

\* ensureProjectFor: the project of workspace w, made when it has none, and the
\* repository of the workspace's row copied to it when no project claims it.
EnsureProject(w, row) ==
    LET links(p, repo) == repo = NoRepo /\ row.repo # NoRepo /\ ByRepository(row.repo) = 0
        linked == [ws |-> w, repo |-> row.repo]
        owner == ByWorkspace(w)
    IN  IF owner = 0
        THEN AddProject(IF links(0, NoRepo) THEN linked ELSE FolderProject(w))
        ELSE /\ projects' = IF links(owner, projects[owner].repo)
                            THEN [projects EXCEPT ![owner] = linked] ELSE projects
             /\ UNCHANGED madeProjects

SetWorkspaceOf(p, w) == projects' = [projects EXCEPT ![p].ws = w]

Begin(c, record) == calls[c] = Idle /\ calls' = [calls EXCEPT ![c] = record]
End(c) == calls' = [calls EXCEPT ![c] = Idle]

Handler == up /\ unreconciled = {} /\ UNCHANGED <<disk, away, unreconciled, up>>

-----------------------------------------------------------------------------
(* Handlers without an await                                               *)

\* openFolder: the workspace of a folder and its project, made when missing.
OpenFolder(path) ==
    /\ Handler /\ UNCHANGED calls /\ Exists(path)
    /\ LET known == ByKey(Key(path)) IN
       IF known # 0
       THEN /\ ByWorkspace(known) = 0
            /\ AddProject(FolderProject(known))
            /\ UNCHANGED <<workspaces, madeWorkspaces>>
       ELSE /\ AddWorkspace(LocalRow(path, NoRepo))
            /\ AddProject(FolderProject(madeWorkspaces + 1))

\* workspace.create: refuses a folder it knows.
CreateWorkspace(path, repo) ==
    /\ Handler /\ UNCHANGED calls /\ Exists(path) /\ ByKey(Key(path)) = 0
    /\ AddWorkspace(LocalRow(path, repo))
    /\ EnsureProject(madeWorkspaces + 1, LocalRow(path, repo))

\* Mutant: the handler forgets to give the new workspace a project.
ConversationAlone ==
    /\ Handler /\ UNCHANGED <<calls, projects, madeProjects>>
    /\ AddWorkspace(RemoteRow("conversation", NoRepo))

CreateConversation ==
    /\ Handler /\ UNCHANGED calls
    /\ AddWorkspace(RemoteRow("conversation", NoRepo))
    /\ EnsureProject(madeWorkspaces + 1, RemoteRow("conversation", NoRepo))

\* createGitHub answers with the workspace that is there; createCloud refuses.
\* Both are looked up among the rows of their own environment.
CreateRemote(env, repo) ==
    LET same == Oldest({w \in Workspace : workspaces[w].env = env /\ workspaces[w].repo = repo})
        row == RemoteRow(env, repo)
    IN  /\ Handler /\ UNCHANGED calls
        /\ \/ /\ same = 0
              /\ AddWorkspace(row) /\ EnsureProject(madeWorkspaces + 1, row)
           \/ /\ same # 0 /\ env = "github"
              /\ EnsureProject(same, workspaces[same])
              /\ UNCHANGED <<workspaces, madeWorkspaces>>

\* The projects that point at a removed workspace point at nothing afterwards.
RemoveWorkspace(w) ==
    /\ Handler /\ UNCHANGED calls /\ w \in Workspace
    /\ workspaces' = [workspaces EXCEPT ![w] = Gone]
    /\ projects' = [p \in DOMAIN projects |->
                      IF p \in Project /\ projects[p].ws = w
                      THEN [projects[p] EXCEPT !.ws = 0] ELSE projects[p]]
    /\ UNCHANGED <<madeWorkspaces, madeProjects>>

\* project.create, with the workspace and the repository the dialog names.
CreateProject(w, repo) ==
    /\ Handler /\ UNCHANGED <<calls, workspaces, madeWorkspaces>>
    /\ w \in Workspace \cup {0} /\ ByRepository(repo) = 0
    /\ AddProject([ws |-> w, repo |-> repo])

\* setRepository, NoRepo to clear it.
SetRepository(p, repo) ==
    /\ Handler /\ UNCHANGED <<calls, workspaces, madeWorkspaces, madeProjects>>
    /\ p \in Project /\ ByRepository(repo) \in {0, p}
    /\ projects' = [projects EXCEPT ![p].repo = repo]

\* project.setWorkspace: the person points the project at a workspace, or at none.
SetWorkspace(p, w) ==
    /\ Handler /\ UNCHANGED <<calls, workspaces, madeWorkspaces, madeProjects>>
    /\ p \in Project /\ w \in Workspace \cup {0} /\ SetWorkspaceOf(p, w)

RemoveProject(p) ==
    /\ Handler /\ UNCHANGED <<calls, workspaces, madeWorkspaces, madeProjects>>
    /\ p \in Project /\ projects' = [projects EXCEPT ![p] = Gone]

\* ensureWorkspaceForProject: a project without a workspace gets a conversation.
OpenProject(p) ==
    /\ Handler /\ UNCHANGED <<calls, madeProjects>>
    /\ p \in Project /\ projects[p].ws \notin Workspace
    /\ AddWorkspace(RemoteRow("conversation", projects[p].repo))
    /\ SetWorkspaceOf(p, madeWorkspaces + 1)

\* openRepository: the project of a repository, made when there is none; what
\* GitHub says of it is asked afterwards and keeps the key it finds.
OpenRepository(repo) ==
    /\ Handler /\ UNCHANGED <<calls, workspaces, madeWorkspaces>>
    /\ ByRepository(repo) = 0 /\ AddProject([ws |-> 0, repo |-> repo])

-----------------------------------------------------------------------------
(* Cloning                                                                 *)

\* workspace.clone, and project.prepare with a clone: p is 0 for the first.
BeginClone(c, p, path, repo) ==
    /\ Handler /\ UNCHANGED rows
    /\ RealPath[path] = path /\ ~Exists(path) /\ path \notin away /\ repo # NoRepo
    /\ p # 0 => p \in Project /\ projects[p].repo = repo
    /\ Begin(c, [Idle EXCEPT !.op = "cloning", !.project = p, !.path = path, !.repo = repo])

\* git refuses a destination that has come to be meanwhile, and may fail.
GitClones(c) ==
    /\ calls[c].op = "cloning"
    /\ \/ /\ ~Exists(calls[c].path) /\ calls[c].path \notin away
          /\ disk' = [disk EXCEPT ![calls[c].path] = calls[c].repo]
          /\ calls' = [calls EXCEPT ![c].op = "cloned"]
       \/ End(c) /\ UNCHANGED disk
    /\ UNCHANGED <<away, rows, unreconciled, up>>

\* Mutant: whether the folder is known was asked before the clone only.
EndCloneUnasked(c) ==
    LET p == calls[c].project
        row == LocalRow(calls[c].path, calls[c].repo)
    IN  /\ Handler /\ calls[c].op = "cloned" /\ End(c) /\ Exists(calls[c].path)
        /\ AddWorkspace(row)
        /\ IF p \in Project
           THEN SetWorkspaceOf(p, madeWorkspaces + 1) /\ UNCHANGED madeProjects
           ELSE EnsureProject(madeWorkspaces + 1, row)

\* After the clone: create refuses a folder that was opened while git was
\* writing it.  The row stays when the project was removed meanwhile.
EndClone(c) ==
    LET p == calls[c].project
        row == LocalRow(calls[c].path, calls[c].repo)
    IN  /\ Handler /\ calls[c].op = "cloned" /\ End(c)
        /\ \/ /\ ~Exists(calls[c].path) \/ ByKey(row.key) # 0
              /\ UNCHANGED rows
           \/ /\ Exists(calls[c].path) /\ ByKey(row.key) = 0
              /\ AddWorkspace(row)
              /\ \/ p = 0 /\ EnsureProject(madeWorkspaces + 1, row)
                 \/ /\ p \in Project /\ SetWorkspaceOf(p, madeWorkspaces + 1)
                    /\ UNCHANGED madeProjects
                 \/ /\ p # 0 /\ p \notin Project
                    /\ UNCHANGED <<projects, madeProjects>>

-----------------------------------------------------------------------------
(* Giving a project a folder that exists                                   *)

\* Mutant: nobody asks whose the workspace of the folder is.
BindUnasked(p, path, repo) ==
    LET known == ByKey(Key(path))
        points(w) == IF p \in Project THEN SetWorkspaceOf(p, w) ELSE UNCHANGED projects
    IN  /\ UNCHANGED madeProjects
        /\ IF known # 0 THEN points(known) /\ UNCHANGED <<workspaces, madeWorkspaces>>
           ELSE AddWorkspace(LocalRow(path, repo)) /\ points(madeWorkspaces + 1)

\* The rest of prepare: the workspace of the folder, unless another project
\* owns it, or a new one; then the project points at it.
Bind(p, path, repo) ==
    LET known == ByKey(Key(path))
        taken == \E q \in Project \ {p} : projects[q].ws = known
        points(w) == IF p \in Project THEN SetWorkspaceOf(p, w) ELSE UNCHANGED projects
    IN  /\ UNCHANGED madeProjects
        /\ \/ known # 0 /\ taken /\ UNCHANGED <<workspaces, madeWorkspaces, projects>>
           \/ known # 0 /\ ~taken /\ points(known) /\ UNCHANGED <<workspaces, madeWorkspaces>>
           \/ /\ known = 0 /\ AddWorkspace(LocalRow(path, repo))
              /\ points(madeWorkspaces + 1)

\* project.prepare with an existing folder: with no repository to compare,
\* it is bound at once.
Associate(p, path) ==
    /\ Handler /\ UNCHANGED calls
    /\ p \in Project /\ Exists(path) /\ projects[p].repo = NoRepo
    /\ Bind(p, path, NoRepo)

BeginAssociate(c, p, path) ==
    /\ Handler /\ UNCHANGED rows
    /\ p \in Project /\ Exists(path) /\ projects[p].repo # NoRepo
    /\ Begin(c, [Idle EXCEPT !.op = "checking", !.project = p, !.path = path,
                             !.repo = projects[p].repo])

\* git has answered, or could not: the verdict is about the repository read
\* before asking.
EndAssociate(c) ==
    /\ Handler /\ calls[c].op = "checking" /\ End(c)
    /\ \/ UNCHANGED rows
       \/ /\ ~Blocks(calls[c].path, calls[c].repo)
          /\ Bind(calls[c].project, calls[c].path, calls[c].repo)

-----------------------------------------------------------------------------
(* The disk and the application                                            *)

Unplug(f) == f \in Removable \ away /\ away' = away \cup {f} /\ UNCHANGED <<disk, rows, calls, unreconciled, up>>
Plug(f) == f \in away /\ away' = away \ {f} /\ UNCHANGED <<disk, rows, calls, unreconciled, up>>

StopApplication ==
    /\ up /\ up' = FALSE
    /\ calls' = [c \in Call |-> Idle] /\ unreconciled' = {}
    /\ UNCHANGED <<disk, away, rows>>

StartApplication ==
    /\ ~up /\ up' = TRUE /\ unreconciled' = Workspace
    /\ UNCHANGED <<disk, away, rows, calls>>

\* reconcileFolders, one workspace of the list: its identity, then its project.
Reconcile(w) ==
    LET row == IF workspaces[w].env = "local"
               THEN [workspaces[w] EXCEPT !.key = Key(workspaces[w].path)] ELSE workspaces[w]
    IN  /\ w \in unreconciled /\ unreconciled' = unreconciled \ {w}
        /\ workspaces' = [workspaces EXCEPT ![w] = row] /\ EnsureProject(w, row)
        /\ UNCHANGED <<disk, away, madeWorkspaces, calls, up>>

-----------------------------------------------------------------------------
\* What an earlier version wrote: the folder was there, its identity was not recorded.
OldRow(path) == [env |-> "local", path |-> path, key |-> NoPath, repo |-> NoRepo]

CatalogueInit ==
    /\ disk \in [Folder -> {Absent, Plain} \cup Repo] /\ away = {}
    /\ madeWorkspaces \in 0..Old
    /\ \E old \in [1..madeWorkspaces -> {p \in Path : Exists(p)}] :
          workspaces = [w \in 1..MaxWorkspaces |->
                          IF w \in 1..madeWorkspaces THEN OldRow(old[w]) ELSE Gone]
    /\ projects = [p \in 1..MaxProjects |-> Gone] /\ madeProjects = 0
    /\ calls = [c \in Call |-> Idle]
    /\ unreconciled = {} /\ up = FALSE

CatalogueNext ==
    \/ \E path \in Path : OpenFolder(path)
    \/ \E path \in Path, repo \in Repo \cup {NoRepo} : CreateWorkspace(path, repo)
    \/ CreateConversation
    \/ \E env \in Remote, repo \in Repo : CreateRemote(env, repo)
    \/ \E w \in 1..MaxWorkspaces : RemoveWorkspace(w)
    \/ \E w \in 0..MaxWorkspaces, repo \in Repo \cup {NoRepo} : CreateProject(w, repo)
    \/ \E p \in 1..MaxProjects, repo \in Repo \cup {NoRepo} : SetRepository(p, repo)
    \/ \E p \in 1..MaxProjects, w \in 0..MaxWorkspaces : SetWorkspace(p, w)
    \/ \E p \in 1..MaxProjects : RemoveProject(p) \/ OpenProject(p)
    \/ \E c \in Call, p \in 0..MaxProjects, path \in Path, repo \in Repo : BeginClone(c, p, path, repo)
    \/ \E c \in Call : GitClones(c) \/ EndClone(c)
    \/ \E p \in 1..MaxProjects, path \in Path : Associate(p, path)
    \/ \E c \in Call, p \in 1..MaxProjects, path \in Path : BeginAssociate(c, p, path)
    \/ \E c \in Call : EndAssociate(c)
    \/ \E repo \in Repo : OpenRepository(repo)
    \/ \E w \in 1..MaxWorkspaces : Reconcile(w)
    \/ \E f \in Folder : Unplug(f) \/ Plug(f)
    \/ StopApplication \/ StartApplication

CatalogueSpec == CatalogueInit /\ [][CatalogueNext]_catalogueVars

-----------------------------------------------------------------------------
(* Properties                                                              *)

IsLocal(w) == workspaces[w].env = "local"

\* "One folder, one workspace, one project" (workspace-service.ts:274).  Two
\* local rows name one folder, however its path is spelled and whichever handlers
\* were waiting while it was opened, cloned or associated, only when an earlier
\* version had made both; and no two projects claim one repository, although four
\* handlers write its key and one of them after asking GitHub.
OneFolderOneProject ==
    /\ \A v, w \in Workspace :
           v # w /\ IsLocal(v) /\ IsLocal(w) /\ RealPath[workspaces[v].path] = RealPath[workspaces[w].path]
           => {v, w} \subseteq 1..Old
    /\ \A p, q \in Project :
           p # q /\ projects[p].repo # NoRepo => projects[p].repo # projects[q].repo

Owners(w) == {p \in Project : projects[p].ws = w}

\* Only the dialog, where the person names the workspace, gives a workspace that
\* has a project to a second one: preparing a folder never does, whatever was
\* opened, bound or cloned while git was asked (workspace-service.ts:611-616).
FolderIsNotTaken ==
    [][\A w \in Workspace :
          Owners(w) # {} /\ ~(Owners(w)' \subseteq Owners(w))
          => \/ \E p \in Project : SetWorkspace(p, w)
             \/ \E repo \in Repo \cup {NoRepo} : CreateProject(w, repo)]_catalogueVars

Unseen == {w \in Workspace : Owners(w) = {}}

\* While the application runs, a workspace has no project, and is in nobody's
\* sidebar, only because its last project was removed or pointed elsewhere, or
\* was removed while a folder was being prepared for it (ipc-router.ts:52-64).
NothingVanishes ==
    [][\A w \in Unseen' \ Unseen :
          \/ \E p \in Owners(w) : p \notin Project' \/ projects'[p].ws # w
          \/ \E c \in Call : /\ calls[c].op \in {"cloned", "checking"} /\ calls'[c] = Idle
                             /\ calls[c].project \notin Project]_catalogueVars
=============================================================================
