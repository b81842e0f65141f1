--------------------------- MODULE ProjectRequests ---------------------------
(***************************************************************************)
(* What SkillStar promises to whoever asks for a change of projects: each  *)
(* step does only what some request entitles it to, on the list as it is   *)
(* at that moment and the entry it has just looked at, whoever else is at  *)
(* work, and a request may end at any point.  There are no locks, no steps *)
(* and no loaded copies of a list here: ProjectWrites has them to keep     *)
(* this.                                                                   *)
(* (docs/architecture.md, ss-skills/src/projects/, ownership.rs)           *)
(***************************************************************************)
CONSTANTS Skills, Projects, Procs, Contents, UserContents, Absent

VARIABLES folder,   \* content of each canonical folder
          names,    \* the Skills each project lists
          entries,  \* the entries of its skills directory
          asked     \* what each thread was asked for, and has looked at

vars == <<folder, names, entries, asked>>

Entry(k, c) == [kind |-> k, content |-> c]
Missing == Entry("missing", Absent)
Link    == Entry("link", Absent)
Ours(e) == e.kind \in {"link", "copy"}

\* A request may change one project, or all.
Request(o, S, J) == [op |-> o, skills |-> S, projects |-> J, at |-> {}, seen |-> Missing]
Nothing == Request("none", {}, Projects)

OfOne == {"save", "add", "import", "rebuild", "remove"}
OfAll == {"register", "install", "update", "uninstall"}

Init == /\ folder \in [Skills -> Contents \cup {Absent}]
        /\ names = [j \in Projects |-> {}]
        /\ entries = [j \in Projects |-> [n \in Skills |-> Missing]]
        /\ asked = [p \in Procs |-> Nothing]

Op(p) == asked[p].op

\* The request goes on, or this was its last step.
GoesOn(p) == asked' \in {asked, [asked EXCEPT ![p] = Nothing]}

Asks(p) == /\ UNCHANGED <<folder, names, entries>>
           /\ asked[p] = Nothing
           /\ \E S \in SUBSET Skills :
                \/ \E o \in OfOne, j \in Projects :
                     asked' = [asked EXCEPT ![p] = Request(o, S, {j})]
                \/ \E o \in OfAll : asked' = [asked EXCEPT ![p] = Request(o, S, Projects)]

Ends(p) == /\ UNCHANGED <<folder, names, entries>>
           /\ asked' = [asked EXCEPT ![p] = Nothing]

\* The request looks at an entry, which the user may then change.
Looks(p, j, n) ==
    /\ UNCHANGED <<folder, names, entries>>
    /\ Op(p) # "none" /\ j \in asked[p].projects
    /\ asked' = [asked EXCEPT ![p].at = {<<j, n>>}, ![p].seen = entries[j][n]]

\* It has acted on what it saw, or leaves it.
Acts(p) == asked' = [asked EXCEPT ![p].at = {}, ![p].seen = Missing]

PassesBy(p) == /\ UNCHANGED <<folder, names, entries>>
               /\ Acts(p)

\* An add is about the Skills that are there.
Narrows(p) ==
    /\ UNCHANGED <<folder, names, entries>>
    /\ Op(p) = "add"
    /\ asked' = [asked EXCEPT ![p].skills = {n \in @ : folder[n] # Absent}]

\* Installs, updates and uninstalls write folders.
WritesFolder(p, n) ==
    /\ UNCHANGED <<names, entries>>
    /\ n \in asked[p].skills
    /\ \E c \in Contents \cup {Absent} :
         /\ \/ Op(p) = "install"   /\ folder[n] = Absent /\ c # Absent
            \/ Op(p) = "update"    /\ folder[n] # Absent /\ c # Absent
            \/ Op(p) = "uninstall" /\ c = Absent
         /\ folder' = [folder EXCEPT ![n] = c]
    /\ GoesOn(p)

\* The list of j becomes N: what the user saved, what the directory has, nothing;
\* or it keeps every name, and gets those asked for.  A list that was deleted in
\* the meantime may come back.
WritesList(p, j) ==
    /\ UNCHANGED <<folder, entries>>
    /\ j \in asked[p].projects
    /\ \E N \in SUBSET Skills :
         /\ \/ Op(p) = "save"    /\ N = asked[p].skills
            \/ Op(p) = "rebuild" /\ N = {n \in Skills : entries[j][n] # Missing}
            \/ Op(p) = "remove"  /\ N = {}
            \/ /\ Op(p) \in {"add", "import"}
               /\ names[j] \subseteq N
               /\ names[j] # {} => N \subseteq names[j] \cup asked[p].skills
               /\ Op(p) = "add" => asked[p].skills \subseteq N
         /\ names' = [names EXCEPT ![j] = N]
    /\ GoesOn(p)

\* An uninstall takes its Skill off a list, and its entry if that was SkillStar's.
Delists(p, j, n) ==
    /\ UNCHANGED <<folder, entries, asked>>
    /\ Op(p) = "uninstall" /\ j \in asked[p].projects /\ n \in asked[p].skills
    /\ names' = [names EXCEPT ![j] = @ \ {n}]

Forgets(p, j, n) ==
    /\ UNCHANGED <<folder, names>>
    /\ Op(p) = "uninstall" /\ <<j, n>> \in asked[p].at /\ n \in asked[p].skills
    /\ entries' = [entries EXCEPT ![j][n] = IF Ours(asked[p].seen) THEN Missing ELSE @]
    /\ Acts(p)

\* The list is written first, and nobody else writes it: it names what is
\* deployed, or has been deleted with its project.
Listed(j, S) == S \subseteq names[j] \/ names[j] = {}

\* What a sync deploys to is empty: SkillStar's entries go, the user's stay.
Clears(p, j, n) ==
    /\ UNCHANGED <<folder, names>>
    /\ Op(p) = "save" /\ <<j, n>> \in asked[p].at
    /\ names[j] \in {asked[p].skills, {}}
    /\ entries' = [entries EXCEPT ![j][n] = IF Ours(asked[p].seen) THEN Missing ELSE @]
    /\ Acts(p)

\* A free name gets a link or a copy of the folder; an add renews links too.  A
\* name taken meanwhile may still be overrun by a copy.
Deploys(p, j, n) ==
    LET seen == asked[p].seen IN
    /\ UNCHANGED <<folder, names>>
    /\ <<j, n>> \in asked[p].at /\ n \in asked[p].skills /\ Listed(j, {n})
    /\ \/ Op(p) = "save" /\ seen = Missing /\ folder[n] # Absent
       \/ Op(p) = "add"  /\ seen \in {Missing, Link}
    /\ \E e \in {Missing, Link} \cup {Entry("copy", c) : c \in {folder[n]} \ {Absent}} :
         /\ seen = Link \/ entries[j][n] = Missing \/ e.kind = "copy"
         /\ entries' = [entries EXCEPT ![j][n] = e]
    /\ Acts(p)

\* An update replaces a listed copy that is of another content, or fails to.
Refreshes(p, j, n) ==
    LET seen == asked[p].seen IN
    /\ UNCHANGED <<folder, names>>
    /\ Op(p) = "update" /\ <<j, n>> \in asked[p].at /\ n \in asked[p].skills
    /\ n \in names[j] /\ seen.kind = "copy"
    /\ folder[n] \notin {Absent, seen.content}
    /\ \E e \in {Missing, Entry("copy", folder[n])} :
         entries' = [entries EXCEPT ![j][n] = e]
    /\ Acts(p)

\* An import moves a folder of the user's to the hub, unless the hub has another
\* of that name, and links to it.
Adopts(p, j, n) ==
    LET seen == asked[p].seen IN
    /\ UNCHANGED names
    /\ Op(p) = "import" /\ <<j, n>> \in asked[p].at /\ n \in asked[p].skills
    /\ seen.kind = "user" /\ folder[n] \in {Absent, seen.content}
    /\ \E e \in {seen, entries[j][n]} :
         folder' = [folder EXCEPT ![n] = IF @ = Absent THEN e.content ELSE @]
    /\ entries' = [entries EXCEPT ![j][n] = Missing]
    /\ Acts(p)

Links(p, j, n) ==
    /\ UNCHANGED <<folder, names, asked>>
    /\ Op(p) = "import" /\ j \in asked[p].projects /\ n \in asked[p].skills
    /\ entries[j][n] = Missing /\ folder[n] # Absent
    /\ entries' = [entries EXCEPT ![j][n] = Link]

\* The user's own hand.
UserPuts(j, n) ==
    /\ UNCHANGED <<folder, names, asked>>
    /\ \E e \in {Missing} \cup {Entry("user", c) : c \in UserContents} :
         entries' = [entries EXCEPT ![j][n] = e]

Next ==
    \/ \E j \in Projects, n \in Skills : UserPuts(j, n)
    \/ \E p \in Procs :
         \/ Ends(p) \/ PassesBy(p) \/ Asks(p) \/ Narrows(p)
         \/ \E n \in Skills : WritesFolder(p, n)
         \/ \E j \in Projects :
              \/ WritesList(p, j)
              \/ \E n \in Skills : \/ Looks(p, j, n) \/ Delists(p, j, n) \/ Forgets(p, j, n)
                                   \/ Clears(p, j, n) \/ Deploys(p, j, n)
                                   \/ Refreshes(p, j, n)
                                   \/ Adopts(p, j, n) \/ Links(p, j, n)

Spec == Init /\ [][Next]_vars
=============================================================================
