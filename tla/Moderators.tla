----------------------------- MODULE Moderators -----------------------------
(***************************************************************************)
(* Who is a moderator: the profiles of config.yaml (modpass), /login and   *)
(* /unmod, and /refresh, which reads the file again and takes the rights   *)
(* of those whose profile has changed. (The delay after a failed login     *)
(* only refuses; the remote moderators of the panel have accounts of their *)
(* own.)                                                                   *)
(***************************************************************************)

CONSTANTS Client, Profile, Password, None

VARIABLES
  file,    \* modpass of config.yaml as it is on the disk; None: no such profile
  modpass, \* server.config["modpass"]
  mod,     \* client.mod_profile_name, and is_mod
  used     \* history: the password a moderator gave

vars == << file, modpass, mod, used >>

Profiles == [Profile -> Password \cup {None}]

TypeOK ==
  /\ file \in Profiles /\ modpass \in Profiles
  /\ mod \in [Client -> Profile \cup {None}] /\ used \in [Client -> Password \cup {None}]

Nobody == [c \in Client |-> None]

Init == file \in Profiles /\ modpass = file /\ mod = Nobody /\ used = Nobody

-----------------------------------------------------------------------------
\* auth_mod: the profiles with this password, the first one of which is taken.
Matches(pw) == {p \in Profile : modpass[p] = pw}

Login(c, pw) ==
  /\ mod[c] = None
  /\ \E p \in Matches(pw) : mod' = [mod EXCEPT ![c] = p]
  /\ used' = [used EXCEPT ![c] = pw]
  /\ UNCHANGED << file, modpass >>

\* unmod, or a lost connection
Unmod(cs) ==
  /\ mod' = [c \in Client |-> IF c \in cs THEN None ELSE mod[c]]
  /\ used' = [c \in Client |-> IF c \in cs THEN None ELSE used[c]]

Logout(c) == mod[c] # None /\ Unmod({c}) /\ UNCHANGED << file, modpass >>

\* Somebody edits the file.
Edit(p, pw) == file' = [file EXCEPT ![p] = pw] /\ UNCHANGED << modpass, mod, used >>

RevokedIfGone == {c \in Client : mod[c] # None /\ file[mod[c]] = None}

\* Those whose profile is gone, or has changed.
Revoked == {c \in Client : mod[c] # None /\ file[mod[c]] # modpass[mod[c]]}

\* refresh, of a moderator, which may be revoked with it
Refresh(c) == mod[c] # None /\ Unmod(Revoked) /\ modpass' = file /\ UNCHANGED file

Restart == Unmod(Client) /\ modpass' = file /\ UNCHANGED file

Next ==
  \/ \E c \in Client : Logout(c) \/ Refresh(c) \/ \E pw \in Password : Login(c, pw)
  \/ \E p \in Profile, pw \in Password \cup {None} : Edit(p, pw)
  \/ Restart

Spec == Init /\ [][Next]_vars

-----------------------------------------------------------------------------
\* Properties

\* Who is a moderator gave a password that is still that of its profile, as the server last
\* read it: a password that was changed or withdrawn gives nobody rights from /refresh on
\* ("unmodding users if necessary", TsuServer3.refresh).
ModsAreCurrent == \A c \in Client : mod[c] # None => modpass[mod[c]] = used[c]

=============================================================================
