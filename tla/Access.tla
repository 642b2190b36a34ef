------------------------------- MODULE Access -------------------------------
(* The administrators' password and sessions (auth.rs and its handlers in           *)
(* admin.rs). Handlers of several administrators interleave at their awaits.        *)
EXTENDS Integers, FiniteSets

CONSTANTS
  Admins,             \* administrators' browsers
  Passwords, Token,   \* passwords, and the configured token that is the first one
  Unset,
  SessionTtl,         \* ttl of a session
  MaxMinute, MaxLogins, MaxChanged  \* bounds

VARIABLES
  minute,      \* the clock
  passwd,      \* the admin_password_hash setting, or Unset
  changed,     \* password changes stored so far
  cut,         \* history: a change was stored, and no revoke_all has followed it
  sessions,    \* live tokens -> [till, by, since, sound], the last three history: the
               \* password it began by, changes when it was created, and whether the
               \* password was found in the setting that is still there at its creation
  logins,      \* tokens issued so far
  jar,         \* Admins -> the cookie, 0 for none
  desk         \* Admins -> the handler that is running: [at, password, seen, read]; changes
               \* when a login was verified, and whether the setting could be read (history)
accessVars == <<minute, passwd, changed, cut, sessions, logins, jar, desk>>

ASSUME AccessBounds == SessionTtl \in Nat \ {0} /\ Token \in Passwords /\ MaxMinute \in Nat

AtRest == [at |-> "idle", password |-> Unset, seen |-> 0, read |-> TRUE]
Desk(a, rec) == desk' = [desk EXCEPT ![a] = rec]
sessionVars == <<passwd, changed, cut, sessions, logins, jar>>

-----------------------------------------------------------------------------
(* The password and its sessions *)

\* stored_admin_hash and verify_admin_password: the setting; what the installation
\* gave (a file, or the configured token) before the first change, and whenever the
\* setting cannot be read
Stored(read) == IF passwd = Unset \/ ~read THEN Token ELSE passwd
Verify(p, read) == p = Stored(read)

\* Sessions::valid; an expired token is removed when it is looked at
ValidSession(t) == t \in DOMAIN sessions /\ sessions[t].till > minute
Forgotten(ts) == [t \in DOMAIN sessions \ ts |-> sessions[t]]
Looked(t) == IF ValidSession(t) THEN sessions ELSE Forgotten({t})

\* login: verified, then the session in a later step
LoginVerify(a, p, read) ==
  /\ desk[a].at = "idle" /\ logins < MaxLogins \* bound
  /\ Verify(p, read)
  /\ Desk(a, [at |-> "create", password |-> p, seen |-> changed, read |-> read])
  /\ UNCHANGED <<minute, sessionVars>>

\* Sessions::create sweeps, then inserts
Expiry == minute + SessionTtl
Begun(login) ==
  [till |-> Expiry, by |-> login.password, since |-> changed,
   sound |-> login.read /\ login.seen = changed]
LoginCreate(a) ==
  /\ desk[a].at = "create"
  /\ LET t == logins + 1
         kept == {u \in DOMAIN sessions : sessions[u].till > minute}
     IN /\ sessions' = [u \in kept \cup {t} |->
                          IF u = t THEN Begun(desk[a]) ELSE sessions[u]]
        /\ logins' = t
        /\ jar' = [jar EXCEPT ![a] = t]
  /\ Desk(a, AtRest)
  /\ UNCHANGED <<minute, passwd, changed, cut>>

Logout(a) ==
  /\ desk[a].at = "idle" /\ jar[a] # 0
  /\ sessions' = Forgotten({jar[a]})
  /\ jar' = [jar EXCEPT ![a] = 0]
  /\ UNCHANGED <<minute, passwd, changed, cut, logins, desk>>

\* AdminAuth, at the start of a handler: the cookie, or the password in a header
AdminAuth(a, header, read) == desk[a].at = "idle" /\ (ValidSession(jar[a]) \/ Verify(header, read))
AdminRefused(a) ==
  /\ desk[a].at = "idle" /\ jar[a] # 0 /\ ~ValidSession(jar[a])
  /\ sessions' = Looked(jar[a])
  /\ jar' = [jar EXCEPT ![a] = 0]
  /\ UNCHANGED <<minute, passwd, changed, cut, logins, desk>>

\* change_password: the current password, the new one's length, then the setting
ChangeVerify(a, header, old, new, read) ==
  /\ AdminAuth(a, header, read) /\ changed < MaxChanged
  /\ Verify(old, read)
  /\ Desk(a, [AtRest EXCEPT !.at = "set", !.password = new])
  /\ UNCHANGED <<minute, sessionVars>>
SetPassword(a) ==
  /\ desk[a].at = "set"
  /\ passwd' = desk[a].password /\ changed' = changed + 1
  /\ Desk(a, [AtRest EXCEPT !.at = "revoke"])
  /\ UNCHANGED <<minute, cut, sessions, logins, jar>>
RevokeAll_bug(a) ==
  /\ desk[a].at = "revoke"
  /\ sessions' = Forgotten({jar[a]}) /\ cut' = FALSE
  /\ Desk(a, AtRest)
  /\ UNCHANGED <<minute, passwd, changed, logins, jar>>
RevokeAll(a) ==
  /\ desk[a].at = "revoke"
  /\ sessions' = << >> /\ cut' = FALSE
  /\ Desk(a, AtRest)
  /\ UNCHANGED <<minute, passwd, changed, logins, jar>>

\* The caller is gone, or the statement answers with an error: a login without its
\* session, a change that was not stored, or one that was and revokes no session
HandlerCut(a) ==
  /\ desk[a].at # "idle"
  /\ cut' = (cut \/ desk[a].at = "revoke")
  /\ Desk(a, AtRest)
  /\ UNCHANGED <<minute, passwd, changed, sessions, logins, jar>>

-----------------------------------------------------------------------------
MinutePasses ==
  /\ minute < MaxMinute
  /\ minute' = minute + 1
  /\ UNCHANGED <<sessionVars, desk>>

\* the process restarts: sessions are in memory, the setting is not
AccessRestart ==
  /\ sessions' = << >> /\ cut' = FALSE /\ desk' = [a \in Admins |-> AtRest]
  /\ UNCHANGED <<minute, passwd, changed, logins, jar>>

AccessInit ==
  /\ minute = 0 /\ passwd = Unset /\ changed = 0 /\ cut = FALSE /\ sessions = << >> /\ logins = 0
  /\ jar = [a \in Admins |-> 0] /\ desk = [a \in Admins |-> AtRest]

AccessNext ==
  \/ \E a \in Admins :
       \/ \E p \in Passwords, read \in BOOLEAN : LoginVerify(a, p, read)
       \/ LoginCreate(a) \/ Logout(a) \/ AdminRefused(a)
       \/ \E header \in Passwords \cup {Unset}, old, new \in Passwords, read \in BOOLEAN :
            ChangeVerify(a, header, old, new, read)
       \/ SetPassword(a) \/ RevokeAll(a) \/ HandlerCut(a)
  \/ MinutePasses \/ AccessRestart

AccessSpec == AccessInit /\ [][AccessNext]_accessVars

-----------------------------------------------------------------------------
(* Properties *)

\* The variables keep their types, every session is of a token that was issued, and
\* none lasts longer than its time.
AccessTypeOK ==
  /\ minute \in 0..MaxMinute /\ passwd \in Passwords \cup {Unset}
  /\ DOMAIN sessions \subseteq 1..logins
  /\ \A t \in DOMAIN sessions : sessions[t].till <= minute + SessionTtl
  /\ \A a \in Admins : jar[a] \in 0..logins
  /\ \A a \in Admins : desk[a].at \in {"idle", "create", "set", "revoke"}

\* Once every change that was stored has been followed by revoke_all, no session lives
\* that was created before the last of them, whoever logs in or changes the password
\* meanwhile; and a session lives by another password than the one in force only if
\* its login was verified before the change and not finished, or while the setting
\* could not be read.
Settled == ~cut /\ \A a \in Admins : desk[a].at # "revoke"
ChangeEndsSessions ==
  Settled =>
    \A t \in DOMAIN sessions :
      /\ sessions[t].since = changed
      /\ sessions[t].sound => sessions[t].by = Stored(TRUE)
=============================================================================
