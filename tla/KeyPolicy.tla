----------------------------- MODULE KeyPolicy ------------------------------
(* Virtual keys, and the requests that present one (admin.rs, limits.rs,            *)
(* ratelimit.rs, api.rs handle before the pipeline). Administrators edit the key's  *)
(* row while clients' requests read it; every statement is a step.                  *)
EXTENDS Integers, FiniteSets

CONSTANTS
  Editors, Callers,   \* administrators' calls and clients' requests
  Edits,              \* bodies of update_key: [status, limit, ips]; Omitted leaves a field
  Omitted,
  Addresses,          \* addresses that headers give; Omitted where they give none
  Width,              \* bits of an address
  PerWindow, Window,  \* requests of an address per window, and a window's length
  KeyLife,            \* a key's life
  MaxTracked,         \* MAX_ENTRIES of the limiter
  MaxSecond, MaxKeys, MaxEdits, MaxBurst   \* bounds; MaxBurst: requests of an address per window

VARIABLES
  second,      \* the clock
  vkey,        \* the virtual key's row, or Omitted
  keyNo,       \* keys created so far; the number is the key's id
  edits,       \* updates begun so far
  wanted,      \* history: the last status that an update set
  editor,      \* Editors -> the update that is running: [at, id, edit, row]
  window,      \* addresses -> [started, count]
  passed,      \* history: addresses -> [since, n], what the limiter let pass in the
               \* address's last window; nothing is ever swept from it
  calls        \* Callers -> the request: [at, ip, row, began]
keyVars == <<second, vkey, keyNo, edits, wanted, editor, window, passed, calls>>

\* the statuses a key may have: update_key takes any
KeyStatuses == {"active"} \cup ({edit.status : edit \in Edits} \ {Omitted})

ASSUME KeyBounds ==
  /\ Width \in Nat \ {0} /\ PerWindow \in Nat \ {0} /\ Window \in Nat \ {0} /\ KeyLife \in Nat /\ MaxSecond \in Nat /\ MaxEdits \in Nat
  /\ Addresses \subseteq 0..(2^Width - 1) \cup {Omitted}

NoEdit == [at |-> "idle", id |-> 0, edit |-> Omitted, row |-> Omitted]
Editing(a, rec) == editor' = [editor EXCEPT ![a] = rec]

-----------------------------------------------------------------------------
(* Virtual keys *)

Or(asked, old) == IF asked = Omitted THEN old ELSE asked

CreateKey(a, edit) ==
  /\ editor[a].at = "idle" /\ vkey = Omitted /\ keyNo < MaxKeys
  /\ keyNo' = keyNo + 1
  /\ vkey' = [id |-> keyNo', status |-> "active", limit |-> edit.limit, ips |-> Or(edit.ips, {}),
              till |-> second + KeyLife]
  /\ wanted' = "active"
  /\ UNCHANGED <<second, editor, edits, window, passed, calls>>

\* the row of this id, if it is still there
Has(id) == vkey # Omitted /\ vkey.id = id

\* update_key: the status at once, then the row is read and all of its other
\* fields are written
UpdateStatus(a, id, edit) ==
  /\ editor[a].at = "idle" /\ edits < MaxEdits /\ edits' = edits + 1
  /\ LET sets == edit.status # Omitted /\ Has(id)
     IN /\ vkey' = IF sets THEN [vkey EXCEPT !.status = edit.status] ELSE vkey
        /\ wanted' = IF sets THEN edit.status ELSE wanted
  /\ Editing(a, [NoEdit EXCEPT !.at = "read", !.id = id, !.edit = edit])
  /\ UNCHANGED <<second, keyNo, window, passed, calls>>
ReadKey(a) ==
  /\ editor[a].at = "read"
  /\ Editing(a, IF Has(editor[a].id) THEN [editor[a] EXCEPT !.at = "write", !.row = vkey] ELSE NoEdit)
  /\ UNCHANGED <<second, vkey, keyNo, edits, wanted, window, passed, calls>>
Merged_bug(row, edit) ==
  [row EXCEPT !.limit = Or(edit.limit, @), !.ips = Or(edit.ips, @)]
Merged(row, edit) ==
  [vkey EXCEPT !.limit = Or(edit.limit, row.limit), !.ips = Or(edit.ips, row.ips), !.till = row.till]
WriteKey(a) ==
  /\ editor[a].at = "write"
  /\ vkey' = IF Has(editor[a].id) THEN Merged(editor[a].row, editor[a].edit) ELSE vkey
  /\ Editing(a, NoEdit)
  /\ UNCHANGED <<second, keyNo, edits, wanted, window, passed, calls>>

DeleteKey(a) ==
  /\ editor[a].at = "idle" /\ vkey # Omitted
  /\ vkey' = Omitted /\ wanted' = "none"
  /\ UNCHANGED <<second, editor, keyNo, edits, window, passed, calls>>

-----------------------------------------------------------------------------
(* Requests: the address's window, the key's row, its policy *)

NoCall == [at |-> "idle", ip |-> Omitted, row |-> Omitted, began |-> "none"]

\* IpLimiter::check: above its cap the map is swept of windows long over; an
\* address that is not known is let through
Within_bug(n) == n <= PerWindow + 1
Within(n) == n <= PerWindow
Open(began, length) == second - began < length
SweptTo(length) == [i \in {j \in DOMAIN window : Open(window[j].started, length)} |-> window[i]]
Swept_bug == IF Cardinality(DOMAIN window) > MaxTracked THEN SweptTo(Window \div 2) ELSE window
Swept == IF Cardinality(DOMAIN window) > MaxTracked THEN SweptTo(2 * Window) ELSE window
Opened == [started |-> second, count |-> 0]
Counted(ip) ==
  LET w == Swept
      old == IF ip \in DOMAIN w /\ Open(w[ip].started, Window) THEN w[ip] ELSE Opened
  IN [i \in DOMAIN w \cup {ip} |-> IF i = ip THEN [old EXCEPT !.count = @ + 1] ELSE w[i]]

\* The same windows, reckoned without a map that is swept: the first request after a
\* window opens the next one (history)
Reckoned(ip, passes) ==
  LET old == IF ip \in DOMAIN passed /\ Open(passed[ip].since, Window) THEN passed[ip]
             ELSE [since |-> second, n |-> 0]
      new == IF passes THEN [old EXCEPT !.n = @ + 1] ELSE old
  IN [i \in DOMAIN passed \cup {ip} |-> IF i = ip THEN new ELSE passed[i]]

\* began: what the key's status is when the request arrives (history)
Authenticate(c, ip) ==
  /\ calls[c].at = "idle"
  /\ window' = IF ip = Omitted THEN window ELSE Counted(ip)
  /\ passed' = IF ip = Omitted THEN passed ELSE Reckoned(ip, Within(window'[ip].count))
  /\ ip # Omitted => window'[ip].count <= MaxBurst
  /\ calls' = [calls EXCEPT ![c] =
       IF ip # Omitted /\ ~Within(window'[ip].count) THEN [NoCall EXCEPT !.at = "limited"]
       ELSE IF vkey = Omitted THEN [NoCall EXCEPT !.at = "unknown"]
       ELSE [at |-> "keyed", ip |-> ip, row |-> vkey, began |-> vkey.status]]
  /\ UNCHANGED <<second, editor, vkey, keyNo, edits, wanted>>

\* cidr_contains: the first prefix bits agree
CidrContains(net, prefix, ip) ==
  /\ prefix <= Width
  /\ LET shift == 2^(Width - prefix)
     IN prefix = 0 \/ net - (net % shift) = ip - (ip % shift)
EnforceIp(row, ip) ==
  row.ips = {} \/ (ip # Omitted /\ \E e \in row.ips : CidrContains(e.net, e.prefix, ip))

\* limits::validate
Validate_bug(row) == row.status # "disabled" /\ row.till > second
Validate(row) == row.status \notin {"revoked", "disabled"} /\ row.till > second
EnforceKey(c) ==
  /\ calls[c].at = "keyed"
  /\ calls' = [calls EXCEPT ![c].at =
       IF EnforceIp(calls[c].row, calls[c].ip) /\ Validate(calls[c].row) THEN "admitted" ELSE "refused"]
  /\ UNCHANGED <<second, editor, vkey, keyNo, edits, wanted, window, passed>>

CallEnds(c) ==
  /\ calls[c].at \in {"limited", "unknown", "refused", "admitted"}
  /\ calls' = [calls EXCEPT ![c] = NoCall]
  /\ UNCHANGED <<second, editor, vkey, keyNo, edits, wanted, window, passed>>

-----------------------------------------------------------------------------
SecondPasses ==
  /\ second < MaxSecond
  /\ second' = second + 1
  /\ UNCHANGED <<vkey, keyNo, edits, wanted, editor, window, passed, calls>>

KeyInit ==
  /\ second = 0 /\ vkey = Omitted /\ keyNo = 0 /\ edits = 0 /\ wanted = "none"
  /\ editor = [a \in Editors |-> NoEdit]
  /\ window = << >> /\ passed = << >> /\ calls = [c \in Callers |-> NoCall]

KeyNext ==
  \/ \E a \in Editors :
       \/ \E edit \in Edits : \/ CreateKey(a, edit)
                               \/ \E id \in 1..keyNo : UpdateStatus(a, id, edit)
       \/ ReadKey(a) \/ WriteKey(a) \/ DeleteKey(a)
  \/ \E c \in Callers : \/ \E ip \in Addresses : Authenticate(c, ip)
                         \/ EnforceKey(c) \/ CallEnds(c)
  \/ SecondPasses

KeySpec == KeyInit /\ [][KeyNext]_keyVars

-----------------------------------------------------------------------------
(* Properties *)

\* The variables keep their types.
KeyTypeOK ==
  /\ second \in 0..MaxSecond /\ edits \in 0..MaxEdits
  /\ vkey # Omitted => vkey.status \in KeyStatuses
  /\ \A c \in Callers : calls[c].at \in {"idle", "limited", "unknown", "keyed", "refused", "admitted"}

\* The key's status is the one that the last status update set: an update of other
\* fields that read the row earlier does not bring an older status back.
RevocationSticks == vkey # Omitted => vkey.status = wanted

\* The limiter lets no more requests of an address pass in a window than its limit,
\* also when its map is swept between two of them.
LimiterHolds == \A i \in DOMAIN passed : passed[i].n <= PerWindow

\* A request that arrives when its key is disabled or revoked is not admitted, and
\* one whose address is not known is not admitted by a key that lists networks.
AdmittedIsActive ==
  \A c \in Callers :
    calls[c].at = "admitted" =>
      /\ calls[c].began \notin {"disabled", "revoked"}
      /\ calls[c].row.ips # {} => calls[c].ip # Omitted
=============================================================================
