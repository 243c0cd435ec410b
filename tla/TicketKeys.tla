----------------------------- MODULE TicketKeys -----------------------------
(***************************************************************************)
(* The session ticket keys of a server's configuration: how a key is added *)
(* (s2n_config_add_ticket_crypto_key in tls/s2n_config.c), chosen for the  *)
(* next ticket, found by the name in a ticket, and wiped once expired      *)
(* (tls/s2n_resume.c).                                                     *)
(*                                                                         *)
(* A key may encrypt while intro < now < intro + EncryptDecryptLifetime,   *)
(* and decrypt for DecryptLifetime more.  The clock is config->wall_clock, *)
(* which never goes back here; one call may read it more than once and see *)
(* it move.  The keying material stands for its derived key and its hash.  *)
(***************************************************************************)
EXTENDS Integers, FiniteSets, Sequences, SequencesExt

CONSTANTS
    Names,                  \* key_name
    Materials,              \* what the keys are derived from
    MaxTicketKeys,          \* S2N_MAX_TICKET_KEYS
    MaxTicketKeyHashes,     \* S2N_MAX_TICKET_KEY_HASHES
    EncryptDecryptLifetime, \* encrypt_decrypt_key_lifetime_in_nanos
    DecryptLifetime,        \* decrypt_key_lifetime_in_nanos
    Precision,              \* 2^53, the random numbers s2n_public_random is asked for
    Slack,                  \* bound on the error of a sum of doubles, in units of 1/Precision
    IntroTimes,             \* intro_time_in_seconds_from_epoch, 0 for the time of the call
    StartTime,              \* the time when the server starts
    MaxTime                 \* bound on the clock

ASSUME LifetimeAssumption ==
    /\ EncryptDecryptLifetime \in Nat /\ DecryptLifetime \in Nat /\ MaxTime \in Nat \ {0}
    /\ EncryptDecryptLifetime % 2 = 0      \* a number of seconds, in nanoseconds
ASSUME LimitAssumption ==
    MaxTicketKeys \in Nat \ {0} /\ MaxTicketKeyHashes \in Nat /\ MaxTicketKeys < MaxTicketKeyHashes
ASSUME DoubleAssumption == Precision \in Nat /\ Slack \in Nat
ASSUME TimeAssumption == IntroTimes \subseteq 0..MaxTime /\ StartTime \in 1..MaxTime

VARIABLES
    now,     \* what config->wall_clock returns
    config   \* the part of struct s2n_config that is about ticket keys

Key == [name : Names, material : Materials, intro : 1..MaxTime]
Config == [use_tickets : BOOLEAN, use_session_cache : BOOLEAN,
           ticket_keys : Seq(Key), ticket_key_hashes : SUBSET Materials]

keyVars == <<now, config>>

-----------------------------------------------------------------------------
(***************************************************************************)
(* The states of a key at a given time.                                    *)
(***************************************************************************)
MayEncrypt(k, t) == k.intro < t /\ t < k.intro + EncryptDecryptLifetime
DecryptOnly(k, t) == t >= k.intro + EncryptDecryptLifetime
Expired_LifetimesNotAdded(k, t) == t >= k.intro + EncryptDecryptLifetime
Expired(k, t) == t >= k.intro + EncryptDecryptLifetime + DecryptLifetime

(***************************************************************************)
(* The indexes of the keys that pass a test, in order: an array that a     *)
(* loop over the keys fills.                                               *)
(***************************************************************************)
InOrder(S, n) ==
    LET found[i \in 0..n] ==
            IF i = 0 THEN <<>> ELSE IF i \in S THEN Append(found[i-1], i) ELSE found[i-1]
    IN  found[n]
Where(keys, Test(_)) == InOrder({i \in DOMAIN keys : Test(keys[i])}, Len(keys))

s2n_config_is_encrypt_decrypt_key_available(t) ==
    \E i \in DOMAIN config.ticket_keys : MayEncrypt(config.ticket_keys[i], t)

(***************************************************************************)
(* s2n_config_wipe_expired_ticket_crypto_keys: the expired keys are        *)
(* collected by their index and then removed one after the other, and each *)
(* removal moves the keys behind it down by one.                           *)
(***************************************************************************)
RemoveEach(keys, index) ==
    LET left[j \in 0..Len(index)] ==
            IF j = 0 THEN keys ELSE RemoveAt(left[j-1], index[j] - (j-1))
    IN  left[Len(index)]

s2n_config_wipe_expired_ticket_crypto_keys(keys, t) ==
    RemoveEach(keys, Where(keys, LAMBDA k : Expired(k, t)))

(***************************************************************************)
(* s2n_find_ticket_key: the first key of that name, if it has not expired; *)
(* an expired one is wiped by its index.  The keys that are left, and the  *)
(* key found.                                                              *)
(***************************************************************************)
NoKey == [none |-> TRUE]
s2n_find_ticket_key_WipesNext(keys, name, t) ==
    LET named == Where(keys, LAMBDA k : k.name = name)
    IN  IF named = <<>> THEN [left |-> keys, key |-> NoKey]
        ELSE IF Expired(keys[named[1]], t)
        THEN [left |-> IF named[1] < Len(keys) THEN RemoveEach(keys, <<named[1] + 1>>) ELSE keys,
              key |-> NoKey]
        ELSE [left |-> keys, key |-> keys[named[1]]]
s2n_find_ticket_key(keys, name, t) ==
    LET named == Where(keys, LAMBDA k : k.name = name)
    IN  IF named = <<>> THEN [left |-> keys, key |-> NoKey]
        ELSE IF Expired(keys[named[1]], t)
        THEN [left |-> RemoveEach(keys, <<named[1]>>), key |-> NoKey]
        ELSE [left |-> keys, key |-> keys[named[1]]]

(***************************************************************************)
(* s2n_set_add with s2n_config_store_ticket_key_comparator: in front of    *)
(* the first key that was introduced no earlier.                           *)
(***************************************************************************)
s2n_config_store_ticket_key_AtTheEnd(keys, k) == Append(keys, k)
s2n_config_store_ticket_key(keys, k) ==
    InsertAt(keys, Cardinality({i \in DOMAIN keys : keys[i].intro < k.intro}) + 1, k)

(***************************************************************************)
(* s2n_compute_weight_of_encrypt_decrypt_keys: the keys that may encrypt,  *)
(* newest first, are weighted by how close they are to the middle of their *)
(* lifetime.                                                               *)
(***************************************************************************)
Weight_FromThePeak(k, t) ==
    LET half == EncryptDecryptLifetime \div 2
    IN  IF t < k.intro + half THEN t - k.intro ELSE half - (t - k.intro)
Weight(k, t) ==
    LET half == EncryptDecryptLifetime \div 2
    IN  IF t < k.intro + half THEN t - k.intro ELSE half - (t - (k.intro + half))

EncryptKeys(t) == Reverse(Where(config.ticket_keys, LAMBDA k : MayEncrypt(k, t)))
Weights(t) ==
    LET index == EncryptKeys(t)
    IN  [i \in DOMAIN index |-> Weight(config.ticket_keys[index[i]], t)]
Total(w) ==
    LET sum[i \in 0..Len(w)] == IF i = 0 THEN 0 ELSE sum[i-1] + w[i]
    IN  sum[Len(w)]

(***************************************************************************)
(* The weights are then normalised and summed up in doubles, and the first *)
(* sum above a random multiple of 1/Precision in [0, 1) picks its key.  So *)
(* a sum is known by c[i], the random numbers it is above.  Adding up the  *)
(* total, dividing by it, adding to the sum and counting are each inexact: *)
(* what weight i adds to c may be off by Slack, but not be negative.       *)
(***************************************************************************)
Before_NotAdded(c, i) == 0
Before(c, i) == IF i = 1 THEN 0 ELSE c[i-1]
Sums(w) ==
    LET total == Total(w)
    IN  {c \in [1..Len(w) -> 0..(Precision + Len(w) * Slack)] :
            \A i \in 1..Len(w) :
                /\ Before(c, i) <= c[i]
                /\ (c[i] - Before(c, i)) * total >= Precision * w[i] - Slack * total
                /\ (c[i] - Before(c, i)) * total <= Precision * w[i] + Slack * total}

Random == 0..(Precision - 1)
Picked(c, random) ==
    {i \in DOMAIN c : c[i] > random /\ \A j \in 1..(i-1) : c[j] <= random}

(***************************************************************************)
(* What can be picked; NoKey if the last sum is not above the number.      *)
(***************************************************************************)
s2n_compute_weight_of_encrypt_decrypt_keys(t) ==
    LET index == EncryptKeys(t)
    IN  UNION {IF Picked(c, random) = {} THEN {NoKey}
               ELSE {config.ticket_keys[index[i]] : i \in Picked(c, random)} :
                   c \in Sums(Weights(t)), random \in Random}

(***************************************************************************)
(* s2n_get_ticket_encrypt_decrypt_key: the keys it can return, and NoKey   *)
(* if it can fail.                                                         *)
(***************************************************************************)
s2n_get_ticket_encrypt_decrypt_key(t) ==
    CASE Len(EncryptKeys(t)) = 0 -> {NoKey}
      [] Len(EncryptKeys(t)) = 1 -> {config.ticket_keys[EncryptKeys(t)[1]]}
      [] OTHER -> s2n_compute_weight_of_encrypt_decrypt_keys(t)

-----------------------------------------------------------------------------
(***************************************************************************)
(* s2n_config_add_ticket_crypto_key.  Expired keys are wiped even if the   *)
(* new key is then refused.  The table of hashes is emptied when there are *)
(* MaxTicketKeyHashes keys, not hashes.                                    *)
(***************************************************************************)
HashesBefore(keys) ==
    IF Len(keys) >= MaxTicketKeyHashes THEN {} ELSE config.ticket_key_hashes

Refused_SameNameAllowed(keys, name, material) ==
    Len(keys) >= MaxTicketKeys \/ material \in HashesBefore(keys)
Refused(keys, name, material) ==
    \/ Len(keys) >= MaxTicketKeys
    \/ s2n_find_ticket_key(keys, name, now).key # NoKey
    \/ material \in HashesBefore(keys)

IntroTimestamp_ZeroKept(intro) == intro
IntroTimestamp(intro) == IF intro = 0 THEN now ELSE intro

s2n_config_add_ticket_crypto_key(name, material, intro) ==
    /\ config.use_tickets \/ config.use_session_cache
    /\ LET keys == s2n_config_wipe_expired_ticket_crypto_keys(config.ticket_keys, now)
           k == [name |-> name, material |-> material, intro |-> IntroTimestamp(intro)]
       IN  config' = IF Refused(keys, name, material)
                     THEN [config EXCEPT !.ticket_keys = keys]
                     ELSE [config EXCEPT !.ticket_keys = s2n_config_store_ticket_key(keys, k),
                                         !.ticket_key_hashes = HashesBefore(keys) \cup {material}]
    /\ UNCHANGED now

(***************************************************************************)
(* Turning tickets or the session cache on makes the two sets if they are  *)
(* not there; turning the last of them off frees both.                     *)
(***************************************************************************)
Freed == [config EXCEPT !.ticket_keys = <<>>, !.ticket_key_hashes = {}]

s2n_config_set_session_tickets_onoff(enabled) ==
    /\ config.use_tickets # enabled
    /\ config' = [IF enabled \/ config.use_session_cache THEN config ELSE Freed
                    EXCEPT !.use_tickets = enabled]
    /\ UNCHANGED now

s2n_config_set_session_cache_onoff(enabled) ==
    /\ config' = [IF enabled \/ config.use_tickets THEN config ELSE Freed
                    EXCEPT !.use_session_cache = enabled]
    /\ UNCHANGED now

FindKey(name) ==
    /\ config' = [config EXCEPT !.ticket_keys = s2n_find_ticket_key(@, name, now).left]
    /\ UNCHANGED now

Tick == now < MaxTime /\ now' = now + 1 /\ UNCHANGED config

KeyInit ==
    /\ now = StartTime
    /\ config = [use_tickets |-> FALSE, use_session_cache |-> FALSE,
                 ticket_keys |-> <<>>, ticket_key_hashes |-> {}]

KeyNext ==
    \/ Tick
    \/ \E n \in Names, m \in Materials, i \in IntroTimes : s2n_config_add_ticket_crypto_key(n, m, i)
    \/ \E b \in BOOLEAN : s2n_config_set_session_tickets_onoff(b) \/ s2n_config_set_session_cache_onoff(b)
    \/ \E n \in Names : FindKey(n)

KeySpec == KeyInit /\ [][KeyNext]_keyVars

-----------------------------------------------------------------------------
KeysTypeOK == now \in 1..MaxTime /\ config \in Config

(***************************************************************************)
(* "Keys are stored from oldest to newest" (s2n_config_store_ticket_key),  *)
(* however they were added and wiped, and never more than the arrays on    *)
(* the stack of the functions above can hold.                              *)
(***************************************************************************)
OldestFirst ==
    /\ Len(config.ticket_keys) <= MaxTicketKeys
    /\ \A i, j \in DOMAIN config.ticket_keys :
           i < j => config.ticket_keys[i].intro <= config.ticket_keys[j].intro

(***************************************************************************)
(* A name means one key, or a ticket could be opened with the wrong one,   *)
(* and no keying material is used by two keys.                             *)
(***************************************************************************)
KeysDistinct ==
    \A i, j \in DOMAIN config.ticket_keys :
        i # j => /\ config.ticket_keys[i].name # config.ticket_keys[j].name
                 /\ config.ticket_keys[i].material # config.ticket_keys[j].material

(***************************************************************************)
(* A key leaves the store only when it has expired, or with the store: the *)
(* removals by index take the keys they mean.                              *)
(***************************************************************************)
InStore(k) == k \in Range(config.ticket_keys)
OnlyExpiredLeave ==
    [][\A k \in Range(config.ticket_keys) :
           \/ InStore(k)'
           \/ Expired(k, now)
           \/ ~config'.use_tickets /\ ~config'.use_session_cache]_keyVars

(***************************************************************************)
(* However the doubles are rounded, one key is picked unless the random    *)
(* number is one of the last few (S2N_ERR_ENCRYPT_DECRYPT_KEY_SELECTION_   *)
(* FAILED: about as many of the 2^53 as there are keys), and every key     *)
(* that may encrypt is picked by some number, also one that has just been  *)
(* introduced or is about to stop, as long as its share of the total is    *)
(* not lost in the rounding.                                               *)
(***************************************************************************)
SelectionCovers ==
    LET w == Weights(now)
        n == Len(w)
        shared == {i \in 1..n : Precision * w[i] > n * Slack * Total(w)}
    IN  n >= 2 => \A c \in Sums(w) :
            /\ \A random \in 0..(Precision - n * Slack - 1) : \E i \in 1..n : Picked(c, random) = {i}
            /\ \A i \in shared : \E random \in Random : Picked(c, random) = {i}

(***************************************************************************)
(* "S2N_MAX_TICKET_KEY_HASHES 500 /* 10KB */" (tls/s2n_config.h): the      *)
(* table of hashes does not grow past it.                                  *)
(***************************************************************************)
HashesBounded == Cardinality(config.ticket_key_hashes) <= MaxTicketKeyHashes
=============================================================================
