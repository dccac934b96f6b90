----------------------------- MODULE SpamFilter -----------------------------
(***************************************************************************)
(* SpamFilter::check of src/filters/spam.rs. A message is what the filter  *)
(* looks at: the sender's address, domain and name, the words of its text, *)
(* and whether name and subject look like gibberish. Scores are in tenths. *)
(***************************************************************************)
EXTENDS Naturals, FiniteSets

CONSTANTS
  Words,           (* what a text may contain                               *)
  Curated,         (* the built-in keywords                                 *)
  Addresses,       (* senders' addresses                                    *)
  NoAddress

ASSUME SpamAssumption ==
  IsFiniteSet(Words) /\ Curated \subseteq Words /\ NoAddress \notin Addresses

VARIABLES
  mail,            (* the message being checked                             *)
  extra,           (* keywords and addresses of the daemon's configuration  *)
  verdict          (* "unread", "clean" or "spam"                           *)

spamVars == <<mail, extra, verdict>>

Mails == [words : SUBSET Words, address : Addresses \cup {NoAddress},
          oddName : BOOLEAN, oddSubject : BOOLEAN]

SpamTypeOK ==
  /\ mail \in Mails /\ verdict \in {"unread", "clean", "spam"}
  /\ extra.words \subseteq Words /\ extra.addresses \subseteq Addresses

SpamInit ==
  /\ mail \in Mails /\ verdict = "unread"
  /\ extra \in [words : SUBSET Words, addresses : SUBSET Addresses]

(* The configured words in place of the curated ones.                      *)
ListReplaced(words) == IF words = {} THEN Curated ELSE words

(* with_extra_blocklists: the curated words and the configured ones.       *)
Blocklist(words) == Curated \cup words

(* The domain list of the daemon's filter is empty, so the 0.8 of a        *)
(* blocked domain is never added.                                          *)
Score(m, words, addresses) ==
    (IF m.address \in addresses THEN 10 ELSE 0)
  + (IF m.oddName THEN 5 ELSE 0)
  + 3 * Cardinality(m.words \cap Blocklist(words))
  + (IF m.oddSubject THEN 4 ELSE 0)

IsSpam(m, words, addresses) == Score(m, words, addresses) >= 7

Check ==
  /\ verdict = "unread"
  /\ verdict' = IF IsSpam(mail, extra.words, extra.addresses) THEN "spam" ELSE "clean"
  /\ UNCHANGED <<mail, extra>>

SpamNext == Check

SpamSpec == SpamInit /\ [][SpamNext]_spamVars

-----------------------------------------------------------------------------
(* "Configuration can only strengthen filtering, never weaken the shipped  *)
(* baseline": what is spam without configured lists is spam with any. And  *)
(* every verdict of spam rests on a blocked address, or on two signals at  *)
(* least: no odd name, odd subject or single word is enough.               *)
NeverWeaker ==
  /\ verdict = "clean" => ~ IsSpam(mail, {}, {})
  /\ verdict = "spam" =>
       \/ mail.address \in extra.addresses
       \/ Cardinality(mail.words \cap (Curated \cup extra.words)) +
          (IF mail.oddName THEN 1 ELSE 0) + (IF mail.oddSubject THEN 1 ELSE 0) >= 2
=============================================================================
