---------------------------- MODULE TrustedBoot ----------------------------
(***************************************************************************)
(* What SABLE promises across boots, without PCRs, sessions or commands:   *)
(* a secret is stored together with the configuration that was running,    *)
(* and a later boot reveals it only when that same configuration runs      *)
(* again.  A kernel starts after the revealed secret has been confirmed,   *)
(* or in a boot that reveals nothing at all.                               *)
(***************************************************************************)
CONSTANTS Configs, Passphrases, Nothing

VARIABLES
  secret,   \* the stored secret: the set of it, [pp, config], or {}
  config,   \* what this boot runs
  phase,    \* "off", "up", "revealed", "confirmed", "running" or "bare"
  display   \* the passphrase on the screen, or Nothing

vars == <<secret, config, phase, display>>

Init ==
  /\ secret = {}
  /\ config \in Configs
  /\ phase = "off"
  /\ display = Nothing

Start(c) ==
  /\ phase = "off" /\ phase' = "up"
  /\ config' = c
  /\ UNCHANGED <<secret, display>>

\* The new secret is bound to this boot, which is over or about to be.
Store(p) ==
  /\ phase = "up" /\ phase' \in {"up", "off"}
  /\ secret' = {[pp |-> p, config |-> config]}
  /\ UNCHANGED <<config, display>>

Reveal ==
  /\ phase = "up" /\ phase' = "revealed"
  /\ \E s \in secret : s.config = config /\ display' = s.pp
  /\ UNCHANGED <<secret, config>>

Confirm ==
  /\ phase = "revealed" /\ phase' = "confirmed"
  /\ UNCHANGED <<secret, config, display>>

Run ==
  /\ \/ phase = "confirmed" /\ phase' = "running"
     \/ phase = "up" /\ phase' = "bare"
  /\ UNCHANGED <<secret, config, display>>

Stop ==
  /\ phase' = "off" /\ display' = Nothing
  /\ UNCHANGED <<secret, config>>

Next ==
  \/ \E c \in Configs : Start(c)
  \/ \E p \in Passphrases : Store(p)
  \/ Reveal \/ Confirm \/ Run \/ Stop

Spec == Init /\ [][Next]_vars
=============================================================================
