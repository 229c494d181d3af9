---------------------------- MODULE MCAgentConfigs ---------------------------
(* Small instances of AgentConfigs for TLC. *)
EXTENDS AgentConfigs

CONSTANTS sales

\* Every configuration is for one agent.
MCOneAgent == [c \in Configs |-> sales]
=============================================================================
