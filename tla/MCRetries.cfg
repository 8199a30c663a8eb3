SPECIFICATION MCSpec
CONSTANTS
  Question = {"backfill", "verdict"}
  Node = {1, 3, 4}
  Live = {1, 3}
  Unit <- MCUnit
  Parents <- MCParents
  Top <- MCTop
  Start <- MCStart
  Stray <- MCStray
  MaxLosses = 1
  Caller = {a, b}
  Buffer = 1
  MaxWaiting = 1
  MaxHasty = 1
PROPERTIES
  Heals
  RequestsCease
  NoLateRejection
  EveryCallerAnswered
