---------------------------- MODULE MC_SkillSync ----------------------------
EXTENDS SkillSync, TLC

SkillSymmetry == Permutations(Skills)
=============================================================================
