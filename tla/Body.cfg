SPECIFICATION BodySpec
CONSTANTS
  People = {"ann"}
  Aging = {"ann"}
  Post = "post"
  Names <- NamesVal
  Ground = {"camp", "wood"}
  Lair = "camp"
  Heirs = {"post", "ann"}
  Stat <- StatVal
  Rules <- RulesVal
  Need <- NeedVal
  Drip <- DripVal
  Dark <- DarkVal
  Lethal = 4
  Lifespan = 4
  Program <- ProgramVal
  Cap <- CapVal
  Day = 2
  Night = {1}
  SleepFor = 2
  MaxDeeds = 2
INVARIANT
  NoOutcomeIsDodged
PROPERTY
  DeathIsFinal
