SPECIFICATION DictSpec
CONSTANTS
  Key = {a, b, c}
  Val = {x, y}
  NoValue = NoValue
  Capacities = {0, 1, 3}
INVARIANTS
  Filled
PROPERTIES
  DictionarySpec
