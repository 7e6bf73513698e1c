SPECIFICATION Spec
CONSTANTS
    ring = ring
    first = first
    second = second
    permanent = permanent
    charged = charged
    class = class
    name = name
    heroOnly = heroOnly
    Originals = {ring}
    CustomIds = {first, second}
    Standard = Standard
    Classes = {permanent, charged}
    ClassField = class
    OtherFields = {name, heroOnly}
    Hidden = {heroOnly}
    ClassOf <- MCClassOf
    Imports <- MCImports
    MaxItems = 3
INVARIANTS
    TreeShowsObjects
PROPERTIES
    EditMovesItem
    ImportReplaces
CHECK_DEADLOCK FALSE
